--------------------------- MODULE MsgQueueProofs ---------------------------
(***************************************************************************)
(* Proofs about the message queues, for every number of processes,         *)
(* descriptors, slots and queues: the member lists and the buffers in any  *)
(* use of the calls, and the mailboxes they implement in careful use.      *)
(***************************************************************************)
EXTENDS MsgQueueProperties, Orders, SequenceTheorems, FiniteSetTheorems, TLAPS

Members == [Slot -> Pid \cup {0}]

Within(ps) == {ps[s] : s \in Slot} \ {0}

Packed(ps) == \A s, t \in Slot : ps[s] = 0 /\ s < t => ps[t] = 0

Distinct(ps) == \A s, t \in Slot : ps[s] = ps[t] /\ ps[s] # 0 => s = t

WellKept(ps) == ps \in Members /\ Packed(ps) /\ Distinct(ps)

(***************************************************************************)
(* The two operations on a member list.                                    *)
(***************************************************************************)
\* The shift of do_msg_queue_close keeps a member list packed and without
\* duplicates, whichever slot it starts from, and adds nobody.
LEMMA ShiftKeeps ==
    ASSUME NEW ps, WellKept(ps), NEW s \in Slot
    PROVE  WellKept(RemoveSlot(ps, s)) /\ Within(RemoveSlot(ps, s)) \subseteq Within(ps)
<1> DEFINE new == ShiftFrom(ps, s)
<1>1. /\ Slot \subseteq Int
      /\ \A t \in Slot : t + 1 \in Slot \/ t = MAX_MEMBERS - 1
      /\ \A t \in Slot : t <= MAX_MEMBERS - 1 /\ 0 <= t
  BY QueueAssumption DEF Slot
<1>2. \A t \in Slot : new[t] = IF t < s THEN ps[t]
                               ELSE IF t + 1 \in Slot THEN ps[t + 1] ELSE 0
  BY DEF ShiftFrom
<1>3. new \in Members
  BY DEF WellKept, Members, ShiftFrom
<1>4. Packed(new)
  BY <1>1, <1>2 DEF WellKept, Packed
<1>5. Distinct(new)
  BY <1>1, <1>2 DEF WellKept, Packed, Distinct
<1>6. Within(new) \subseteq Within(ps)
  BY <1>2 DEF Within
<1>7. QED
  BY <1>3, <1>4, <1>5, <1>6 DEF WellKept, RemoveSlot

\* So does the fork handler with a child that is not in the list, which it adds
\* at most.
LEMMA JoinKeeps ==
    ASSUME NEW ps, WellKept(ps), NEW child \in Pid, child \notin Within(ps)
    PROVE  WellKept(Joined(ps, child))
           /\ Within(Joined(ps, child)) \subseteq Within(ps) \cup {child}
<1> DEFINE empty == {s \in Slot : ps[s] = 0}
<1>1. CASE empty = {}
  BY <1>1 DEF Joined
<1>2. CASE empty # {}
  <2>1. empty \in SUBSET Nat
    BY QueueAssumption DEF Slot
  <2> DEFINE m == Min(empty)
             new == [ps EXCEPT ![m] = child]
  <2>2. m \in empty /\ \A t \in empty : m <= t
    BY <1>2, <2>1, MinInSet
  <2>3. m \in Slot /\ ps[m] = 0
    BY <2>2
  <2>4. Joined(ps, child) = new
    BY <1>2 DEF Joined
  <2>5. child # 0 /\ \A s \in Slot : ps[s] # child
    BY DEF Within, Pid
  <2>6. \A t \in Slot : new[t] = IF t = m THEN child ELSE ps[t]
    BY DEF WellKept, Members
  <2>7. new \in Members
    BY <2>3 DEF WellKept, Members
  <2>8. Packed(new)
    <3> SUFFICES ASSUME NEW s \in Slot, NEW t \in Slot, new[s] = 0, s < t
                 PROVE  new[t] = 0
      BY DEF Packed
    <3>1. s # m /\ ps[s] = 0
      BY <2>5, <2>6
    <3>2. m <= s
      BY <2>2, <3>1
    <3>3. t # m
      BY <2>3, <3>1, <3>2, QueueAssumption DEF Slot
    <3>4. ps[t] = 0
      BY <3>1 DEF WellKept, Packed
    <3>5. QED
      BY <2>6, <3>3, <3>4
  <2>9. Distinct(new)
    BY <2>5, <2>6 DEF WellKept, Distinct
  <2>10. Within(new) \subseteq Within(ps) \cup {child}
    BY <2>6 DEF Within
  <2>11. QED
    BY <2>4, <2>7, <2>8, <2>9, <2>10 DEF WellKept
<1>3. QED
  BY <1>1, <1>2

(***************************************************************************)
(* The invariant.  A queue that was not created yet is empty and nobody    *)
(* has a descriptor of it.                                                 *)
(***************************************************************************)
QueueType ==
    /\ alive \subseteq Pid
    /\ files \in [Pid -> [Fd -> Queue \cup {NoFile, Regular}]]
    /\ created \in 0 .. MaxQueues
    /\ refs \in [Queue -> {0, 1}]
    /\ pids \in [Queue -> Members]

Fresh ==
    \A q \in Queue : q > created =>
        /\ refs[q] = 0
        /\ pids[q] = [s \in Slot |-> 0]
        /\ \A p \in Pid : q \notin QueuesOf(p, Fd)

ListsKept == \A q \in Queue : WellKept(pids[q])

MembersReach ==
    \A q \in Queue : refs[q] > 0 =>
        \A p \in Within(pids[q]) : p \in alive /\ q \in QueuesOf(p, Fd)

QueueInv == QueueType /\ Fresh /\ ListsKept /\ MembersReach

memberVars == <<alive, files, created, refs, pids>>

LEMMA QueueInvInit == Init => QueueInv
<1> SUFFICES ASSUME Init PROVE QueueInv
  OBVIOUS
<1> DEFINE nobody == [s \in Slot |-> 0]
<1>1. QueueType
  BY QueueAssumption DEF Init, QueueType, Members, InitPid, Pid, NoFile
<1>2. \A q \in Queue : pids[q] = nobody /\ refs[q] = 0
  BY DEF Init
<1>3. WellKept(nobody) /\ Within(nobody) = {}
  BY DEF WellKept, Members, Packed, Distinct, Within
<1>4. \A p \in Pid : QueuesOf(p, Fd) = {}
  BY DEF Init, QueuesOf, Queue, NoFile
<1>5. QED
  BY <1>1, <1>2, <1>3, <1>4 DEF QueueInv, Fresh, ListsKept, MembersReach

\* Most calls leave the members and the descriptors alone.
LEMMA QueueInvFrame ==
    QueueInv /\ UNCHANGED memberVars => QueueInv'
BY DEF QueueInv, memberVars, QueueType, Fresh, ListsKept, MembersReach, QueuesOf

\* A descriptor of no queue changes hands.
LEMMA FileStepKeeps ==
    ASSUME QueueInv, NEW p \in Pid, NEW fd \in Fd, NEW f \in {NoFile, Regular},
           files[p][fd] \in {NoFile, Regular},
           files' = [files EXCEPT ![p][fd] = f],
           UNCHANGED <<alive, created, refs, pids>>
    PROVE  QueueInv'
<1>1. files' \in [Pid -> [Fd -> Queue \cup {NoFile, Regular}]]
  BY DEF QueueInv, QueueType
<1>2. \A r \in Pid : QueuesOf(r, Fd)' = QueuesOf(r, Fd)
  <2>1. {NoFile, Regular} \cap Queue = {}
    BY DEF Queue, NoFile, Regular
  <2>2. \A r \in Pid, e \in Fd :
           files'[r][e] = IF r = p /\ e = fd THEN f ELSE files[r][e]
    BY DEF QueueInv, QueueType
  <2>3. QED
    BY <2>1, <2>2 DEF QueuesOf
<1>3. QED
  BY <1>1, <1>2 DEF QueueInv, QueueType, Fresh, ListsKept, MembersReach

LEMMA NewDescriptor ==
    ASSUME NEW p \in Pid, FreeFds(p) # {}
    PROVE  Min(FreeFds(p)) \in Fd /\ files[p][Min(FreeFds(p))] = NoFile
<1>1. FreeFds(p) \in SUBSET Nat
  BY QueueAssumption DEF FreeFds, Fd
<1>2. Min(FreeFds(p)) \in FreeFds(p)
  BY <1>1, MinInSet
<1>3. QED
  BY <1>2 DEF FreeFds

LEMMA OpenKeeps ==
    ASSUME QueueInv, NEW p \in Pid, OpenFile(p)
    PROVE  QueueInv'
<1>1. Min(FreeFds(p)) \in Fd /\ files[p][Min(FreeFds(p))] = NoFile
  BY NewDescriptor DEF OpenFile, NewFd
<1>2. QED
  BY <1>1, FileStepKeeps DEF OpenFile, NewFd, queueVars

LEMMA CloseFileKeeps ==
    ASSUME QueueInv, NEW p \in Pid, NEW fd \in Fd, CloseFile(p, fd)
    PROVE  QueueInv'
BY FileStepKeeps DEF CloseFile, queueVars

LEMMA CreateKeeps ==
    ASSUME QueueInv, NEW p \in Pid, CreateMsgQueue(p)
    PROVE  QueueInv'
<1> DEFINE new == created + 1
           fd == Min(FreeFds(p))
           first == [pids[new] EXCEPT ![0] = p]
<1>1. new \in Queue /\ created' = new /\ new > created
  BY QueueAssumption DEF CreateMsgQueue, QueueInv, QueueType, Queue
<1>2. fd \in Fd /\ files[p][fd] = NoFile
  BY NewDescriptor DEF CreateMsgQueue, NewFd
<1>3. /\ files' = [files EXCEPT ![p][fd] = new]
      /\ refs' = [refs EXCEPT ![new] = 1]
      /\ pids' = [pids EXCEPT ![new] = first]
      /\ alive' = alive /\ p \in alive
  BY <1>1 DEF CreateMsgQueue, NewFd, Running
<1>4. /\ 0 \in Slot
      /\ pids[new] = [s \in Slot |-> 0]
  BY <1>1, QueueAssumption DEF QueueInv, Fresh, Slot
<1>5. WellKept(first) /\ Within(first) = {p}
  <2>1. \A s \in Slot : first[s] = IF s = 0 THEN p ELSE 0
    BY <1>4
  <2>2. p # 0 /\ Slot \subseteq Nat
    BY QueueAssumption DEF Pid, Slot
  <2>3. first \in Members
    BY <1>4 DEF Members
  <2>4. Packed(first) /\ Distinct(first)
    BY <2>1, <2>2 DEF Packed, Distinct
  <2>5. Within(first) = {p}
    BY <1>4, <2>1, <2>2 DEF Within
  <2>6. QED
    BY <2>3, <2>4, <2>5 DEF WellKept
<1>6. QueueType'
  BY <1>1, <1>2, <1>3, <1>5 DEF QueueInv, QueueType, WellKept, Queue
<1>7. \A r \in Pid : /\ QueuesOf(r, Fd)' \subseteq QueuesOf(r, Fd) \cup {new}
                     /\ QueuesOf(r, Fd) \subseteq QueuesOf(r, Fd)'
                     /\ new \in QueuesOf(p, Fd)'
  <2>1. \A r \in Pid, e \in Fd :
           files'[r][e] = IF r = p /\ e = fd THEN new ELSE files[r][e]
    BY <1>3 DEF QueueInv, QueueType
  <2>2. NoFile \notin Queue
    BY DEF Queue, NoFile
  <2>3. QED
    BY <1>1, <1>2, <2>1, <2>2 DEF QueuesOf
<1>8. \A q \in Queue : q # new => pids'[q] = pids[q] /\ refs'[q] = refs[q]
  BY <1>3 DEF QueueInv, QueueType
<1>9. pids'[new] = first
  BY <1>1, <1>3 DEF QueueInv, QueueType
<1>10. Fresh'
  <2>1. \A q \in Queue : q > new => q # new /\ q > created
    BY <1>1, QueueAssumption DEF Queue, QueueInv, QueueType
  <2>2. QED
    BY <1>1, <1>7, <1>8, <2>1 DEF QueueInv, Fresh
<1>11. ListsKept'
  BY <1>5, <1>8, <1>9 DEF QueueInv, ListsKept
<1>12. MembersReach'
  <2> SUFFICES ASSUME NEW q \in Queue, refs'[q] > 0, NEW r \in Within(pids'[q])
               PROVE  r \in alive' /\ q \in QueuesOf(r, Fd)'
    BY DEF MembersReach
  <2>1. CASE q = new
    <3>1. r = p
      BY <1>5, <1>9, <2>1
    <3>2. QED
      BY <1>3, <1>7, <2>1, <3>1
  <2>2. CASE q # new
    <3>1. r \in alive /\ q \in QueuesOf(r, Fd) /\ r \in Pid
      BY <1>8, <2>2 DEF QueueInv, MembersReach, QueueType
    <3>2. QED
      BY <1>3, <1>7, <3>1
  <2>3. QED
    BY <2>1, <2>2
<1>13. QED
  BY <1>6, <1>10, <1>11, <1>12 DEF QueueInv

\* close, whoever calls and whatever slot it takes.
LEMMA RemoveKeeps ==
    ASSUME QueueInv, NEW q \in Queue, NEW s \in Slot, created >= q,
           pids' = [pids EXCEPT ![q] = RemoveSlot(@, s)],
           UNCHANGED <<alive, files, created, refs>>
    PROVE  QueueInv'
<1>1. WellKept(pids[q])
  BY DEF QueueInv, ListsKept
<1>2. WellKept(RemoveSlot(pids[q], s)) /\ Within(RemoveSlot(pids[q], s)) \subseteq Within(pids[q])
  BY <1>1, ShiftKeeps
<1>3. \A r \in Queue : pids'[r] = IF r = q THEN RemoveSlot(pids[q], s) ELSE pids[r]
  BY DEF QueueInv, QueueType
<1>4. QueueType'
  BY <1>2 DEF QueueInv, QueueType, WellKept
<1>5. Fresh'
  <2>1. \A r \in Queue : r > created => r # q
    BY QueueAssumption DEF Queue, QueueInv, QueueType
  <2>2. QED
    BY <1>3, <2>1 DEF QueueInv, Fresh, QueuesOf
<1>6. ListsKept'
  BY <1>2, <1>3 DEF QueueInv, ListsKept
<1>7. MembersReach'
  BY <1>2, <1>3 DEF QueueInv, MembersReach, QueuesOf
<1>8. QED
  BY <1>4, <1>5, <1>6, <1>7 DEF QueueInv

\* A queue that somebody has a descriptor of was created.
LEMMA ReachedExists ==
    ASSUME QueueInv, NEW p \in Pid, NEW q \in QueuesOf(p, Fd)
    PROVE  q \in Queue /\ created >= q
BY QueueAssumption DEF QueueInv, QueueType, Fresh, QueuesOf, Queue

LEMMA ThroughReaches ==
    ASSUME NEW p \in Pid, NEW fd \in Fd, NEW q \in Queue, Through(p, fd, q)
    PROVE  q \in QueuesOf(p, Fd)
BY DEF Through, QueuesOf

LEMMA MsgQueueCloseKeeps ==
    ASSUME QueueInv, NEW p \in Pid, NEW fd \in Fd, NEW q \in Queue,
           MsgQueueClose(p, fd, q)
    PROVE  QueueInv'
<1>1. created >= q
  BY ReachedExists, ThroughReaches DEF MsgQueueClose
<1>2. CloseSlot(q, p) \in Slot
  BY QueueAssumption DEF CloseSlot, Slot
<1>3. QED
  BY <1>1, <1>2, RemoveKeeps DEF MsgQueueClose, procVars

LEMMA CloseStrangerKeeps ==
    ASSUME QueueInv, NEW p \in Pid, NEW fd \in Fd, NEW q \in Queue,
           CloseStranger(p, fd, q)
    PROVE  QueueInv'
<1>1. created >= q
  BY ReachedExists, ThroughReaches DEF CloseStranger
<1>2. 0 \in Slot
  BY QueueAssumption DEF Slot
<1>3. QED
  BY <1>1, <1>2, RemoveKeeps DEF CloseStranger, procVars

LEMMA ForkKeeps ==
    ASSUME QueueInv, NEW p \in Pid, Fork(p)
    PROVE  QueueInv'
<1> DEFINE child == Min(Pid \ alive)
           joins == QueuesOf(p, Scanned(p))
<1>1. child \in Pid /\ child \notin alive
  <2>1. Pid \ alive \in SUBSET Nat
    BY QueueAssumption DEF Pid
  <2>2. QED
    BY <2>1, MinInSet DEF Fork
<1>2. /\ p \in alive
      /\ \A q \in joins : refs[q] > 0
      /\ alive' = alive \cup {child}
      /\ files' = [files EXCEPT ![child] = files[p]]
      /\ pids' = [q \in Queue |-> IF q \in joins THEN Joined(pids[q], child)
                                                 ELSE pids[q]]
      /\ created' = created /\ refs' = refs
  BY DEF Fork, Running
<1>3. joins \subseteq QueuesOf(p, Fd) /\ joins \subseteq Queue
  BY DEF QueuesOf, Scanned
<1>4. \A q \in joins : child \notin Within(pids[q])
  BY <1>1, <1>2, <1>3 DEF QueueInv, MembersReach
<1>5. \A q \in joins : /\ WellKept(Joined(pids[q], child))
                       /\ Within(Joined(pids[q], child)) \subseteq Within(pids[q]) \cup {child}
  BY <1>1, <1>3, <1>4, JoinKeeps DEF QueueInv, ListsKept
<1>6. \A r \in Pid : QueuesOf(r, Fd)' = QueuesOf(IF r = child THEN p ELSE r, Fd)
  BY <1>1, <1>2 DEF QueuesOf, QueueInv, QueueType
<1>7. QueueType'
  <2>1. alive' \subseteq Pid
    BY <1>1, <1>2 DEF QueueInv, QueueType
  <2>2. files' \in [Pid -> [Fd -> Queue \cup {NoFile, Regular}]]
    BY <1>2 DEF QueueInv, QueueType
  <2>3. pids' \in [Queue -> Members]
    BY <1>2, <1>5 DEF QueueInv, QueueType, WellKept
  <2>4. QED
    BY <1>2, <2>1, <2>2, <2>3 DEF QueueInv, QueueType
<1>8. Fresh'
  <2>1. \A q \in Queue : q > created => q \notin joins
    BY <1>3 DEF QueueInv, Fresh
  <2>2. QED
    BY <1>2, <1>6, <2>1 DEF QueueInv, Fresh
<1>9. ListsKept'
  BY <1>2, <1>5 DEF QueueInv, ListsKept
<1>10. MembersReach'
  <2> SUFFICES ASSUME NEW q \in Queue, refs[q] > 0, NEW r \in Within(pids'[q])
               PROVE  r \in alive' /\ q \in QueuesOf(r, Fd)'
    BY <1>2 DEF MembersReach
  <2>1. CASE r \in Within(pids[q])
    <3>1. r \in alive /\ q \in QueuesOf(r, Fd) /\ r \in Pid
      BY <2>1 DEF QueueInv, MembersReach, QueueType
    <3>2. QED
      BY <1>1, <1>2, <1>6, <3>1
  <2>2. CASE r \notin Within(pids[q])
    <3>1. q \in joins /\ r = child
      BY <1>2, <1>5, <2>2
    <3>2. QED
      BY <1>1, <1>2, <1>3, <1>6, <3>1
  <2>3. QED
    BY <2>1, <2>2
<1>11. QED
  BY <1>7, <1>8, <1>9, <1>10 DEF QueueInv

LEMMA ExitKeeps ==
    ASSUME QueueInv, NEW p \in Pid, Exit(p)
    PROVE  QueueInv'
<1> DEFINE left == {q \in QueuesOf(p, Scanned(p)) : Member(q, p)}
           slot == 1
<1>1. /\ \A q \in QueuesOf(p, Fd) : refs[q] > 0
      /\ alive' = alive \ {p}
      /\ pids' = [q \in Queue |-> IF q \in left THEN RemoveSlot(pids[q], slot) ELSE pids[q]]
      /\ refs' = [q \in Queue |-> IF q \in QueuesOf(p, Fd) THEN refs[q] - 1 ELSE refs[q]]
      /\ files' = files /\ created' = created
  BY DEF Exit, Drop, CloseSlot
<1>2. slot \in Slot
  BY QueueAssumption DEF Slot
<1>3. left \subseteq QueuesOf(p, Fd) /\ left \subseteq Queue
  BY DEF QueuesOf, Scanned
<1>4. \A q \in left : WellKept(RemoveSlot(pids[q], slot))
  BY <1>2, <1>3, ShiftKeeps DEF QueueInv, ListsKept
<1>5. \A r \in Pid : QueuesOf(r, Fd)' = QueuesOf(r, Fd)
  BY <1>1 DEF QueuesOf
<1>6. QueueType'
  <2>1. pids' \in [Queue -> Members]
    BY <1>1, <1>4 DEF QueueInv, QueueType, WellKept
  <2>2. refs' \in [Queue -> {0, 1}]
    <3>1. \A q \in Queue : refs[q] \in {0, 1}
      BY DEF QueueInv, QueueType
    <3>2. \A q \in Queue : refs'[q] \in {0, 1}
      BY <1>1, <3>1
    <3>3. QED
      BY <1>1, <3>2
  <2>3. QED
    BY <1>1, <2>1, <2>2 DEF QueueInv, QueueType
<1>7. Fresh'
  <2>1. \A q \in Queue : q > created => q \notin left /\ q \notin QueuesOf(p, Fd)
    BY <1>3 DEF QueueInv, Fresh
  <2>2. QED
    BY <1>1, <1>5, <2>1 DEF QueueInv, Fresh
<1>8. ListsKept'
  BY <1>1, <1>4 DEF QueueInv, ListsKept
<1>9. MembersReach'
  <2> SUFFICES ASSUME NEW q \in Queue, refs'[q] > 0, NEW r \in Within(pids'[q])
               PROVE  r \in alive' /\ q \in QueuesOf(r, Fd)'
    BY DEF MembersReach
  <2>1. refs[q] \in {0, 1}
    BY DEF QueueInv, QueueType
  <2>2. q \notin QueuesOf(p, Fd)
    BY <1>1, <2>1
  <2>3. pids'[q] = pids[q] /\ refs[q] > 0
    BY <1>1, <1>3, <2>2
  <2>4. r \in alive /\ q \in QueuesOf(r, Fd) /\ r \in Pid
    BY <2>3 DEF QueueInv, MembersReach, QueueType
  <2>5. QED
    BY <1>1, <1>5, <2>2, <2>4
<1>10. QED
  BY <1>6, <1>7, <1>8, <1>9 DEF QueueInv

(***************************************************************************)
(* The theorems.                                                           *)
(***************************************************************************)
LEMMA QueueInvNext == QueueInv /\ [Next]_vars => QueueInv'
<1> SUFFICES ASSUME QueueInv, [Next]_vars PROVE QueueInv'
  OBVIOUS
<1>1. CASE UNCHANGED vars
  BY <1>1, QueueInvFrame DEF vars, memberVars, procVars, queueVars
<1>2. CASE Next
  <2> SUFFICES ASSUME NEW p \in Pid,
                      \/ FileStep(p)
                      \/ Fork(p)
                      \/ Exit(p)
                      \/ \E fd \in Fd, q \in Queue :
                            MailStep(p, fd, q) \/ MemberStep(p, fd, q)
               PROVE  QueueInv'
    BY <1>2 DEF Next
  <2>1. CASE FileStep(p)
    <3>1. CASE CreateMsgQueue(p)
      BY <3>1, CreateKeeps
    <3>2. CASE OpenFile(p)
      BY <3>2, OpenKeeps
    <3>3. CASE TableFull(p) \/ Dangling(p)
      BY <3>3, QueueInvFrame DEF TableFull, Dangling, Fails, memberVars, procVars, queueVars
    <3>4. ASSUME NEW fd \in Fd, CloseFile(p, fd) PROVE QueueInv'
      BY <3>4, CloseFileKeeps
    <3>5. ASSUME NEW fd \in Fd,
                 NotAQueue(p, fd) \/ Astray(p, fd) \/ CloseUnopened(p, fd)
          PROVE  QueueInv'
      BY <3>5, QueueInvFrame
         DEF NotAQueue, Astray, CloseUnopened, Fails, memberVars, procVars, queueVars
    <3>6. QED
      BY <2>1, <3>1, <3>2, <3>3, <3>4, <3>5 DEF FileStep
  <2>2. CASE Fork(p)
    BY <2>2, ForkKeeps
  <2>3. CASE Exit(p)
    BY <2>3, ExitKeeps
  <2>4. ASSUME NEW fd \in Fd, NEW q \in Queue, MailStep(p, fd, q)
        PROVE  QueueInv'
    <3>1. UNCHANGED memberVars
      BY <2>4 DEF MailStep, Broadcast, Send, Overflow, Receive, GetMsgCount,
                  Deliver, Fails, memberVars, procVars, queueVars
    <3>2. QED
      BY <3>1, QueueInvFrame
  <2>5. ASSUME NEW fd \in Fd, NEW q \in Queue, MemberStep(p, fd, q)
        PROVE  QueueInv'
    <3>1. CASE MsgQueueClose(p, fd, q)
      BY <3>1, MsgQueueCloseKeeps
    <3>2. CASE CloseStranger(p, fd, q)
      BY <3>2, CloseStrangerKeeps
    <3>3. CASE GetMemberInfo(p, fd, q) \/ \E other \in Named(p) : Block(p, fd, q, other)
      <4>1. UNCHANGED memberVars
        BY <3>3 DEF GetMemberInfo, Block, memberVars, procVars, queueVars
      <4>2. QED
        BY <4>1, QueueInvFrame
    <3>4. QED
      BY <2>5, <3>1, <3>2, <3>3 DEF MemberStep
  <2>6. QED
    BY <2>1, <2>2, <2>3, <2>4, <2>5
<1>3. QED
  BY <1>1, <1>2

LEMMA QueueInvHolds == Spec => []QueueInv
BY QueueInvInit, QueueInvNext, PTL DEF Spec

\* The members of a queue always stand in its first slots (pids of
\* msg_queue_info), after any sequence of creates, forks, closes and exits.
THEOREM ListsPacked == Spec => []MembersPacked
<1>1. QueueInv => MembersPacked
  BY DEF QueueInv, ListsKept, WellKept, Packed, MembersPacked
<1>2. QED
  BY <1>1, QueueInvHolds, PTL

\* No process is ever in two slots of a queue.
THEOREM ListsDistinct == Spec => []MembersDistinct
<1>1. QueueInv => MembersDistinct
  BY DEF QueueInv, ListsKept, WellKept, Distinct, MembersDistinct
<1>2. QED
  BY <1>1, QueueInvHolds, PTL

\* Every member of a queue whose file object is allocated is a living process
\* with a descriptor of it: a pid that is used again inherits no membership.
THEOREM ListsLive == Spec => []MembersLive
<1>1. QueueInv => MembersLive
  <2> SUFFICES ASSUME QueueInv, NEW q \in Queue, refs[q] > 0,
                      NEW p \in MembersOf(q)
               PROVE  p \in alive /\ q \in QueuesOf(p, Fd)
    BY DEF MembersLive
  <2>1. p \in Within(pids[q])
    BY DEF MembersOf, Member, SlotsOf, Within, Pid
  <2>2. QED
    BY <2>1 DEF QueueInv, MembersReach
<1>2. QED
  BY <1>1, QueueInvHolds, PTL

(***************************************************************************)
(* Members and descriptors.  In these programs nobody leaves a queue or    *)
(* closes a file, and a queue has room for every process.                  *)
(***************************************************************************)
CarefulMembers ==
    /\ Usage \cap {"close", "stranger", "exit", "close_file"} = {}
    /\ MAX_PROCESSES - 1 <= MAX_MEMBERS

\* The descriptors of a process are the first ones: the fork handler, which
\* stops at the first free one, looks at them all.
NoHoles ==
    \A p \in Pid : \A fd, e \in Fd :
        e < fd /\ files[p][fd] # NoFile => files[p][e] # NoFile

\* No slot is left to a process that does not live.
NoGhosts == \A q \in Queue : Within(pids[q]) \subseteq alive

HoldInv == NoHoles /\ NoGhosts /\ MembersHoldDescriptors

LEMMA HoldInvFrame ==
    HoldInv /\ UNCHANGED memberVars => HoldInv'
BY DEF HoldInv, memberVars, NoHoles, NoGhosts, MembersHoldDescriptors, QueuesOf,
       Member, SlotsOf

LEMMA HoldInvInit == Init => HoldInv
<1> SUFFICES ASSUME Init PROVE HoldInv
  OBVIOUS
<1>1. \A q \in Queue, p \in Pid : ~ Member(q, p)
  BY QueueAssumption DEF Init, Member, SlotsOf, Pid
<1>2. \A p \in Pid : QueuesOf(p, Fd) = {}
  BY DEF Init, QueuesOf, Queue, NoFile
<1>3. alive \subseteq Pid
  BY QueueAssumption DEF Init, InitPid, Pid
<1>4. NoHoles /\ NoGhosts
  BY DEF Init, NoHoles, NoGhosts, Within
<1>5. QED
  BY <1>1, <1>2, <1>3, <1>4 DEF HoldInv, MembersHoldDescriptors

LEMMA MemberWithin ==
    ASSUME NEW q \in Queue, NEW p \in Pid
    PROVE  Member(q, p) <=> p \in Within(pids[q])
BY DEF Member, SlotsOf, Within, Pid

\* The new descriptor goes to the first free place.
LEMMA NewKeepsNoHoles ==
    ASSUME QueueInv, NoHoles, NEW p \in Pid, FreeFds(p) # {},
           NEW f \in Int, f # NoFile,
           files' = [files EXCEPT ![p][Min(FreeFds(p))] = f]
    PROVE  NoHoles'
<1> DEFINE m == Min(FreeFds(p))
<1>1. FreeFds(p) \in SUBSET Nat /\ Fd \subseteq Nat
  BY QueueAssumption DEF FreeFds, Fd
<1>2. m \in FreeFds(p) /\ \A e \in FreeFds(p) : m <= e
  BY <1>1, MinInSet
<1>3. \A e \in Fd : e < m => files[p][e] # NoFile
  <2> SUFFICES ASSUME NEW e \in Fd, e < m, files[p][e] = NoFile PROVE FALSE
    OBVIOUS
  <2>1. e \in FreeFds(p)
    BY DEF FreeFds
  <2>2. m <= e /\ m \in Nat /\ e \in Nat
    BY <1>1, <1>2, <2>1
  <2> HIDE DEF m
  <2>3. QED
    BY <2>2
<1>4. \A r \in Pid, e \in Fd : files'[r][e] = IF r = p /\ e = m THEN f ELSE files[r][e]
  BY <1>2 DEF QueueInv, QueueType, FreeFds
<1>5. QED
  BY <1>3, <1>4 DEF NoHoles

LEMMA OpenHolds == ASSUME QueueInv, HoldInv, NEW p \in Pid, OpenFile(p) PROVE HoldInv'
<1>1. NoHoles'
  <2>1. FreeFds(p) # {} /\ files' = [files EXCEPT ![p][Min(FreeFds(p))] = Regular]
    BY DEF OpenFile, NewFd
  <2>2. Regular \in Int /\ Regular # NoFile
    BY DEF Regular, NoFile
  <2>3. QED
    BY <2>1, <2>2, NewKeepsNoHoles DEF HoldInv
<1>2. Min(FreeFds(p)) \in Fd /\ files[p][Min(FreeFds(p))] = NoFile
  BY NewDescriptor DEF OpenFile, NewFd
<1>3. \A r \in Pid : QueuesOf(r, Fd)' = QueuesOf(r, Fd)
  <2>1. {NoFile, Regular} \cap Queue = {}
    BY DEF Queue, NoFile, Regular
  <2>2. \A r \in Pid, e \in Fd :
           files'[r][e] = IF r = p /\ e = Min(FreeFds(p)) THEN Regular ELSE files[r][e]
    BY <1>2 DEF OpenFile, NewFd, QueueInv, QueueType
  <2>3. QED
    BY <1>2, <2>1, <2>2 DEF QueuesOf
<1>4. UNCHANGED <<alive, pids>> /\ alive \subseteq Pid
  BY DEF OpenFile, queueVars, QueueInv, QueueType
<1>5. QED
  BY <1>1, <1>3, <1>4 DEF HoldInv, NoGhosts, MembersHoldDescriptors, Member, SlotsOf

LEMMA CreateHolds ==
    ASSUME QueueInv, HoldInv, NEW p \in Pid, CreateMsgQueue(p) PROVE HoldInv'
<1> DEFINE new == created + 1
           fd == Min(FreeFds(p))
<1>1. new \in Queue /\ created' = new /\ new > created
  BY QueueAssumption DEF CreateMsgQueue, QueueInv, QueueType, Queue
<1>2. fd \in Fd /\ files[p][fd] = NoFile
  BY NewDescriptor DEF CreateMsgQueue, NewFd
<1>3. /\ files' = [files EXCEPT ![p][fd] = new]
      /\ pids' = [pids EXCEPT ![new][0] = p]
      /\ alive' = alive /\ p \in alive /\ alive \subseteq Pid
  BY <1>1 DEF CreateMsgQueue, NewFd, Running, QueueInv, QueueType
<1>4. NoHoles'
  <2>1. FreeFds(p) # {} /\ new \in Int /\ new # NoFile
    BY <1>1 DEF CreateMsgQueue, NewFd, Queue, NoFile
  <2>2. QED
    BY <1>3, <2>1, NewKeepsNoHoles DEF HoldInv
<1>5. \A r \in Pid, q \in Queue :
         q \in QueuesOf(r, Fd)' <=> q \in QueuesOf(r, Fd) \/ (q = new /\ r = p)
  <2>1. \A r \in Pid, e \in Fd :
           files'[r][e] = IF r = p /\ e = fd THEN new ELSE files[r][e]
    BY <1>2, <1>3 DEF QueueInv, QueueType
  <2>2. NoFile \notin Queue
    BY DEF Queue, NoFile
  <2>3. QED
    BY <1>1, <1>2, <2>1, <2>2 DEF QueuesOf
<1>6. 0 \in Slot /\ pids[new] = [s \in Slot |-> 0]
  BY <1>1, QueueAssumption DEF QueueInv, Fresh, Slot
<1>7. \A q \in Queue, s \in Slot :
         pids'[q][s] = IF q = new /\ s = 0 THEN p ELSE pids[q][s]
  BY <1>1, <1>3, <1>6 DEF QueueInv, QueueType, Members
<1>8. \A r \in Pid, q \in Queue : Member(q, r)' <=> Member(q, r) \/ (q = new /\ r = p)
  BY <1>1, <1>6, <1>7 DEF Member, SlotsOf, Pid
<1>9. NoGhosts'
  BY <1>3, <1>7 DEF HoldInv, NoGhosts, Within
<1>10. MembersHoldDescriptors'
  BY <1>3, <1>5, <1>8 DEF HoldInv, MembersHoldDescriptors
<1>11. QED
  BY <1>4, <1>9, <1>10 DEF HoldInv

\* A list without duplicates that lacks a process has room for it.
LEMMA RoomForAll ==
    ASSUME CarefulMembers, NEW ps, WellKept(ps), NEW child \in Pid,
           child \notin Within(ps)
    PROVE  \E s \in Slot : ps[s] = 0
<1> SUFFICES ASSUME \A s \in Slot : ps[s] # 0 PROVE FALSE
  OBVIOUS
<1> DEFINE others == Pid \ {child}
<1>1. IsFiniteSet(Slot) /\ Cardinality(Slot) = MAX_MEMBERS
  BY FS_Interval, QueueAssumption DEF Slot
<1>2. IsFiniteSet(Pid) /\ Cardinality(Pid) = MAX_PROCESSES - 1
  BY FS_Interval, QueueAssumption DEF Pid
<1>3. IsFiniteSet(others) /\ Cardinality(others) = MAX_PROCESSES - 2
  BY <1>2, FS_RemoveElement, QueueAssumption
<1>4. ps \in [Slot -> others]
  BY DEF WellKept, Members, Within
<1>5. Cardinality(others) < Cardinality(Slot)
  BY <1>1, <1>3, QueueAssumption DEF CarefulMembers
<1>6. \E s, t \in Slot : s # t /\ ps[s] = ps[t]
  BY <1>1, <1>3, <1>4, <1>5, FS_PigeonHole
<1>7. QED
  BY <1>6 DEF WellKept, Distinct

\* What the fork handler makes of a list: the child and nobody else is new.
LEMMA JoinAdds ==
    ASSUME NEW ps \in Members, NEW child \in Pid, \E s \in Slot : ps[s] = 0
    PROVE  Within(Joined(ps, child)) = Within(ps) \cup {child}
<1> DEFINE empty == {s \in Slot : ps[s] = 0}
           m == Min(empty)
<1>1. empty \in SUBSET Nat /\ empty # {}
  BY QueueAssumption DEF Slot
<1>2. m \in empty
  BY <1>1, MinInSet
<1>3. Joined(ps, child) = [ps EXCEPT ![m] = child]
  BY <1>1 DEF Joined
<1>4. \A t \in Slot : Joined(ps, child)[t] = IF t = m THEN child ELSE ps[t]
  BY <1>3 DEF Members
<1>5. child # 0
  BY DEF Pid
<1>6. QED
  BY <1>2, <1>4, <1>5 DEF Within

LEMMA ForkHolds ==
    ASSUME CarefulMembers, QueueInv, HoldInv, NEW p \in Pid, Fork(p) PROVE HoldInv'
<1> DEFINE child == Min(Pid \ alive)
           joins == QueuesOf(p, Scanned(p))
<1>1. child \in Pid /\ child \notin alive
  <2>1. Pid \ alive \in SUBSET Nat
    BY QueueAssumption DEF Pid
  <2>2. QED
    BY <2>1, MinInSet DEF Fork
<1>2. /\ p \in alive /\ alive \subseteq Pid
      /\ alive' = alive \cup {child}
      /\ files' = [files EXCEPT ![child] = files[p]]
      /\ pids' = [q \in Queue |-> IF q \in joins THEN Joined(pids[q], child)
                                                 ELSE pids[q]]
  BY DEF Fork, Running, QueueInv, QueueType
<1>3. joins = QueuesOf(p, Fd)
  <2>1. \A fd \in Fd : files[p][fd] # NoFile => fd \in Scanned(p)
    BY QueueAssumption DEF Scanned, HoldInv, NoHoles, Fd
  <2>2. QED
    BY <2>1 DEF QueuesOf, Queue, NoFile, Scanned
<1>4. \A q \in Queue : child \notin Within(pids[q]) /\ WellKept(pids[q])
  BY <1>1 DEF HoldInv, NoGhosts, QueueInv, ListsKept
<1>5. \A q \in Queue :
         Within(pids'[q]) = Within(pids[q]) \cup IF q \in joins THEN {child} ELSE {}
  <2> SUFFICES ASSUME NEW q \in joins, q \in Queue
               PROVE  Within(Joined(pids[q], child)) = Within(pids[q]) \cup {child}
    BY <1>2
  <2>1. \E s \in Slot : pids[q][s] = 0
    BY <1>1, <1>4, RoomForAll
  <2>2. QED
    BY <1>1, <1>4, <2>1, JoinAdds DEF WellKept
<1>6. \A r \in Pid : QueuesOf(r, Fd)' = QueuesOf(IF r = child THEN p ELSE r, Fd)
  BY <1>1, <1>2 DEF QueuesOf, QueueInv, QueueType
<1>7. NoHoles'
  <2>1. \A r \in Pid : files'[r] = files[IF r = child THEN p ELSE r]
    BY <1>1, <1>2 DEF QueueInv, QueueType
  <2>2. QED
    BY <1>1, <2>1 DEF HoldInv, NoHoles
<1>8. NoGhosts'
  BY <1>2, <1>5 DEF HoldInv, NoGhosts
<1>9. MembersHoldDescriptors'
  <2> SUFFICES ASSUME NEW r \in alive', NEW q \in Queue
               PROVE  Member(q, r)' <=> q \in QueuesOf(r, Fd)'
    BY DEF MembersHoldDescriptors
  <2>1. r \in Pid /\ (r = child \/ r \in alive)
    BY <1>1, <1>2
  <2>2. Member(q, r)' <=> r \in Within(pids'[q])
    BY <2>1 DEF Member, SlotsOf, Within, Pid
  <2>3. CASE r = child
    BY <1>1, <1>3, <1>4, <1>5, <1>6, <2>2, <2>3
  <2>4. CASE r # child
    <3>1. Member(q, r) <=> q \in QueuesOf(r, Fd)
      BY <2>1, <2>4 DEF HoldInv, MembersHoldDescriptors
    <3>2. r \in Within(pids'[q]) <=> r \in Within(pids[q])
      BY <1>5, <2>4
    <3>3. QED
      BY <1>6, <2>1, <2>2, <2>4, <3>1, <3>2, MemberWithin
  <2>5. QED
    BY <2>3, <2>4
<1>10. QED
  BY <1>7, <1>8, <1>9 DEF HoldInv

LEMMA HoldInvNext ==
    CarefulMembers /\ QueueInv /\ HoldInv /\ [Next]_vars => HoldInv'
<1> SUFFICES ASSUME CarefulMembers, QueueInv, HoldInv, [Next]_vars PROVE HoldInv'
  OBVIOUS
<1>1. CASE UNCHANGED vars
  BY <1>1, HoldInvFrame DEF vars, memberVars, procVars, queueVars
<1>2. CASE Next
  <2> SUFFICES ASSUME NEW p \in Pid,
                      \/ FileStep(p)
                      \/ Fork(p)
                      \/ Exit(p)
                      \/ \E fd \in Fd, q \in Queue :
                            MailStep(p, fd, q) \/ MemberStep(p, fd, q)
               PROVE  HoldInv'
    BY <1>2 DEF Next
  <2>1. CASE FileStep(p)
    <3>1. CASE CreateMsgQueue(p)
      BY <3>1, CreateHolds
    <3>2. CASE OpenFile(p)
      BY <3>2, OpenHolds
    <3>3. CASE TableFull(p) \/ Dangling(p)
      BY <3>3, HoldInvFrame DEF TableFull, Dangling, Fails, memberVars, procVars, queueVars
    <3>4. ASSUME NEW fd \in Fd, CloseFile(p, fd) PROVE FALSE
      BY <3>4 DEF CloseFile, CarefulMembers
    <3>5. ASSUME NEW fd \in Fd,
                 NotAQueue(p, fd) \/ Astray(p, fd) \/ CloseUnopened(p, fd)
          PROVE  HoldInv'
      BY <3>5, HoldInvFrame
         DEF NotAQueue, Astray, CloseUnopened, Fails, memberVars, procVars, queueVars
    <3>6. QED
      BY <2>1, <3>1, <3>2, <3>3, <3>4, <3>5 DEF FileStep
  <2>2. CASE Fork(p)
    BY <2>2, ForkHolds
  <2>3. ASSUME Exit(p) PROVE FALSE
    BY <2>3 DEF Exit, CarefulMembers
  <2>4. ASSUME NEW fd \in Fd, NEW q \in Queue, MailStep(p, fd, q)
        PROVE  HoldInv'
    <3>1. UNCHANGED memberVars
      BY <2>4 DEF MailStep, Broadcast, Send, Overflow, Receive, GetMsgCount,
                  Deliver, Fails, memberVars, procVars, queueVars
    <3>2. QED
      BY <3>1, HoldInvFrame
  <2>5. ASSUME NEW fd \in Fd, NEW q \in Queue, MemberStep(p, fd, q)
        PROVE  HoldInv'
    <3>1. ~ MsgQueueClose(p, fd, q) /\ ~ CloseStranger(p, fd, q)
      BY DEF MsgQueueClose, CloseStranger, Through, CarefulMembers
    <3>2. UNCHANGED memberVars
      BY <2>5, <3>1
         DEF MemberStep, GetMemberInfo, Block, memberVars, procVars, queueVars
    <3>3. QED
      BY <3>2, HoldInvFrame
  <2>6. QED
    BY <2>1, <2>2, <2>3, <2>4, <2>5
<1>3. QED
  BY <1>1, <1>2

\* As long as nobody leaves a queue or closes a file, and a queue has room for
\* every process, its members are the processes that hold a descriptor of it:
\* the fork handler's walk over the descriptors misses none.
THEOREM ListsComplete == CarefulMembers /\ Spec => []MembersHoldDescriptors
<1> SUFFICES ASSUME CarefulMembers PROVE Spec => []MembersHoldDescriptors
  OBVIOUS
<1>1. HoldInv => MembersHoldDescriptors
  BY DEF HoldInv
<1>2. HoldInv /\ QueueInv /\ [Next]_vars => HoldInv'
  BY HoldInvNext
<1>3. QED
  BY <1>1, <1>2, HoldInvInit, QueueInvHolds, PTL DEF Spec

(***************************************************************************)
(* The buffers, the matrix of blocks and the answers, which the member     *)
(* lists do not depend on.                                                 *)
(***************************************************************************)
Reply == [call : CallName, to : Pid \cup {0}, value : Int, from : Pid \cup {0}]

MailType ==
    /\ blocked \in [Queue -> [Slot -> SUBSET Slot]]
    /\ buffer \in [Queue -> Seq(Message)]
    /\ read \in [Queue -> SUBSET Nat]
    /\ mangled \in [Queue -> BOOLEAN]
    /\ reply \in Reply
    /\ fault \in {"none", "null", "freed", "wild", "overrun"}

LEMMA MailFrame ==
    ASSUME MailType, UNCHANGED <<blocked, mailVars>>,
           mangled' \in [Queue -> BOOLEAN], reply' \in Reply,
           fault' \in {"none", "null", "freed", "wild", "overrun"}
    PROVE  MailType'
  BY DEF MailType, mailVars

\* Slots are few enough to be counted, and the first and the last of them that
\* match are slots.
LEMMA SlotFacts ==
    /\ IsFiniteSet(Slot) /\ Slot \subseteq Nat
    /\ \A S \in SUBSET Slot : IsFiniteSet(S) /\ Cardinality(S) \in Nat
    /\ \A S \in SUBSET Slot : S # {} => Min(S) \in S /\ Max(S) \in S
<1>1. 0 \in Int /\ MAX_MEMBERS - 1 \in Int
  BY QueueAssumption
<1>2. IsFiniteSet(Slot)
  BY <1>1, FS_Interval DEF Slot
<1>3. Slot \subseteq Nat /\ \A s \in Slot : s \in Int /\ s <= MAX_MEMBERS - 1
  BY <1>1 DEF Slot
<1>4. \A S \in SUBSET Slot : IsFiniteSet(S) /\ Cardinality(S) \in Nat
  BY <1>2, FS_Subset, FS_CardinalityType
<1>5. ASSUME NEW S \in SUBSET Slot, S # {} PROVE Min(S) \in S /\ Max(S) \in S
  <2>1. S \in SUBSET Nat /\ S \in SUBSET Int /\ \A y \in S : y <= MAX_MEMBERS - 1
    BY <1>3
  <2>2. QED
    BY <1>1, <1>5, <2>1, MinInSet, MaxInSet
<1>6. QED
  BY <1>2, <1>3, <1>4, <1>5

\* A broadcast makes one message for each receiver.
LEMMA CopiesTypes ==
    ASSUME QueueType, NEW p \in Pid, NEW q \in Queue, NEW slots \in SUBSET Slot
    PROVE  /\ Copies(q, p, slots) \in Seq(Message)
           /\ Len(Copies(q, p, slots)) = Cardinality(slots)
<1>1. /\ IsFiniteSet(slots) /\ Cardinality(slots) \in Nat
      /\ slots \in SUBSET Int /\ pids[q] \in [Slot -> Pid \cup {0}]
  BY SlotFacts DEF QueueType, Members
<1>2. \A k \in 1 .. Cardinality(slots) : Nth(slots, k) \in Slot
  BY <1>1, NthInSet
<1>3. \A k \in 1 .. Cardinality(slots) :
        [from |-> p, to |-> pids[q][Nth(slots, k)]] \in Message
  BY <1>1, <1>2 DEF Message
<1>4. Copies(q, p, slots) \in [1 .. Cardinality(slots) -> Message]
  BY <1>3 DEF Copies
<1>5. QED
  BY <1>1, <1>4, IsASeq

LEMMA AnswerTypes ==
    ASSUME NEW call \in CallName, NEW p \in Pid, NEW v \in Int, Answer(call, p, v)
    PROVE  reply' \in Reply /\ fault' = fault
  BY DEF Answer, Returns, Reply

\* A message or a broadcast is stored behind the ones that are there.
LEMMA DeliverTypes ==
    ASSUME MailType, NEW p \in Pid, NEW q \in Queue, NEW ms \in Seq(Message),
           Deliver(p, q, ms)
    PROVE  MailType'
<1>1. Len(ms) \in Int /\ "send" \in CallName
  BY LenProperties DEF CallName
<1>2. Answer("send", p, Len(ms))
  BY DEF Deliver
<1>3. reply' \in Reply /\ fault' = fault
  BY <1>1, <1>2, AnswerTypes
<1>4. buffer[q] \in Seq(Message) /\ buffer' = [buffer EXCEPT ![q] = buffer[q] \o ms]
  BY DEF Deliver, MailType, Store
<1>5. buffer[q] \o ms \in Seq(Message)
  BY <1>4, ConcatProperties
<1>6. buffer' \in [Queue -> Seq(Message)]
  BY <1>4, <1>5 DEF MailType
<1>7. UNCHANGED <<blocked, read, mangled>>
  BY DEF Deliver
<1>8. QED
  BY <1>3, <1>6, <1>7 DEF MailType

LEMMA PendingTypes ==
    ASSUME MailType, NEW p \in Pid, NEW q \in Queue
    PROVE  /\ Cardinality(Pending(q, p)) \in Nat
           /\ Pending(q, p) # {} =>
                /\ Min(Pending(q, p)) \in Pending(q, p)
                /\ buffer[q][Min(Pending(q, p))].from \in Pid
<1>1. buffer[q] \in Seq(Message)
  BY DEF MailType
<1>2. Len(buffer[q]) \in Nat /\ DOMAIN buffer[q] = 1 .. Len(buffer[q])
  BY <1>1, LenProperties
<1>3. Pending(q, p) \subseteq 1 .. Len(buffer[q])
  BY <1>2 DEF Pending
<1>4. IsFiniteSet(1 .. Len(buffer[q]))
  <2>1. 1 \in Int /\ Len(buffer[q]) \in Int
    BY <1>2
  <2>2. QED
    BY <2>1, FS_Interval
<1>5. Cardinality(Pending(q, p)) \in Nat
  BY <1>3, <1>4, FS_Subset, FS_CardinalityType
<1>6. ASSUME Pending(q, p) # {}
      PROVE  /\ Min(Pending(q, p)) \in Pending(q, p)
             /\ buffer[q][Min(Pending(q, p))].from \in Pid
  <2>1. Pending(q, p) \in SUBSET Nat
    BY <1>2, <1>3
  <2>2. Min(Pending(q, p)) \in Pending(q, p)
    BY <1>6, <2>1, MinInSet
  <2>3. Min(Pending(q, p)) \in 1 .. Len(buffer[q])
    BY <1>3, <2>2
  <2>4. buffer[q][Min(Pending(q, p))] \in Message
    BY <1>1, <2>3
  <2>5. QED
    BY <2>2, <2>4 DEF Message
<1>7. QED
  BY <1>5, <1>6

LEMMA MailTypesMail ==
    ASSUME QueueType, MailType, NEW p \in Pid, NEW fd \in Fd, NEW q \in Queue,
           MailStep(p, fd, q)
    PROVE  MailType'
<1>1. CASE Broadcast(p, fd, q)
  <2>1. PICK deaf \in Deaf(q, p) : Deliver(p, q, Copies(q, p, Receivers(q, p, deaf)))
    BY <1>1 DEF Broadcast
  <2>2. Receivers(q, p, deaf) \in SUBSET Slot
    BY DEF Receivers, Occupied
  <2>3. QED
    BY <2>1, <2>2, CopiesTypes, DeliverTypes
<1>2. ASSUME NEW to \in Named(p), Send(p, fd, q, to) PROVE MailType'
  <2>1. to \in Pid \cup {0}
    BY DEF Named
  <2>2. [from |-> p, to |-> to] \in Message
    BY <2>1 DEF Message
  <2>3. <<[from |-> p, to |-> to]>> \in Seq(Message)
    BY <2>2
  <2>4. CASE Deliver(p, q, <<[from |-> p, to |-> to]>>)
    BY <2>3, <2>4, DeliverTypes
  <2>5. CASE Answer("send", p, -EINVAL) /\ UNCHANGED <<procVars, queueVars>>
    <3>1. reply' \in Reply /\ fault' = fault
      BY <2>5, AnswerTypes DEF CallName, EINVAL
    <3>2. QED
      BY <2>5, <3>1, MailFrame DEF queueVars, MailType
  <2>6. QED
    BY <1>2, <2>4, <2>5 DEF Send
<1>3. CASE Overflow(p, fd, q)
  BY <1>3, MailFrame DEF Overflow, Fails, queueVars, MailType
<1>4. CASE Receive(p, fd, q)
  <2>1. UNCHANGED <<blocked, buffer, mangled>> /\ read' = read
    BY <1>4 DEF Receive, MarkRead, MailType
  <2>2. CASE Pending(q, p) = {}
    <3>1. Answer("receive", p, 0)
      BY <1>4, <2>2 DEF Receive
    <3>2. reply' \in Reply /\ fault' = fault
      BY <3>1, AnswerTypes DEF CallName
    <3>3. QED
      BY <2>1, <3>2, MailFrame DEF mailVars, MailType
  <2>3. CASE Pending(q, p) # {}
    <3>1. Returns("receive", p, 1, buffer[q][Min(Pending(q, p))].from)
      BY <1>4, <2>3 DEF Receive
    <3>2. buffer[q][Min(Pending(q, p))].from \in Pid
      BY <2>3, PendingTypes
    <3>3. reply' \in Reply /\ fault' = fault
      BY <3>1, <3>2 DEF Returns, Reply, CallName
    <3>4. QED
      BY <2>1, <3>3, MailFrame DEF mailVars, MailType
  <2>4. QED
    BY <2>2, <2>3
<1>5. CASE GetMsgCount(p, fd, q)
  <2>1. Answer("count", p, Cardinality(Pending(q, p))) /\ UNCHANGED queueVars
    BY <1>5 DEF GetMsgCount
  <2>2. Cardinality(Pending(q, p)) \in Int
    BY PendingTypes
  <2>3. reply' \in Reply /\ fault' = fault
    BY <2>1, <2>2, AnswerTypes DEF CallName
  <2>4. QED
    BY <2>1, <2>3, MailFrame DEF queueVars, MailType
<1>6. QED
  BY <1>1, <1>2, <1>3, <1>4, <1>5 DEF MailStep

LEMMA MailTypesMember ==
    ASSUME QueueType, MailType, NEW p \in Pid, NEW fd \in Fd, NEW q \in Queue,
           MemberStep(p, fd, q)
    PROVE  MailType'
<1>1. CASE GetMemberInfo(p, fd, q)
  <2> DEFINE n == Cardinality({s \in Slot : pids[q][s] # 0})
  <2>1. Answer("info", p, n) /\ UNCHANGED queueVars
    BY <1>1 DEF GetMemberInfo
  <2>2. n \in Int
    BY SlotFacts
  <2> HIDE DEF n
  <2>3. reply' \in Reply /\ fault' = fault
    BY <2>1, <2>2, AnswerTypes DEF CallName
  <2>4. QED
    BY <2>1, <2>3, MailFrame DEF queueVars, MailType
<1>2. ASSUME NEW other \in Named(p), Block(p, fd, q, other) PROVE MailType'
  <2>1. /\ UNCHANGED <<mailVars, mangled>>
        /\ \/ Answer("block", p, 0)
           \/ Answer("block", p, -EINVAL)
    BY <1>2 DEF Block
  <2>2. reply' \in Reply /\ fault' = fault
    BY <2>1, AnswerTypes DEF CallName, EINVAL
  <2>3. CASE Member(q, p) /\ Member(q, other)
    <3> DEFINE r == Max(SlotsOf(q, p))
               s == Max(SlotsOf(q, other))
    <3>1. r \in Slot /\ s \in Slot
      BY <2>3, SlotFacts DEF Member, SlotsOf
    <3>2. blocked' = [blocked EXCEPT ![q] = BlockSlot(blocked[q], r, s)]
      BY <1>2, <2>3 DEF Block, MailType
    <3> HIDE DEF r, s
    <3>3. BlockSlot(blocked[q], r, s) \in [Slot -> SUBSET Slot]
      BY <3>1 DEF BlockSlot, MailType
    <3>4. blocked' \in [Queue -> [Slot -> SUBSET Slot]]
      BY <3>2, <3>3 DEF MailType
    <3>5. QED
      BY <2>1, <2>2, <3>4 DEF MailType, mailVars
  <2>4. CASE ~ (Member(q, p) /\ Member(q, other))
    <3>1. blocked' = blocked
      BY <1>2, <2>4 DEF Block
    <3>2. QED
      BY <2>1, <2>2, <3>1, MailFrame DEF MailType
  <2>5. QED
    BY <2>3, <2>4
<1>3. CASE MsgQueueClose(p, fd, q)
  <2>1. Answer("close", p, 0) /\ UNCHANGED <<blocked, mailVars, mangled>>
    BY <1>3 DEF MsgQueueClose
  <2>2. reply' \in Reply /\ fault' = fault
    BY <2>1, AnswerTypes DEF CallName
  <2>3. QED
    BY <2>1, <2>2, MailFrame DEF MailType
<1>4. CASE CloseStranger(p, fd, q)
  <2>1. /\ Answer("close", p, 0) /\ UNCHANGED <<blocked, mailVars>>
        /\ mangled' = [mangled EXCEPT ![q] = pids[q][0] # 0]
    BY <1>4 DEF CloseStranger
  <2>2. reply' \in Reply /\ fault' = fault
    BY <2>1, AnswerTypes DEF CallName
  <2>3. mangled' \in [Queue -> BOOLEAN]
    BY <2>1 DEF MailType
  <2>4. QED
    BY <2>1, <2>2, <2>3, MailFrame DEF MailType
<1>5. QED
  BY <1>1, <1>2, <1>3, <1>4 DEF MemberStep

\* Creating, opening, forking and exiting leave the buffers alone.
LEMMA MailTypesOther ==
    ASSUME QueueType, MailType, NEW p \in Pid, FileStep(p) \/ Fork(p) \/ Exit(p)
    PROVE  MailType'
<1>1. ASSUME NEW call \in CallName, NEW f, NewFd(call, p, f)
      PROVE  reply' \in Reply /\ fault' = fault
  <2>1. FreeFds(p) # {} /\ FreeFds(p) \in SUBSET Nat
    BY <1>1, QueueAssumption DEF NewFd, FreeFds, Fd
  <2>2. Min(FreeFds(p)) \in Int
    BY <2>1, MinInSet
  <2>3. QED
    BY <1>1, <2>2, AnswerTypes DEF NewFd
<1>2. CASE CreateMsgQueue(p)
  <2>1. NewFd("create", p, created') /\ UNCHANGED <<blocked, mailVars, mangled>>
    BY <1>2 DEF CreateMsgQueue
  <2>2. reply' \in Reply /\ fault' = fault
    BY <1>1, <2>1 DEF CallName
  <2>3. QED
    BY <2>1, <2>2, MailFrame DEF MailType
<1>3. CASE OpenFile(p)
  <2>1. NewFd("open", p, Regular) /\ UNCHANGED queueVars
    BY <1>3 DEF OpenFile
  <2>2. reply' \in Reply /\ fault' = fault
    BY <1>1, <2>1 DEF CallName
  <2>3. QED
    BY <2>1, <2>2, MailFrame DEF MailType, queueVars
<1>4. ASSUME NEW fd \in Fd, CloseFile(p, fd) \/ NotAQueue(p, fd) PROVE MailType'
  <2>1. /\ Answer("close_file", p, 0) \/ Answer("no_queue", p, -EINVAL)
        /\ UNCHANGED queueVars
    BY <1>4 DEF CloseFile, NotAQueue
  <2>2. reply' \in Reply /\ fault' = fault
    BY <2>1, AnswerTypes DEF CallName, EINVAL
  <2>3. QED
    BY <2>1, <2>2, MailFrame DEF MailType, queueVars
<1>5. ASSUME NEW fd \in Fd,
             TableFull(p) \/ Dangling(p) \/ Astray(p, fd) \/ CloseUnopened(p, fd)
      PROVE  MailType'
  <2>1. /\ UNCHANGED <<queueVars, reply>>
        /\ fault' \in {"none", "null", "freed", "wild", "overrun"}
    BY <1>5 DEF TableFull, Dangling, Astray, CloseUnopened, Fails
  <2>2. QED
    BY <2>1, MailFrame DEF MailType, queueVars
<1>6. CASE Fork(p)
  <2>1. /\ Answer("fork", p, Min(Pid \ alive)) /\ Pid \ alive # {}
        /\ UNCHANGED <<blocked, mailVars, mangled>>
    BY <1>6 DEF Fork
  <2>2. Pid \ alive \in SUBSET Nat
    BY DEF Pid
  <2>3. Min(Pid \ alive) \in Int
    BY <2>1, <2>2, MinInSet
  <2>4. reply' \in Reply /\ fault' = fault
    BY <2>1, <2>3, AnswerTypes DEF CallName
  <2>5. QED
    BY <2>1, <2>4, MailFrame DEF MailType
<1>7. CASE Exit(p)
  BY <1>7, MailFrame DEF Exit, MailType
<1>8. 3 \in Fd
  BY QueueAssumption DEF Fd
<1>9. QED
  BY <1>2, <1>3, <1>4, <1>5, <1>6, <1>7, <1>8 DEF FileStep

LEMMA MailTypesInit == Init => MailType
<1> SUFFICES ASSUME Init PROVE MailType
  OBVIOUS
<1>1. \A q \in Queue : mangled[q] = FALSE
  BY DEF Init
<1>2. mangled \in [Queue -> BOOLEAN]
  BY DEF Init
<1>3. buffer \in [Queue -> Seq(Message)]
  BY DEF Init
<1>4. reply \in Reply
  BY DEF Init, Reply, CallName
<1>5. QED
  BY <1>2, <1>3, <1>4 DEF Init, MailType

LEMMA MailTypesNext == QueueInv /\ MailType /\ [Next]_vars => MailType'
<1> SUFFICES ASSUME QueueType, MailType, [Next]_vars PROVE MailType'
  BY DEF QueueInv
<1>1. CASE UNCHANGED vars
  BY <1>1, MailFrame DEF vars, queueVars, MailType
<1>2. CASE Next
  BY <1>2, MailTypesMail, MailTypesMember, MailTypesOther DEF Next
<1>3. QED
  BY <1>1, <1>2

\* Every variable of the queues keeps its type, in every use of the calls: no
\* call stores a pid that is none, a slot outside the matrix, or anything but
\* whole messages into the shared buffer.
THEOREM QueueTypeCorrect == Spec => []TypeOK
<1>1. QueueInv /\ MailType => TypeOK
  BY DEF QueueInv, QueueType, Members, MailType, Reply, TypeOK
<1>2. QED
  BY <1>1, MailTypesInit, MailTypesNext, QueueInvHolds, PTL DEF Spec

-----------------------------------------------------------------------------
(***************************************************************************)
(* Messages and those they are for.  A queue that was not created yet has  *)
(* no messages, and who is addressed has a descriptor of the queue.        *)
(***************************************************************************)
Reached(q, to) == to = 0 \/ (to \in alive /\ q \in QueuesOf(to, Fd))

LivingMail ==
    \A q \in Queue :
        /\ q > created => buffer[q] = <<>>
        /\ refs[q] > 0 => \A i \in DOMAIN buffer[q] : Reached(q, buffer[q][i].to)

LEMMA LivingInit == Init => LivingMail
  BY DEF Init, LivingMail

\* Steps that store no message, after which everybody still reaches the queues
\* that he reached and whose files are allocated.
LEMMA LivingFrame ==
    ASSUME LivingMail, UNCHANGED buffer,
           \A q \in Queue : q > created' => q > created,
           \A q \in Queue : refs'[q] > 0 => refs[q] > 0 \/ q > created,
           \A q \in Queue : \A to : refs'[q] > 0 /\ Reached(q, to) => Reached(q, to)'
    PROVE  LivingMail'
<1> SUFFICES ASSUME NEW q \in Queue
             PROVE  /\ q > created' => buffer[q] = <<>>
                    /\ refs'[q] > 0 =>
                          \A i \in DOMAIN buffer[q] : Reached(q, buffer[q][i].to)'
  BY DEF LivingMail
<1>1. q > created => buffer[q] = <<>> /\ DOMAIN buffer[q] = {}
  BY DEF LivingMail
<1>2. refs[q] > 0 => \A i \in DOMAIN buffer[q] : Reached(q, buffer[q][i].to)
  BY DEF LivingMail
<1>3. QED
  BY <1>1, <1>2, Zenon

LEMMA LivingSame ==
    ASSUME LivingMail, UNCHANGED <<alive, files, created, refs, buffer>>
    PROVE  LivingMail'
  BY DEF LivingMail, Reached, QueuesOf

\* What is delivered is for members, or for the process 0.
LEMMA LivingDeliver ==
    ASSUME MailType, LivingMail, NEW p \in Pid, NEW q \in Queue, NEW ms \in Seq(Message),
           Deliver(p, q, ms), q <= created, created \in Int, q \in Int,
           \A j \in DOMAIN ms : Reached(q, ms[j].to)
    PROVE  LivingMail'
<1>1. /\ buffer[q] \in Seq(Message) /\ UNCHANGED <<alive, files, created, refs>>
      /\ buffer' = [buffer EXCEPT ![q] = buffer[q] \o ms]
  BY DEF Deliver, MailType, Store, procVars
<1>2. \A x \in Queue : buffer'[x] = IF x = q THEN buffer[q] \o ms ELSE buffer[x]
  BY <1>1 DEF MailType
<1>3. \A x \in Queue : \A to : Reached(x, to)' <=> Reached(x, to)
  BY <1>1 DEF Reached, QueuesOf
<1>4. ASSUME NEW i \in DOMAIN (buffer[q] \o ms), refs[q] > 0
      PROVE  Reached(q, (buffer[q] \o ms)[i].to)
  <2>1. /\ Len(buffer[q]) \in Nat /\ DOMAIN buffer[q] = 1 .. Len(buffer[q])
        /\ Len(ms) \in Nat /\ DOMAIN ms = 1 .. Len(ms)
        /\ DOMAIN (buffer[q] \o ms) = 1 .. Len(buffer[q]) + Len(ms)
        /\ (buffer[q] \o ms)[i] = IF i <= Len(buffer[q]) THEN buffer[q][i]
                                  ELSE ms[i - Len(buffer[q])]
    BY <1>1, ConcatProperties, LenProperties
  <2>2. CASE i \in DOMAIN buffer[q]
    BY <1>4, <2>1, <2>2 DEF LivingMail
  <2>3. CASE i \notin DOMAIN buffer[q]
    <3>1. i - Len(buffer[q]) \in DOMAIN ms
          /\ (buffer[q] \o ms)[i] = ms[i - Len(buffer[q])]
      BY <2>1, <2>3
    <3>2. QED
      BY <3>1
  <2>4. QED
    BY <2>2, <2>3
<1>5. ~ (q > created)
  OBVIOUS
<1>6. QED
  BY <1>1, <1>2, <1>3, <1>4, <1>5 DEF LivingMail

LEMMA LivingMailStep ==
    ASSUME QueueInv, MailType, LivingMail, NEW p \in Pid, NEW fd \in Fd, NEW q \in Queue,
           MailStep(p, fd, q)
    PROVE  LivingMail'
<1>1. q <= created /\ created \in Int /\ q \in Int /\ refs[q] > 0
  <2>1. Mailing(p, fd, q)
    BY DEF MailStep, Broadcast, Send, Overflow, Receive, GetMsgCount
  <2>2. Through(p, fd, q) /\ refs[q] > 0
    BY <2>1 DEF Mailing, Through
  <2>3. q \in QueuesOf(p, Fd)
    BY <2>2, ThroughReaches
  <2>4. created >= q
    BY <2>3, ReachedExists
  <2>5. created \in Int /\ q \in Int
    BY QueueAssumption DEF QueueInv, QueueType, Queue
  <2>6. QED
    BY <2>2, <2>4, <2>5
<1>2. \A s \in Slot : Reached(q, pids[q][s])
  BY <1>1 DEF QueueInv, MembersReach, Within, Reached
<1>3. CASE Broadcast(p, fd, q)
  <2>1. PICK deaf \in Deaf(q, p) : Deliver(p, q, Copies(q, p, Receivers(q, p, deaf)))
    BY <1>3 DEF Broadcast
  <2> DEFINE slots == Receivers(q, p, deaf)
  <2>2. slots \in SUBSET Slot
    BY DEF Receivers, Occupied
  <2> HIDE DEF slots
  <2>3. Copies(q, p, slots) \in Seq(Message)
    BY <2>2, CopiesTypes DEF QueueInv
  <2>4. IsFiniteSet(slots) /\ slots \in SUBSET Int
    <3>1. IsFiniteSet(slots)
      BY <2>2, SlotFacts
    <3>2. slots \in SUBSET Int
      BY <2>2 DEF Slot
    <3>3. QED
      BY <3>1, <3>2
  <2>5. \A k \in 1 .. Cardinality(slots) : Nth(slots, k) \in Slot
    BY <2>2, <2>4, NthInSet
  <2>6. ASSUME NEW j \in DOMAIN Copies(q, p, slots)
        PROVE  Reached(q, Copies(q, p, slots)[j].to)
    <3>1. j \in 1 .. Cardinality(slots)
          /\ Copies(q, p, slots)[j].to = pids[q][Nth(slots, j)]
      BY DEF Copies
    <3>2. QED
      BY <1>2, <2>5, <3>1
  <2>7. QED
    BY <1>1, <2>1, <2>3, <2>6, LivingDeliver DEF slots
<1>4. ASSUME NEW to \in Named(p), Send(p, fd, q, to) PROVE LivingMail'
  <2>1. CASE UNCHANGED <<procVars, queueVars>>
    BY <2>1, LivingSame DEF procVars, queueVars, mailVars
  <2>2. CASE Member(q, to) /\ Deliver(p, q, <<[from |-> p, to |-> to]>>)
    <3>1. [from |-> p, to |-> to] \in Message
      BY DEF Named, Message
    <3>2. <<[from |-> p, to |-> to]>> \in Seq(Message)
      BY <3>1
    <3>3. Reached(q, to)
      BY <1>2, <2>2 DEF Member, SlotsOf
    <3>4. \A j \in DOMAIN <<[from |-> p, to |-> to]>> :
             <<[from |-> p, to |-> to]>>[j].to = to
      OBVIOUS
    <3>5. QED
      BY <1>1, <2>2, <3>2, <3>3, <3>4, LivingDeliver
  <2>3. QED
    BY <1>4, <2>1, <2>2 DEF Send
<1>5. CASE Overflow(p, fd, q) \/ Receive(p, fd, q) \/ GetMsgCount(p, fd, q)
  BY <1>5, LivingSame DEF Overflow, Receive, GetMsgCount, Fails, procVars, queueVars, mailVars
<1>6. QED
  BY <1>3, <1>4, <1>5 DEF MailStep

\* A descriptor that is opened was free, and one that is closed named no queue.
LEMMA LivingFiles ==
    ASSUME QueueInv, LivingMail, NEW p \in Pid, FileStep(p) PROVE LivingMail'
<1>1. CASE UNCHANGED <<procVars, queueVars>>
  BY <1>1, LivingSame DEF procVars, queueVars, mailVars
<1>2. ASSUME NEW fd \in Fd, NEW f \in Queue \cup {NoFile, Regular},
             files[p][fd] \notin Queue, files' = [files EXCEPT ![p][fd] = f],
             UNCHANGED <<alive, buffer>>,
             \A q \in Queue : q > created' => q > created,
             \A q \in Queue : refs'[q] > 0 => refs[q] > 0 \/ q > created
      PROVE  LivingMail'
  <2>1. \A r \in Pid, q \in Queue : q \in QueuesOf(r, Fd) => q \in QueuesOf(r, Fd)'
    BY <1>2 DEF QueuesOf, QueueInv, QueueType
  <2>2. \A q \in Queue : \A to : Reached(q, to) => Reached(q, to)'
    BY <1>2, <2>1 DEF Reached, QueueInv, QueueType
  <2>3. QED
    BY <1>2, <2>2, LivingFrame
<1>3. ASSUME NEW f \in Queue \cup {NoFile, Regular}, NEW call, NewFd(call, p, f),
             UNCHANGED <<alive, buffer>>,
             \A q \in Queue : q > created' => q > created,
             \A q \in Queue : refs'[q] > 0 => refs[q] > 0 \/ q > created
      PROVE  LivingMail'
  <2>1. FreeFds(p) # {} /\ FreeFds(p) \in SUBSET Nat
    BY <1>3, QueueAssumption DEF NewFd, FreeFds, Fd
  <2>2. PICK fd \in FreeFds(p) : fd = Min(FreeFds(p))
    BY <2>1, MinInSet
  <2>3. fd \in Fd /\ files[p][fd] \notin Queue
    BY <2>2, QueueAssumption DEF FreeFds, NoFile, Queue
  <2>4. files' = [files EXCEPT ![p][fd] = f]
    BY <1>3, <2>2 DEF NewFd
  <2>5. QED
    BY <1>2, <1>3, <2>3, <2>4
<1>4. CASE CreateMsgQueue(p)
  <2>1. created + 1 \in Queue /\ created \in Int /\ created' = created + 1
    BY <1>4, QueueAssumption DEF CreateMsgQueue, QueueInv, QueueType, Queue
  <2>2. \A q \in Queue : q \in Int
    BY QueueAssumption DEF Queue
  <2>3. refs' = [refs EXCEPT ![created + 1] = 1] /\ UNCHANGED <<alive, buffer>>
        /\ NewFd("create", p, created + 1)
    BY <1>4 DEF CreateMsgQueue, mailVars
  <2>4. \A q \in Queue : refs'[q] > 0 => refs[q] > 0 \/ q > created
    BY <2>1, <2>2, <2>3 DEF QueueInv, QueueType
  <2>5. \A q \in Queue : q > created' => q > created
    BY <2>1, <2>2
  <2>6. QED
    BY <1>3, <2>1, <2>3, <2>4, <2>5
<1>5. CASE OpenFile(p)
  BY <1>3, <1>5 DEF OpenFile, queueVars, mailVars
<1>6. ASSUME NEW fd \in Fd, CloseFile(p, fd) PROVE LivingMail'
  <2>1. files[p][fd] \notin Queue
    BY <1>6, QueueAssumption DEF CloseFile, Regular, Queue
  <2>2. QED
    BY <1>2, <1>6, <2>1 DEF CloseFile, queueVars, mailVars
<1>7. CASE TableFull(p) \/ Dangling(p)
           \/ \E fd \in Fd : NotAQueue(p, fd) \/ Astray(p, fd) \/ CloseUnopened(p, fd)
  BY <1>1, <1>7, Zenon DEF TableFull, Dangling, NotAQueue, Astray, CloseUnopened, Fails
<1>8. QED
  BY <1>4, <1>5, <1>6, <1>7, Zenon DEF FileStep

\* A child was no process before, and nobody had written to it.
LEMMA LivingFork ==
    ASSUME QueueInv, LivingMail, NEW p \in Pid, Fork(p) PROVE LivingMail'
<1> DEFINE child == Min(Pid \ alive)
<1>1. child \in Pid /\ child \notin alive
  <2>1. Pid \ alive \in SUBSET Nat /\ Pid \ alive # {}
    BY QueueAssumption DEF Pid, Fork
  <2>2. Min(Pid \ alive) \in Pid \ alive
    BY <2>1, MinInSet
  <2>3. QED
    BY <2>2
<1>2. /\ alive' = alive \cup {child} /\ files' = [files EXCEPT ![child] = files[p]]
      /\ UNCHANGED <<created, refs, buffer>>
  BY DEF Fork, mailVars
<1> HIDE DEF child
<1>3. \A r \in alive, q \in Queue : q \in QueuesOf(r, Fd) => q \in QueuesOf(r, Fd)'
  BY <1>1, <1>2 DEF QueuesOf, QueueInv, QueueType
<1>4. \A q \in Queue : \A to : Reached(q, to) => Reached(q, to)'
  BY <1>2, <1>3 DEF Reached
<1>5. QED
  BY <1>2, <1>4, LivingFrame

\* The first process that leaves a queue's members takes the file with it.
LEMMA LivingExit ==
    ASSUME QueueInv, LivingMail, NEW p \in Pid, Exit(p) PROVE LivingMail'
<1>1. /\ alive' = alive \ {p} /\ UNCHANGED <<files, created, buffer>>
      /\ refs' = Drop(refs, QueuesOf(p, Fd))
  BY DEF Exit, mailVars
<1>2. \A q \in Queue : refs'[q] = IF q \in QueuesOf(p, Fd) THEN refs[q] - 1 ELSE refs[q]
  BY <1>1 DEF Drop
<1>3. \A q \in Queue : refs'[q] > 0 => refs[q] > 0 /\ q \notin QueuesOf(p, Fd)
  BY <1>2 DEF QueueInv, QueueType
<1>4. \A r, q : q \in QueuesOf(r, Fd)' <=> q \in QueuesOf(r, Fd)
  BY <1>1 DEF QueuesOf
<1>5. \A q \in Queue : \A to : refs'[q] > 0 /\ Reached(q, to) => Reached(q, to)'
  BY <1>1, <1>3, <1>4, Zenon DEF Reached
<1>6. QED
  BY <1>1, <1>3, <1>5, LivingFrame

LEMMA LivingNext == QueueInv /\ MailType /\ LivingMail /\ [Next]_vars => LivingMail'
<1> SUFFICES ASSUME QueueInv, MailType, LivingMail, [Next]_vars PROVE LivingMail'
  OBVIOUS
<1>1. CASE UNCHANGED vars
  BY <1>1, LivingSame DEF vars, procVars, queueVars, mailVars
<1>2. ASSUME NEW p \in Pid, NEW fd \in Fd, NEW q \in Queue, MemberStep(p, fd, q)
      PROVE  LivingMail'
  <2>1. UNCHANGED <<alive, files, created, refs, buffer>>
    BY <1>2, Zenon DEF MemberStep, GetMemberInfo, Block, MsgQueueClose, CloseStranger,
       procVars, queueVars, mailVars
  <2>2. QED
    BY <2>1, LivingSame
<1>3. CASE Next
  BY <1>2, <1>3, LivingMailStep, LivingFiles, LivingFork, LivingExit DEF Next
<1>4. QED
  BY <1>1, <1>3

\* However the calls are used, and whoever exits: a queue whose file object is
\* allocated holds no message for a process that is gone.  do_exit leaves the
\* messages in the buffer, but frees the object of every queue that the process
\* could have been addressed through.
THEOREM MailForLiving == Spec => []MailToLiving
<1>1. LivingMail => MailToLiving
  BY DEF LivingMail, Reached, MailToLiving
<1>2. QED
  BY <1>1, LivingInit, LivingNext, MailTypesInit, MailTypesNext, QueueInvHolds, PTL DEF Spec

-----------------------------------------------------------------------------
(***************************************************************************)
(* The mailboxes that a queue stands for.                                  *)
(***************************************************************************)
\* The messages for p in a buffer that were not received, when none was.
Addressed(b, p) == {i \in DOMAIN b : b[i].to = p}
BoxOf(b, p) == Box(b, Addressed(b, p))

LEMMA AddressedFacts ==
    ASSUME NEW b \in Seq(Message), NEW r
    PROVE  /\ Len(b) \in Nat /\ DOMAIN b = 1 .. Len(b)
           /\ Addressed(b, r) \in SUBSET Int /\ Addressed(b, r) \in SUBSET Nat
           /\ \A i \in Addressed(b, r) : i \in 1 .. Len(b) /\ i <= Len(b)
           /\ IsFiniteSet(Addressed(b, r)) /\ Cardinality(Addressed(b, r)) \in Nat
<1>1. Len(b) \in Nat /\ DOMAIN b = 1 .. Len(b)
  BY LenProperties
<1>2. \A i \in Addressed(b, r) : i \in 1 .. Len(b)
  BY <1>1, Zenon DEF Addressed
<1>3. \A i \in 1 .. Len(b) : i \in Int /\ i \in Nat /\ i <= Len(b)
  BY <1>1
<1>4. IsFiniteSet(1 .. Len(b))
  BY <1>1, FS_Interval
<1>5. IsFiniteSet(Addressed(b, r)) /\ Cardinality(Addressed(b, r)) \in Nat
  <2>1. Addressed(b, r) \subseteq 1 .. Len(b)
    BY <1>2, Zenon
  <2>2. QED
    BY <1>4, <2>1, FS_Subset, FS_CardinalityType
<1>6. Addressed(b, r) \in SUBSET Int /\ Addressed(b, r) \in SUBSET Nat
  BY <1>2, <1>3, Zenon
<1>7. QED
  BY <1>1, <1>2, <1>3, <1>5, <1>6, Zenon

\* A mailbox is a sequence of senders, one for each message.
LEMMA BoxFacts ==
    ASSUME NEW b \in Seq(Message), NEW r
    PROVE  /\ BoxOf(b, r) \in Seq(Pid)
           /\ Len(BoxOf(b, r)) = Cardinality(Addressed(b, r))
           /\ \A k \in 1 .. Cardinality(Addressed(b, r)) :
                 BoxOf(b, r)[k] = b[Nth(Addressed(b, r), k)].from
<1> DEFINE at == Addressed(b, r)
           n == Cardinality(at)
<1>1. /\ n \in Nat /\ at \in SUBSET Int /\ IsFiniteSet(at)
      /\ \A i \in at : i \in DOMAIN b
  BY AddressedFacts, Zenon
<1>2. \A k \in 1 .. n : Nth(at, k) \in at
  BY <1>1, NthInSet
<1>3. \A i \in DOMAIN b : b[i] \in Message
  BY ElementOfSeq, AddressedFacts
<1>4. \A k \in 1 .. n : b[Nth(at, k)].from \in Pid
  BY <1>1, <1>2, <1>3 DEF Message
<1>5. BoxOf(b, r) = [k \in 1 .. n |-> b[Nth(at, k)].from]
  BY Zenon DEF BoxOf, Box
<1> HIDE DEF at, n
<1>6. BoxOf(b, r) \in [1 .. n -> Pid]
  BY <1>4, <1>5
<1>7. BoxOf(b, r) \in Seq(Pid) /\ Len(BoxOf(b, r)) = n
  BY <1>1, <1>6
<1>8. QED
  BY <1>5, <1>7 DEF at, n

\* Where the messages of a longer buffer are.
LEMMA AddressedConcat ==
    ASSUME NEW b \in Seq(Message), NEW ms \in Seq(Message), NEW r
    PROVE  /\ b \o ms \in Seq(Message)
           /\ \A i \in 1 .. Len(b) : (b \o ms)[i] = b[i]
           /\ \A j \in DOMAIN ms : (b \o ms)[Len(b) + j] = ms[j]
           /\ Addressed(b \o ms, r) =
                Addressed(b, r) \cup {Len(b) + j : j \in Addressed(ms, r)}
<1>1. /\ b \o ms \in Seq(Message)
      /\ Len(b \o ms) = Len(b) + Len(ms)
      /\ \A i \in 1 .. Len(b) + Len(ms) :
            (b \o ms)[i] = IF i <= Len(b) THEN b[i] ELSE ms[i - Len(b)]
  BY ConcatProperties
<1>2. /\ Len(b) \in Nat /\ Len(ms) \in Nat /\ DOMAIN b = 1 .. Len(b)
      /\ DOMAIN ms = 1 .. Len(ms) /\ DOMAIN (b \o ms) = 1 .. Len(b \o ms)
  BY <1>1, AddressedFacts
<1>3. ASSUME NEW i \in 1 .. Len(b) PROVE (b \o ms)[i] = b[i] /\ i \in DOMAIN (b \o ms)
  BY <1>1, <1>2
<1>4. ASSUME NEW j \in DOMAIN ms
      PROVE  (b \o ms)[Len(b) + j] = ms[j] /\ Len(b) + j \in DOMAIN (b \o ms)
  <2>1. Len(b) + j \in 1 .. Len(b) + Len(ms) /\ ~ (Len(b) + j <= Len(b))
        /\ (Len(b) + j) - Len(b) = j
    BY <1>2
  <2>2. QED
    BY <1>1, <1>2, <2>1
<1>5. ASSUME NEW i \in DOMAIN (b \o ms)
      PROVE  i \in 1 .. Len(b) \/ \E j \in DOMAIN ms : i = Len(b) + j
  <2>1. i \in 1 .. Len(b) + Len(ms)
    BY <1>1, <1>2
  <2>2. CASE i <= Len(b)
    BY <1>2, <2>1, <2>2
  <2>3. CASE ~ (i <= Len(b))
    <3>1. i - Len(b) \in DOMAIN ms /\ i = Len(b) + (i - Len(b))
      BY <1>2, <2>1, <2>3
    <3>2. QED
      BY <3>1
  <2>4. QED
    BY <2>2, <2>3
<1>6. Addressed(b \o ms, r) = Addressed(b, r) \cup {Len(b) + j : j \in Addressed(ms, r)}
  <2>1. ASSUME NEW i \in Addressed(b \o ms, r)
        PROVE  i \in Addressed(b, r) \cup {Len(b) + j : j \in Addressed(ms, r)}
    BY <1>2, <1>3, <1>4, <1>5, Zenon DEF Addressed
  <2>2. ASSUME NEW i \in Addressed(b, r) \cup {Len(b) + j : j \in Addressed(ms, r)}
        PROVE  i \in Addressed(b \o ms, r)
    BY <1>2, <1>3, <1>4, Zenon DEF Addressed
  <2>3. QED
    BY <2>1, <2>2, Zenon
<1>7. QED
  BY <1>1, <1>3, <1>4, <1>6, Zenon

\* Messages for others leave a mailbox as it is.
LEMMA BoxSame ==
    ASSUME NEW b \in Seq(Message), NEW ms \in Seq(Message), NEW r,
           Addressed(ms, r) = {}
    PROVE  BoxOf(b \o ms, r) = BoxOf(b, r)
<1> DEFINE at == Addressed(b, r)
           n == Cardinality(at)
<1>1. Addressed(b \o ms, r) = at /\ \A i \in at : (b \o ms)[i] = b[i]
  <2>1. Addressed(b \o ms, r) = at \cup {Len(b) + j : j \in Addressed(ms, r)}
    BY AddressedConcat, Zenon
  <2>2. Addressed(b \o ms, r) = at
    BY <2>1, Zenon
  <2>3. \A i \in at : i \in 1 .. Len(b)
    BY AddressedFacts, Zenon
  <2>4. \A i \in 1 .. Len(b) : (b \o ms)[i] = b[i]
    BY AddressedConcat, Zenon
  <2>5. QED
    BY <2>2, <2>3, <2>4, Zenon
<1>2. \A k \in 1 .. n : Nth(at, k) \in at
  BY NthInSet, AddressedFacts
<1>3. /\ BoxOf(b, r) = [k \in 1 .. n |-> b[Nth(at, k)].from]
      /\ BoxOf(b \o ms, r) = [k \in 1 .. n |-> (b \o ms)[Nth(at, k)].from]
  BY <1>1, Zenon DEF BoxOf, Box
<1> HIDE DEF at, n
<1>4. QED
  BY <1>1, <1>2, <1>3, Zenon

\* One message for r comes last in its mailbox.
LEMMA BoxOne ==
    ASSUME NEW b \in Seq(Message), NEW ms \in Seq(Message), NEW r, NEW j,
           Addressed(ms, r) = {j}
    PROVE  BoxOf(b \o ms, r) = Append(BoxOf(b, r), ms[j].from)
<1> DEFINE at == Addressed(b, r)
           n == Cardinality(at)
           x == Len(b) + j
           new == b \o ms
<1>1. j \in DOMAIN ms /\ j \in Int /\ j > 0 /\ Len(b) \in Nat
  <2>1. j \in Addressed(ms, r)
    BY Zenon
  <2>2. j \in 1 .. Len(ms) /\ DOMAIN ms = 1 .. Len(ms) /\ Len(b) \in Nat
    BY <2>1, AddressedFacts, Zenon
  <2>3. QED
    BY <2>2
<1>2. at \in SUBSET Int /\ IsFiniteSet(at) /\ n \in Nat
  BY AddressedFacts, Zenon
<1>3. x \in Int /\ \A i \in at : i < x
  <2>1. \A i \in at : i <= Len(b) /\ i \in Int
    BY AddressedFacts, Zenon
  <2>2. QED
    BY <1>1, <2>1
<1>4. Addressed(new, r) = at \cup {x} /\ new \in Seq(Message) /\ new[x] = ms[j]
      /\ \A i \in at : new[i] = b[i]
  <2>1. Addressed(new, r) = at \cup {Len(b) + i : i \in Addressed(ms, r)}
    BY AddressedConcat, Zenon
  <2>2. Addressed(new, r) = at \cup {x}
    BY <2>1, Zenon
  <2>3. \A i \in at : i \in 1 .. Len(b)
    BY AddressedFacts, Zenon
  <2>4. /\ new \in Seq(Message)
        /\ \A i \in 1 .. Len(b) : new[i] = b[i]
        /\ \A i \in DOMAIN ms : new[Len(b) + i] = ms[i]
    BY AddressedConcat, Zenon
  <2>5. QED
    BY <1>1, <2>2, <2>3, <2>4, Zenon
<1> HIDE DEF x, at, n, new
<1>5. /\ Cardinality(at \cup {x}) = n + 1 /\ Nth(at \cup {x}, n + 1) = x
      /\ \A k \in 1 .. n : Nth(at \cup {x}, k) = Nth(at, k)
  BY <1>2, <1>3, NthExtend DEF n
<1>6. /\ BoxOf(new, r) \in Seq(Pid) /\ Len(BoxOf(new, r)) = n + 1
      /\ \A k \in 1 .. n + 1 : BoxOf(new, r)[k] = new[Nth(at \cup {x}, k)].from
  <2>1. /\ BoxOf(new, r) \in Seq(Pid)
        /\ Len(BoxOf(new, r)) = Cardinality(Addressed(new, r))
        /\ \A k \in 1 .. Cardinality(Addressed(new, r)) :
              BoxOf(new, r)[k] = new[Nth(Addressed(new, r), k)].from
    BY <1>4, BoxFacts, Zenon
  <2>2. QED
    BY <1>4, <1>5, <2>1, Zenon
<1>7. /\ BoxOf(b, r) \in Seq(Pid) /\ Len(BoxOf(b, r)) = n
      /\ \A k \in 1 .. n : BoxOf(b, r)[k] = b[Nth(at, k)].from
  BY BoxFacts DEF at, n
<1>8. ms[j].from \in Pid
  <2>1. ms[j] \in Message
    BY <1>1, ElementOfSeq, LenProperties
  <2>2. QED
    BY <2>1 DEF Message
<1>9. /\ Append(BoxOf(b, r), ms[j].from) \in Seq(Pid)
      /\ Len(Append(BoxOf(b, r), ms[j].from)) = n + 1
      /\ Append(BoxOf(b, r), ms[j].from)[n + 1] = ms[j].from
      /\ \A k \in 1 .. n : Append(BoxOf(b, r), ms[j].from)[k] = BoxOf(b, r)[k]
  BY <1>7, <1>8, AppendProperties
<1>10. ASSUME NEW k \in 1 .. n + 1
       PROVE  BoxOf(new, r)[k] = Append(BoxOf(b, r), ms[j].from)[k]
  <2>1. CASE k = n + 1
    BY <1>4, <1>5, <1>6, <1>9, <2>1
  <2>2. CASE k # n + 1
    <3>1. k \in 1 .. n
      BY <1>2, <2>2
    <3>2. Nth(at, k) \in at
      BY <1>2, <3>1, NthInSet DEF n
    <3>3. BoxOf(new, r)[k] = new[Nth(at, k)].from
      BY <1>5, <1>6, <3>1
    <3>4. QED
      BY <1>4, <1>7, <1>9, <3>1, <3>2, <3>3
  <2>3. QED
    BY <2>1, <2>2
<1>11. BoxOf(new, r) = Append(BoxOf(b, r), ms[j].from)
  BY <1>6, <1>9, <1>10, SeqEqual
<1>12. QED
  BY <1>11 DEF new

\* ms brings one message of p to each of the processes R, and to nobody else.
Goes(ms, p, R) ==
    /\ ms \in Seq(Message) /\ Len(ms) = Cardinality(R)
    /\ \A j \in DOMAIN ms : ms[j].from = p /\ ms[j].to \in R
    /\ \A r \in R : \E j \in DOMAIN ms : Addressed(ms, r) = {j}
    /\ \A r \in Pid \ R : Addressed(ms, r) = {}

LEMMA OneGoes ==
    ASSUME NEW p \in Pid, NEW r \in Pid
    PROVE  Goes(<<[from |-> p, to |-> r]>>, p, {r})
<1> DEFINE m == [from |-> p, to |-> r]
           ms == <<m>>
<1>1. m \in Message /\ m.from = p /\ m.to = r
  BY DEF Message
<1> HIDE DEF m
<1>2. ms \in Seq(Message) /\ Len(ms) = 1 /\ DOMAIN ms = {1} /\ ms[1] = m
  BY <1>1
<1>3. Cardinality({r}) = 1
  BY FS_Singleton
<1> HIDE DEF ms
<1>4. Addressed(ms, r) = {1} /\ \A s \in Pid \ {r} : Addressed(ms, s) = {}
  BY <1>1, <1>2, Zenon DEF Addressed
<1>5. Goes(ms, p, {r})
  BY <1>1, <1>2, <1>3, <1>4, Zenon DEF Goes
<1>6. QED
  BY <1>5 DEF ms, m

\* Without duplicates there are as many processes as slots.
LEMMA SlotsCount ==
    ASSUME NEW ps, WellKept(ps), NEW slots \in SUBSET Slot, \A s \in slots : ps[s] # 0
    PROVE  Cardinality({ps[s] : s \in slots}) = Cardinality(slots)
<1> DEFINE R == {ps[s] : s \in slots}
           f == [s \in slots |-> ps[s]]
<1>1. IsFiniteSet(slots)
  BY SlotFacts
<1>2. f \in [slots -> R] /\ \A s \in slots : f[s] = ps[s]
  OBVIOUS
<1>3. \A s, t \in slots : f[s] = f[t] => s = t
  BY <1>2 DEF WellKept, Distinct
<1>4. \A r \in R : \E s \in slots : f[s] = r
  BY <1>2
<1> HIDE DEF f, R
<1>5. f \in Bijection(slots, R)
  BY <1>2, <1>3, <1>4 DEF Bijection, Injection, Surjection, IsInjective
<1>6. ExistsBijection(slots, R)
  BY <1>5, Zenon DEF ExistsBijection
<1>7. Cardinality(R) = Cardinality(slots)
  BY <1>1, <1>6, FS_Bijection
<1>8. QED
  BY <1>7 DEF R

\* A broadcast takes one message to the process of each slot.
LEMMA CopiesGo ==
    ASSUME QueueInv, NEW p \in Pid, NEW q \in Queue, NEW slots \in SUBSET Slot,
           \A s \in slots : pids[q][s] # 0
    PROVE  Goes(Copies(q, p, slots), p, {pids[q][s] : s \in slots})
<1> DEFINE ms == Copies(q, p, slots)
           n == Cardinality(slots)
           R == {pids[q][s] : s \in slots}
<1>1. /\ IsFiniteSet(slots) /\ n \in Nat /\ slots \in SUBSET Int
      /\ WellKept(pids[q]) /\ QueueType
  BY SlotFacts DEF QueueInv, ListsKept
<1>2. ms \in Seq(Message) /\ Len(ms) = n /\ DOMAIN ms = 1 .. n
  BY <1>1, CopiesTypes, LenProperties
<1>3. Cardinality(R) = n
  BY <1>1, SlotsCount
<1>4. \A k \in 1 .. n : ms[k].from = p /\ ms[k].to = pids[q][Nth(slots, k)]
  BY DEF Copies
<1>5. \A k \in 1 .. n : Nth(slots, k) \in slots
  BY <1>1, NthInSet
<1>6. \A s \in slots : \E k \in 1 .. n : Nth(slots, k) = s
  BY <1>1, NthOnto
<1>7. \A j, k \in 1 .. n : j # k => Nth(slots, j) # Nth(slots, k)
  BY <1>1, NthDistinct
<1>8. \A s, t \in slots : pids[q][s] = pids[q][t] => s = t
  BY <1>1 DEF WellKept, Distinct
<1> HIDE DEF ms, n
<1>9. \A k \in 1 .. n : ms[k].to \in R
  BY <1>4, <1>5
<1>10. ASSUME NEW r \in R PROVE \E j \in DOMAIN ms : Addressed(ms, r) = {j}
  <2>1. PICK s \in slots : r = pids[q][s]
    OBVIOUS
  <2>2. PICK k \in 1 .. n : Nth(slots, k) = s
    BY <1>6
  <2>3. \A j \in 1 .. n : ms[j].to = r <=> j = k
    BY <1>4, <1>5, <1>7, <1>8, <2>1, <2>2
  <2>4. Addressed(ms, r) = {k}
    BY <1>2, <2>2, <2>3, Zenon DEF Addressed
  <2>5. QED
    BY <1>2, <2>4
<1>11. ASSUME NEW r \in Pid \ R PROVE Addressed(ms, r) = {}
  BY <1>2, <1>4, <1>5, <1>11, Zenon DEF Addressed
<1> HIDE DEF R
<1>12. Goes(ms, p, R)
  BY <1>2, <1>3, <1>4, <1>9, <1>10, <1>11, Zenon DEF Goes
<1>13. QED
  BY <1>12 DEF ms, R

\* The mailbox of r when each of R gets a message of p.
Posted(box, r, R, p) == IF r \in R THEN Append(box, p) ELSE box

\* A mailbox after ms was stored.
LEMMA BoxPosted ==
    ASSUME NEW b \in Seq(Message), NEW p \in Pid, NEW R \in SUBSET Pid, NEW ms,
           Goes(ms, p, R), NEW r \in Pid
    PROVE  BoxOf(b \o ms, r) = Posted(BoxOf(b, r), r, R, p)
<1>1. ms \in Seq(Message)
  BY DEF Goes
<1>2. CASE r \in R
  <2>1. PICK j \in DOMAIN ms : Addressed(ms, r) = {j}
    BY <1>2, Zenon DEF Goes
  <2>2. ms[j].from = p
    BY <2>1, Zenon DEF Goes
  <2>3. BoxOf(b \o ms, r) = Append(BoxOf(b, r), ms[j].from)
    BY <1>1, <2>1, BoxOne
  <2>4. QED
    BY <1>2, <2>2, <2>3 DEF Posted
<1>3. CASE r \notin R
  <2>1. Addressed(ms, r) = {}
    BY <1>3, Zenon DEF Goes
  <2>2. BoxOf(b \o ms, r) = BoxOf(b, r)
    BY <1>1, <2>1, BoxSame, Zenon
  <2>3. QED
    BY <1>3, <2>2 DEF Posted
<1>4. QED
  BY <1>2, <1>3

-----------------------------------------------------------------------------
(***************************************************************************)
(* What the mailboxes rest on when nobody leaves: no message is marked as  *)
(* read, and the matrix and the messages name members only.                *)
(***************************************************************************)
CarefulMail == CarefulMembers /\ "pid_zero" \notin Usage

NoneRead == \A q \in Queue : read[q] = {}

BlocksAmongMembers ==
    \A q \in Queue, s, t \in Slot : t \in blocked[q][s] => pids[q][s] # 0 /\ pids[q][t] # 0

MailToMembers ==
    \A q \in Queue : \A i \in DOMAIN buffer[q] : buffer[q][i].to \in MembersOf(q)

BoxInv == NoneRead /\ BlocksAmongMembers /\ MailToMembers

State == QueueInv /\ HoldInv /\ MailType /\ BoxInv

\* Nobody who has a slot ever loses it.
SlotsStay == \A q \in Queue, s \in Slot : pids[q][s] # 0 => pids'[q][s] = pids[q][s]

LEMMA JoinStays ==
    ASSUME NEW ps \in Members, NEW child, NEW s \in Slot, ps[s] # 0
    PROVE  Joined(ps, child)[s] = ps[s]
<1> DEFINE empty == {t \in Slot : ps[t] = 0}
<1>1. CASE empty = {}
  BY <1>1 DEF Joined
<1>2. CASE empty # {}
  <2>1. empty \in SUBSET Slot
    OBVIOUS
  <2>2. Min(empty) \in empty
    BY <1>2, <2>1, SlotFacts, Zenon
  <2>3. Min(empty) # s /\ Min(empty) \in Slot
    BY <2>2
  <2>4. Joined(ps, child) = [ps EXCEPT ![Min(empty)] = child]
    BY <1>2 DEF Joined
  <2> HIDE DEF empty
  <2>5. QED
    BY <2>3, <2>4 DEF Members
<1>3. QED
  BY <1>1, <1>2

LEMMA SlotsStayNext ==
    ASSUME CarefulMembers, QueueInv, [Next]_vars PROVE SlotsStay
<1>1. CASE UNCHANGED pids
  BY <1>1 DEF SlotsStay
<1>2. ASSUME NEW p \in Pid, CreateMsgQueue(p) PROVE SlotsStay
  <2>1. created + 1 \in Queue /\ created + 1 > created /\ created' = created + 1
    BY <1>2, QueueAssumption DEF CreateMsgQueue, QueueInv, QueueType, Queue
  <2>2. pids' = [pids EXCEPT ![created + 1][0] = p] /\ 0 \in Slot
    BY <1>2, <2>1, QueueAssumption DEF CreateMsgQueue, Slot
  <2>3. pids[created + 1] = [s \in Slot |-> 0]
    BY <2>1 DEF QueueInv, Fresh
  <2>4. QED
    BY <2>2, <2>3 DEF SlotsStay, QueueInv, QueueType, Members
<1>3. ASSUME NEW p \in Pid, Fork(p) PROVE SlotsStay
  <2> SUFFICES ASSUME NEW q \in Queue, NEW s \in Slot, pids[q][s] # 0
               PROVE  pids'[q][s] = pids[q][s]
    BY DEF SlotsStay
  <2>1. \/ pids'[q] = pids[q]
        \/ pids'[q] = Joined(pids[q], Min(Pid \ alive))
    BY <1>3 DEF Fork
  <2>2. pids[q] \in Members
    BY DEF QueueInv, QueueType
  <2>3. QED
    BY <2>1, <2>2, JoinStays
<1>4. ASSUME NEW p \in Pid, FileStep(p) PROVE SlotsStay
  <2>1. CreateMsgQueue(p) \/ UNCHANGED pids
    BY <1>4, Zenon DEF FileStep, OpenFile, TableFull, Dangling, CloseFile, NotAQueue, Astray,
       CloseUnopened, Fails, queueVars
  <2>2. QED
    BY <1>1, <1>2, <2>1
<1>5. ASSUME NEW p \in Pid, NEW fd \in Fd, NEW q \in Queue,
             MailStep(p, fd, q) \/ MemberStep(p, fd, q)
      PROVE  UNCHANGED pids
  <2>1. ~ MsgQueueClose(p, fd, q) /\ ~ CloseStranger(p, fd, q)
    BY DEF MsgQueueClose, CloseStranger, Through, CarefulMembers
  <2>2. QED
    BY <1>5, <2>1, Zenon
       DEF MailStep, Broadcast, Send, Overflow, Receive, GetMsgCount, Deliver,
           MemberStep, GetMemberInfo, Block, Fails, queueVars
<1>6. \A p \in Pid : ~ Exit(p)
  BY DEF Exit, CarefulMembers
<1>7. CASE UNCHANGED vars
  BY <1>1, <1>7 DEF vars, queueVars
<1>8. CASE Next
  BY <1>1, <1>3, <1>4, <1>5, <1>6, <1>8 DEF Next
<1>9. QED
  BY <1>7, <1>8

\* Members stay members, and blocks among them stay what they are.
LEMMA StaysMember ==
    ASSUME SlotsStay, NEW q \in Queue, NEW r \in Pid, Member(q, r)
    PROVE  Member(q, r)'
<1>1. PICK s \in Slot : pids[q][s] = r
  BY DEF Member, SlotsOf
<1>2. pids'[q][s] = r
  BY <1>1 DEF SlotsStay, Pid
<1>3. QED
  BY <1>2 DEF Member, SlotsOf

LEMMA BoxInvInit == Init => BoxInv
<1> SUFFICES ASSUME Init PROVE BoxInv
  OBVIOUS
<1>1. NoneRead /\ BlocksAmongMembers
  BY DEF Init, NoneRead, BlocksAmongMembers
<1>2. \A q \in Queue : DOMAIN buffer[q] = {}
  BY DEF Init
<1>3. QED
  BY <1>1, <1>2 DEF BoxInv, MailToMembers

\* Calls that leave the messages and the matrix alone.
LEMMA BoxInvFrame ==
    ASSUME MailType, BoxInv, SlotsStay, UNCHANGED <<blocked, mailVars>>
    PROVE  BoxInv'
<1>1. NoneRead'
  BY DEF BoxInv, NoneRead, mailVars
<1>2. BlocksAmongMembers'
  <2> SUFFICES ASSUME NEW q \in Queue, NEW s \in Slot, NEW t \in Slot, t \in blocked[q][s]
               PROVE  pids'[q][s] # 0 /\ pids'[q][t] # 0
    BY DEF BlocksAmongMembers
  <2>1. pids[q][s] # 0 /\ pids[q][t] # 0
    BY DEF BoxInv, BlocksAmongMembers
  <2>2. QED
    BY <2>1 DEF SlotsStay
<1>3. MailToMembers'
  <2> SUFFICES ASSUME NEW q \in Queue, NEW i \in DOMAIN buffer[q]
               PROVE  buffer[q][i].to \in MembersOf(q)'
    BY DEF MailToMembers, mailVars
  <2>1. buffer[q][i].to \in Pid /\ Member(q, buffer[q][i].to)
    BY DEF BoxInv, MailToMembers, MembersOf
  <2>2. Member(q, buffer[q][i].to)'
    <3> DEFINE r == buffer[q][i].to
    <3>1. r \in Pid /\ Member(q, r)
      BY <2>1
    <3> HIDE DEF r
    <3>2. PICK s \in Slot : pids[q][s] = r
      BY <3>1 DEF Member, SlotsOf
    <3>3. pids'[q][s] = r /\ buffer' = buffer
      BY <3>1, <3>2 DEF SlotsStay, Pid, mailVars
    <3>4. QED
      BY <3>3 DEF Member, SlotsOf, r
  <2>3. QED
    BY <2>1, <2>2 DEF MembersOf, mailVars
<1>4. QED
  BY <1>1, <1>2, <1>3 DEF BoxInv

\* A member has one slot, which is the first and the last one that matches.
LEMMA TheSlot ==
    ASSUME QueueInv, NEW q \in Queue, NEW p \in Pid, Member(q, p)
    PROVE  \E s \in Slot : /\ SlotsOf(q, p) = {s} /\ pids[q][s] = p
                          /\ Min(SlotsOf(q, p)) = s /\ Max(SlotsOf(q, p)) = s
<1>1. PICK s \in Slot : pids[q][s] = p
  BY DEF Member, SlotsOf
<1>2. \A t \in Slot : pids[q][t] = p => t = s
  BY <1>1 DEF QueueInv, ListsKept, WellKept, Distinct, Pid
<1>3. SlotsOf(q, p) = {s}
  BY <1>1, <1>2, Zenon DEF SlotsOf
<1>4. SlotsOf(q, p) \in SUBSET Slot /\ SlotsOf(q, p) # {}
  BY <1>3
<1>5. Min(SlotsOf(q, p)) \in SlotsOf(q, p) /\ Max(SlotsOf(q, p)) \in SlotsOf(q, p)
  BY <1>4, SlotFacts, Zenon
<1>6. QED
  BY <1>1, <1>3, <1>5, Zenon

\* Who hears a broadcast of p.
Hearers(q, p) == {r \in Pid \ {p} : r \in MembersOf(q) /\ ~ Blocks(q, r, p)}

LEMMA BroadcastGoes ==
    ASSUME CarefulMail, State, NEW p \in Pid, NEW fd \in Fd, NEW q \in Queue,
           Broadcast(p, fd, q)
    PROVE  \E ms : Deliver(p, q, ms) /\ Goes(ms, p, Hearers(q, p))
<1>1. Member(q, p) /\ QueueInv
  BY DEF Broadcast, Mailing, Through, CarefulMail, CarefulMembers, State
<1>2. PICK me \in Slot : /\ SlotsOf(q, p) = {me} /\ pids[q][me] = p
                         /\ Min(SlotsOf(q, p)) = me
  BY <1>1, TheSlot
<1> DEFINE deaf == {s \in Slot : me \in blocked[q][s]}
           slots == Receivers(q, p, deaf)
<1>3. Deaf(q, p) = {deaf}
  BY <1>1, <1>2 DEF Deaf
<1>4. Deliver(p, q, Copies(q, p, slots))
  BY <1>3 DEF Broadcast
<1>5. \A s \in Slot : s \in Occupied(q) <=> pids[q][s] # 0
  <2>1. \A s \in Slot : s \in 0 .. s /\ \A t \in 0 .. s : t \in Slot /\ (t = s \/ t < s)
    BY QueueAssumption DEF Slot
  <2>2. Packed(pids[q])
    BY <1>1 DEF QueueInv, ListsKept, WellKept
  <2>3. QED
    BY <2>1, <2>2 DEF Occupied, Packed
<1>6. \A s \in Slot : s \in slots <=> pids[q][s] # 0 /\ s # me /\ me \notin blocked[q][s]
  BY <1>2, <1>5, Zenon DEF Receivers
<1>7. slots \in SUBSET Slot
  BY DEF Receivers, Occupied
<1>8. \A s \in slots : pids[q][s] \in Pid
  BY <1>1, <1>6, <1>7 DEF QueueInv, QueueType, Members
<1> HIDE DEF deaf, slots
<1>9. {pids[q][s] : s \in slots} = Hearers(q, p)
  <2>1. ASSUME NEW s \in slots PROVE pids[q][s] \in Hearers(q, p)
    <3> DEFINE r == pids[q][s]
    <3>1. r \in Pid /\ s \in Slot /\ s # me /\ me \notin blocked[q][s]
      BY <1>6, <1>7, <1>8
    <3>2. s \in SlotsOf(q, r) /\ Member(q, r)
      BY <3>1 DEF SlotsOf, Member
    <3>3. SlotsOf(q, r) = {s} /\ r # p
      <4>1. PICK t \in Slot : SlotsOf(q, r) = {t}
        BY <1>1, <3>1, <3>2, TheSlot
      <4>2. t = s
        BY <3>2, <4>1
      <4>3. r # p
        BY <1>2, <3>1, <3>2
      <4>4. QED
        BY <4>1, <4>2, <4>3
    <3> HIDE DEF r
    <3>4. ~ Blocks(q, r, p)
      BY <1>2, <3>1, <3>3, Zenon DEF Blocks
    <3>5. r \in Hearers(q, p)
      BY <3>1, <3>2, <3>3, <3>4, Zenon DEF Hearers, MembersOf
    <3>6. QED
      BY <3>5 DEF r
  <2>2. ASSUME NEW r \in Hearers(q, p) PROVE \E s \in slots : pids[q][s] = r
    <3>1. r \in Pid /\ r # p /\ Member(q, r) /\ ~ Blocks(q, r, p)
      BY Zenon DEF Hearers, MembersOf
    <3>2. PICK s \in Slot : SlotsOf(q, r) = {s} /\ pids[q][s] = r
      BY <1>1, <3>1, TheSlot
    <3>3. me \notin blocked[q][s]
      BY <1>2, <3>1, <3>2, Zenon DEF Blocks
    <3>4. s # me /\ pids[q][s] # 0
      BY <1>2, <3>1, <3>2 DEF Pid
    <3>5. QED
      BY <1>6, <3>2, <3>3, <3>4
  <2>3. QED
    BY <2>1, <2>2, Zenon
<1>10. Goes(Copies(q, p, slots), p, {pids[q][s] : s \in slots})
  BY <1>1, <1>6, <1>7, CopiesGo
<1>11. QED
  BY <1>4, <1>9, <1>10 DEF slots

LEMMA SendGoes ==
    ASSUME CarefulMail, State, NEW p \in Pid, NEW fd \in Fd, NEW q \in Queue,
           NEW to \in Named(p), Send(p, fd, q, to)
    PROVE  /\ to \in Pid /\ p \in MembersOf(q)
           /\ IF to \in MembersOf(q) /\ ~ Blocks(q, to, p)
              THEN \E ms : Deliver(p, q, ms) /\ Goes(ms, p, {to})
              ELSE Answer("send", p, -1) /\ UNCHANGED <<procVars, queueVars>>
<1>1. Member(q, p) /\ QueueInv /\ to \in Pid
  BY DEF Send, Mailing, Through, CarefulMail, CarefulMembers, State, Named
<1>2. PICK me \in Slot : SlotsOf(q, p) = {me} /\ Min(SlotsOf(q, p)) = me
  BY <1>1, TheSlot
<1> DEFINE deaf == {s \in Slot : me \in blocked[q][s]}
<1>3. Deaf(q, p) = {deaf}
  BY <1>1, <1>2 DEF Deaf
<1>4. IF Member(q, to) /\ Min(SlotsOf(q, to)) \notin deaf
      THEN Deliver(p, q, <<[from |-> p, to |-> to]>>)
      ELSE Answer("send", p, -1) /\ UNCHANGED <<procVars, queueVars>>
  BY <1>3 DEF Send, EINVAL
<1>5. ASSUME Member(q, to)
      PROVE  Min(SlotsOf(q, to)) \notin deaf <=> ~ Blocks(q, to, p)
  <2>1. PICK s \in Slot : SlotsOf(q, to) = {s} /\ Min(SlotsOf(q, to)) = s
    BY <1>1, <1>5, TheSlot
  <2>2. Blocks(q, to, p) <=> me \in blocked[q][s]
    BY <1>2, <2>1, Zenon DEF Blocks
  <2>3. QED
    BY <2>1, <2>2
<1>6. to \in MembersOf(q) <=> Member(q, to)
  BY <1>1 DEF MembersOf
<1>7. Goes(<<[from |-> p, to |-> to]>>, p, {to})
  BY <1>1, OneGoes
<1> HIDE DEF deaf
<1>8. p \in MembersOf(q)
  BY <1>1 DEF MembersOf
<1>9. QED
  BY <1>1, <1>4, <1>5, <1>6, <1>7, <1>8, Zenon

\* What a message to members does to the buffers.
LEMMA DeliverKeeps ==
    ASSUME MailType, BoxInv, SlotsStay, NEW p \in Pid, NEW q \in Queue, NEW ms,
           NEW R \in SUBSET MembersOf(q), Goes(ms, p, R), Deliver(p, q, ms)
    PROVE  BoxInv'
<1>1. /\ buffer' = [buffer EXCEPT ![q] = buffer[q] \o ms]
      /\ UNCHANGED <<pids, blocked, read>>
  BY DEF Deliver, Store
<1>2. NoneRead' /\ BlocksAmongMembers'
  BY <1>1 DEF BoxInv, NoneRead, BlocksAmongMembers
<1>3. \A r \in Queue : MembersOf(r)' = MembersOf(r)
  BY <1>1 DEF MembersOf, Member, SlotsOf
<1>4. /\ buffer[q] \in Seq(Message) /\ ms \in Seq(Message)
      /\ \A j \in DOMAIN ms : ms[j].to \in MembersOf(q)
  BY DEF MailType, Goes
<1>5. \A i \in DOMAIN (buffer[q] \o ms) : (buffer[q] \o ms)[i].to \in MembersOf(q)
  <2> DEFINE b == buffer[q]
  <2>1. b \in Seq(Message) /\ \A i \in DOMAIN b : b[i].to \in MembersOf(q)
    BY <1>4 DEF BoxInv, MailToMembers
  <2> HIDE DEF b
  <2> SUFFICES ASSUME NEW i \in DOMAIN (b \o ms) PROVE (b \o ms)[i].to \in MembersOf(q)
    BY DEF b
  <2>2. /\ Len(b) \in Nat /\ Len(ms) \in Nat /\ DOMAIN b = 1 .. Len(b)
        /\ DOMAIN ms = 1 .. Len(ms) /\ DOMAIN (b \o ms) = 1 .. Len(b) + Len(ms)
        /\ \A k \in 1 .. Len(b) + Len(ms) :
              (b \o ms)[k] = IF k <= Len(b) THEN b[k] ELSE ms[k - Len(b)]
    BY <1>4, <2>1, ConcatProperties, LenProperties
  <2>3. CASE i <= Len(b)
    BY <2>1, <2>2, <2>3
  <2>4. CASE ~ (i <= Len(b))
    <3>1. i - Len(b) \in DOMAIN ms /\ (b \o ms)[i] = ms[i - Len(b)]
      BY <2>2, <2>4
    <3>2. QED
      BY <1>4, <3>1
  <2>5. QED
    BY <2>3, <2>4
<1>6. MailToMembers'
  <2> SUFFICES ASSUME NEW r \in Queue, NEW i \in DOMAIN buffer'[r]
               PROVE  buffer'[r][i].to \in MembersOf(r)
    BY <1>3 DEF MailToMembers
  <2>1. CASE r = q
    <3>1. buffer'[r] = buffer[q] \o ms
      BY <1>1, <2>1 DEF MailType
    <3>2. QED
      BY <1>5, <2>1, <3>1
  <2>2. CASE r # q
    <3>1. buffer'[r] = buffer[r]
      BY <1>1, <2>2 DEF MailType
    <3>2. QED
      BY <3>1 DEF BoxInv, MailToMembers
  <2>3. QED
    BY <2>1, <2>2
<1>7. QED
  BY <1>2, <1>6 DEF BoxInv

LEMMA MailKeepsBoxes ==
    ASSUME CarefulMail, State, SlotsStay, NEW p \in Pid, NEW fd \in Fd, NEW q \in Queue,
           MailStep(p, fd, q)
    PROVE  BoxInv'
<1>1. MailType /\ BoxInv
  BY DEF State
<1>2. CASE Broadcast(p, fd, q)
  <2>1. PICK ms : Deliver(p, q, ms) /\ Goes(ms, p, Hearers(q, p))
    BY <1>2, BroadcastGoes
  <2>2. Hearers(q, p) \in SUBSET MembersOf(q)
    BY DEF Hearers
  <2>3. QED
    BY <1>1, <2>1, <2>2, DeliverKeeps
<1>3. ASSUME NEW to \in Named(p), Send(p, fd, q, to) PROVE BoxInv'
  <2>1. CASE to \in MembersOf(q) /\ ~ Blocks(q, to, p)
    <3>1. PICK ms : Deliver(p, q, ms) /\ Goes(ms, p, {to})
      BY <1>3, <2>1, SendGoes
    <3>2. {to} \in SUBSET MembersOf(q)
      BY <2>1
    <3>3. QED
      BY <1>1, <3>1, <3>2, DeliverKeeps
  <2>2. CASE ~ (to \in MembersOf(q) /\ ~ Blocks(q, to, p))
    <3>1. UNCHANGED queueVars
      BY <1>3, <2>2, SendGoes
    <3>2. QED
      BY <1>1, <3>1, BoxInvFrame DEF queueVars
  <2>3. QED
    BY <2>1, <2>2
<1>4. CASE Overflow(p, fd, q) \/ Receive(p, fd, q) \/ GetMsgCount(p, fd, q)
  <2>1. UNCHANGED <<blocked, buffer>>
    BY <1>4 DEF Overflow, Receive, GetMsgCount, Fails, queueVars, mailVars
  <2>2. read' = read
    <3>1. read' = read \/ \E i : read' = [read EXCEPT ![q] = read[q]]
      BY <1>4 DEF Overflow, Receive, GetMsgCount, Fails, queueVars, mailVars, MarkRead
    <3>2. QED
      BY <1>1, <3>1 DEF MailType
  <2>3. QED
    BY <1>1, <2>1, <2>2, BoxInvFrame DEF mailVars
<1>5. QED
  BY <1>2, <1>3, <1>4 DEF MailStep

\* What a block does to the matrix.
LEMMA BlockCases ==
    ASSUME CarefulMail, State, NEW p \in Pid, NEW fd \in Fd, NEW q \in Queue,
           NEW r \in Named(p), Block(p, fd, q, r)
    PROVE  /\ r \in Pid /\ p \in MembersOf(q)
           /\ UNCHANGED <<procVars, created, refs, pids, mailVars, mangled>>
           /\ \/ /\ r \in MembersOf(q) /\ Answer("block", p, 0)
                 /\ \E s, t \in Slot :
                       /\ SlotsOf(q, p) = {s} /\ SlotsOf(q, r) = {t}
                       /\ blocked' = [blocked EXCEPT ![q][s] = @ \cup {t}]
              \/ r \notin MembersOf(q) /\ Answer("block", p, -1) /\ UNCHANGED blocked
<1>1. Member(q, p) /\ QueueInv /\ MailType /\ r \in Pid
  BY DEF Block, Through, CarefulMail, CarefulMembers, State, Named
<1>2. p \in MembersOf(q) /\ (r \in MembersOf(q) <=> Member(q, r))
  BY <1>1 DEF MembersOf
<1>3. UNCHANGED <<procVars, created, refs, pids, mailVars, mangled>>
  BY DEF Block
<1>4. CASE ~ Member(q, r)
  BY <1>1, <1>2, <1>3, <1>4 DEF Block, EINVAL
<1>5. CASE Member(q, r)
  <2>1. PICK s \in Slot : SlotsOf(q, p) = {s} /\ Max(SlotsOf(q, p)) = s
    BY <1>1, TheSlot
  <2>2. PICK t \in Slot : SlotsOf(q, r) = {t} /\ Max(SlotsOf(q, r)) = t
    BY <1>1, <1>5, TheSlot
  <2>3. /\ blocked' = [blocked EXCEPT ![q] = BlockSlot(@, s, t)]
        /\ Answer("block", p, 0)
    BY <1>1, <1>5, <2>1, <2>2 DEF Block
  <2>4. blocked' = [blocked EXCEPT ![q][s] = @ \cup {t}]
    BY <2>3 DEF BlockSlot
  <2>5. QED
    BY <1>1, <1>2, <1>3, <1>5, <2>1, <2>2, <2>3, <2>4
<1>6. QED
  BY <1>4, <1>5

LEMMA BlockKeepsBoxes ==
    ASSUME CarefulMail, State, SlotsStay, NEW p \in Pid, NEW fd \in Fd, NEW q \in Queue,
           NEW r \in Named(p), Block(p, fd, q, r)
    PROVE  BoxInv'
<1>1. MailType /\ BoxInv
  BY DEF State
<1>2. CASE UNCHANGED blocked
  BY <1>1, <1>2, BoxInvFrame, BlockCases
<1>3. ASSUME NEW s \in Slot, NEW t \in Slot, SlotsOf(q, p) = {s}, SlotsOf(q, r) = {t},
             blocked' = [blocked EXCEPT ![q][s] = @ \cup {t}]
      PROVE  BoxInv'
  <2>1. r \in Pid /\ UNCHANGED <<pids, mailVars>>
    BY BlockCases
  <2>2. pids[q][s] = p /\ pids[q][t] = r
    BY <1>3 DEF SlotsOf
  <2>3. \A x \in Queue, y, z \in Slot :
           z \in blocked'[x][y] => z \in blocked[x][y] \/ (x = q /\ y = s /\ z = t)
    BY <1>1, <1>3 DEF MailType
  <2>4. BlocksAmongMembers'
    BY <1>1, <2>1, <2>2, <2>3 DEF BoxInv, BlocksAmongMembers, Pid
  <2>5. NoneRead' /\ MailToMembers'
    BY <1>1, <2>1 DEF BoxInv, NoneRead, MailToMembers, MembersOf, Member, SlotsOf, mailVars
  <2>6. QED
    BY <2>4, <2>5 DEF BoxInv
<1>4. QED
  BY <1>2, <1>3, BlockCases

LEMMA BoxInvNext == CarefulMail /\ State /\ [Next]_vars => BoxInv'
<1> SUFFICES ASSUME CarefulMail, State, [Next]_vars PROVE BoxInv'
  OBVIOUS
<1>1. SlotsStay /\ MailType /\ BoxInv
  BY SlotsStayNext DEF State, CarefulMail
<1>2. ASSUME NEW p \in Pid, FileStep(p) \/ Fork(p) PROVE BoxInv'
  <2>1. UNCHANGED <<blocked, mailVars>>
    BY <1>2, Zenon DEF FileStep, CreateMsgQueue, OpenFile, TableFull, Dangling, CloseFile,
       NotAQueue, Astray, CloseUnopened, Fork, Fails, queueVars
  <2>2. QED
    BY <1>1, <2>1, BoxInvFrame
<1>3. \A p \in Pid : ~ Exit(p)
  BY DEF Exit, CarefulMail, CarefulMembers
<1>4. ASSUME NEW p \in Pid, NEW fd \in Fd, NEW q \in Queue, MemberStep(p, fd, q)
      PROVE  BoxInv'
  <2>1. ~ MsgQueueClose(p, fd, q) /\ ~ CloseStranger(p, fd, q)
    BY DEF MsgQueueClose, CloseStranger, Through, CarefulMail, CarefulMembers
  <2>2. CASE GetMemberInfo(p, fd, q)
    BY <1>1, <2>2, BoxInvFrame DEF GetMemberInfo, queueVars
  <2>3. QED
    BY <1>1, <1>4, <2>1, <2>2, BlockKeepsBoxes DEF MemberStep
<1>5. CASE UNCHANGED vars
  BY <1>1, <1>5, BoxInvFrame DEF vars, queueVars
<1>6. CASE Next
  BY <1>1, <1>2, <1>3, <1>4, <1>6, MailKeepsBoxes DEF Next
<1>7. QED
  BY <1>5, <1>6

-----------------------------------------------------------------------------
(***************************************************************************)
(* Every call is a call of the mailboxes.                                  *)
(***************************************************************************)
LEMMA BoxesCardinality == \A S : Boxes!Cardinality(S) = Cardinality(S)
  BY DEF Cardinality, Boxes!Cardinality

\* Calls that leave lists, messages and matrix alone leave the mailboxes alone.
LEMMA SameMembership == ASSUME UNCHANGED pids PROVE UNCHANGED Membership
  BY DEF Membership, MembersOf, Member, SlotsOf

LEMMA SameMail == ASSUME UNCHANGED mailVars PROVE UNCHANGED Mail
  BY DEF Mail, Pending, mailVars

\* A new slot takes no part in a block.
LEMMA SameRefusals ==
    ASSUME BoxInv, SlotsStay, UNCHANGED blocked PROVE UNCHANGED Refusals
<1>1. ASSUME NEW q \in Queue, NEW a \in Pid, NEW b \in Pid
      PROVE  Blocks(q, a, b)' <=> Blocks(q, a, b)
  <2>1. ASSUME NEW s \in Slot, NEW t \in Slot, t \in blocked[q][s]
        PROVE  pids'[q][s] = pids[q][s] /\ pids'[q][t] = pids[q][t]
    BY <2>1 DEF BoxInv, BlocksAmongMembers, SlotsStay
  <2>2. Blocks(q, a, b) <=> \E s, t \in Slot :
                              pids[q][s] = a /\ pids[q][t] = b /\ t \in blocked[q][s]
    BY Zenon DEF Blocks, SlotsOf
  <2>3. Blocks(q, a, b)' <=> \E s, t \in Slot :
                              pids'[q][s] = a /\ pids'[q][t] = b /\ t \in blocked[q][s]
    BY Zenon DEF Blocks, SlotsOf
  <2>4. QED
    BY <2>1, <2>2, <2>3
<1>2. \A q \in Queue :
        {pair \in Pid \X Pid : Blocks(q, pair[1], pair[2])}'
        = {pair \in Pid \X Pid : Blocks(q, pair[1], pair[2])}
  <2> SUFFICES ASSUME NEW q \in Queue
               PROVE  {pair \in Pid \X Pid : Blocks(q, pair[1], pair[2])'}
                      = {pair \in Pid \X Pid : Blocks(q, pair[1], pair[2])}
    OBVIOUS
  <2>1. \A pair \in Pid \X Pid : pair[1] \in Pid /\ pair[2] \in Pid
    OBVIOUS
  <2>2. \A pair \in Pid \X Pid : Blocks(q, pair[1], pair[2])' <=> Blocks(q, pair[1], pair[2])
    BY <1>1, <2>1, Zenon
  <2>3. QED
    BY <2>2, Zenon
<1>3. QED
  BY <1>2, Zenon DEF Refusals

LEMMA MembershipAt ==
    \A q \in Queue : Membership[q] = MembersOf(q)
  BY DEF Membership

LEMMA RefusalsAt ==
    ASSUME NEW q \in Queue, NEW a \in Pid, NEW b \in Pid
    PROVE  <<a, b>> \in Refusals[q] <=> Blocks(q, a, b)
  BY DEF Refusals

LEMMA MailAt ==
    ASSUME NoneRead
    PROVE  \A q \in Queue, p \in Pid : Mail[q][p] = BoxOf(buffer[q], p)
<1>1. \A q \in Queue, p \in Pid : Pending(q, p) = Addressed(buffer[q], p)
  BY Zenon DEF Pending, Addressed, NoneRead
<1>2. QED
  BY <1>1 DEF Mail, BoxOf

LEMMA MailIs ==
    NoneRead => Mail = [q \in Queue |-> [p \in Pid |-> BoxOf(buffer[q], p)]]
<1>1. NoneRead => \A q \in Queue, p \in Pid : Pending(q, p) = Addressed(buffer[q], p)
  BY Zenon DEF Pending, Addressed, NoneRead
<1>2. QED
  BY <1>1 DEF Mail, BoxOf

LEMMA MailIsNext ==
    NoneRead' => Mail' = [q \in Queue |-> [p \in Pid |-> BoxOf(buffer'[q], p)]]
<1>1. NoneRead' => \A q \in Queue, p \in Pid : Pending(q, p)' = Addressed(buffer'[q], p)
  BY Zenon DEF Pending, Addressed, NoneRead
<1>2. QED
  BY <1>1 DEF Mail, BoxOf

LEMMA BoxesFile ==
    ASSUME State, SlotsStay, NEW p \in Pid,
           OpenFile(p) \/ \E fd \in Fd : NotAQueue(p, fd)
    PROVE  Boxes!DeliveryNext
<1>1. UNCHANGED <<pids, mailVars, blocked, alive>> /\ p \in alive
  BY Zenon DEF OpenFile, NotAQueue, queueVars, mailVars, procVars, Running
<1>2. UNCHANGED <<Membership, Mail, Refusals>>
  BY <1>1, SameMembership, SameMail, SameRefusals DEF State
<1>3. CASE OpenFile(p)
  <2>1. FreeFds(p) # {} /\ FreeFds(p) \in SUBSET Nat
    BY <1>3, QueueAssumption DEF OpenFile, NewFd, FreeFds, Fd
  <2>2. Min(FreeFds(p)) \in Nat
    BY <2>1, MinInSet
  <2>3. reply' = [call |-> "open", to |-> p, value |-> Min(FreeFds(p)), from |-> 0]
    BY <1>3 DEF OpenFile, NewFd, Answer, Returns
  <2>4. Boxes!Open(p)
    BY <1>1, <1>2, <2>2, <2>3 DEF Boxes!Open, Boxes!Calls, Boxes!Opened
  <2>5. QED
    BY <2>4 DEF Boxes!DeliveryNext, Boxes!Delivery
<1>4. CASE \E fd \in Fd : NotAQueue(p, fd)
  <2>1. reply' = [call |-> "no_queue", to |-> p, value |-> -1, from |-> 0]
    BY <1>4 DEF NotAQueue, Answer, Returns, EINVAL
  <2>2. Boxes!NoQueue(p)
    BY <1>1, <1>2, <2>1 DEF Boxes!NoQueue, Boxes!Inquire, Boxes!Answers
  <2>3. QED
    BY <2>2 DEF Boxes!DeliveryNext, Boxes!Delivery
<1>5. QED
  BY <1>3, <1>4

LEMMA BoxesCreate ==
    ASSUME State, SlotsStay, NEW p \in Pid, CreateMsgQueue(p)
    PROVE  Boxes!DeliveryNext
<1>1. PICK new \in Queue : new = created + 1 /\ created' = new /\ new > created
  BY QueueAssumption DEF CreateMsgQueue, State, QueueInv, QueueType, Queue
<1>2. /\ UNCHANGED <<mailVars, blocked, alive>> /\ p \in alive
      /\ pids' = [pids EXCEPT ![new][0] = p]
  BY <1>1 DEF CreateMsgQueue, Running
<1>3. pids[new] = [s \in Slot |-> 0] /\ 0 \in Slot
  BY <1>1, QueueAssumption DEF State, QueueInv, Fresh, Slot
<1>4. \A q \in Queue, s \in Slot :
         pids'[q][s] = IF q = new /\ s = 0 THEN p ELSE pids[q][s]
  BY <1>1, <1>2, <1>3 DEF State, QueueInv, QueueType, Members
<1>5. MembersOf(new) = {} /\ MembersOf(new)' = {p}
  <2>1. \A r \in Pid : ~ Member(new, r)
    BY <1>3 DEF Member, SlotsOf, Pid
  <2>2. \A r \in Pid : Member(new, r)' <=> r = p
    BY <1>3, <1>4 DEF Member, SlotsOf, Pid
  <2>3. QED
    BY <2>1, <2>2, Zenon DEF MembersOf
<1>6. \A q \in Queue \ {new} : MembersOf(q)' = MembersOf(q)
  BY <1>4 DEF MembersOf, Member, SlotsOf
<1>7. Membership' = [Membership EXCEPT ![new] = {p}]
  BY <1>1, <1>5, <1>6 DEF Membership
<1>8. UNCHANGED <<Mail, Refusals>>
  BY <1>2, SameMail, SameRefusals DEF State
<1>9. Min(FreeFds(p)) \in Nat
  <2>1. FreeFds(p) # {} /\ FreeFds(p) \in SUBSET Nat
    BY QueueAssumption DEF CreateMsgQueue, NewFd, FreeFds, Fd
  <2>2. QED
    BY <2>1, MinInSet
<1>10. reply' = [call |-> "create", to |-> p, value |-> Min(FreeFds(p)), from |-> 0]
  BY DEF CreateMsgQueue, NewFd, Answer, Returns
<1>11. Membership[new] = {}
  BY <1>1, <1>5, MembershipAt
<1>12. Boxes!Found(p, new)
  BY <1>2, <1>7, <1>8, <1>9, <1>10, <1>11 DEF Boxes!Found, Boxes!Calls, Boxes!Opened
<1>13. QED
  BY <1>1, <1>12 DEF Boxes!DeliveryNext, Boxes!Delivery

LEMMA BoxesFork ==
    ASSUME CarefulMail, State, SlotsStay, NEW p \in Pid, Fork(p)
    PROVE  Boxes!DeliveryNext
<1> DEFINE child == Min(Pid \ alive)
           joins == QueuesOf(p, Scanned(p))
<1>1. child \in Pid /\ child \notin alive
  <2>1. Pid \ alive \in SUBSET Nat /\ Pid \ alive # {}
    BY QueueAssumption DEF Pid, Fork
  <2>2. Min(Pid \ alive) \in Pid \ alive
    BY <2>1, MinInSet
  <2>3. QED
    BY <2>2
<1>2. /\ p \in alive /\ alive' = alive \cup {child}
      /\ pids' = [q \in Queue |-> IF q \in joins THEN Joined(pids[q], child) ELSE pids[q]]
      /\ reply' = [call |-> "fork", to |-> p, value |-> child, from |-> 0]
      /\ UNCHANGED <<mailVars, blocked>>
  BY DEF Fork, Running, Answer, Returns
<1>3. \A q \in Queue : q \in joins <=> Member(q, p)
  <2>1. \A fd \in Fd : files[p][fd] # NoFile => fd \in Scanned(p)
    BY QueueAssumption DEF Scanned, State, HoldInv, NoHoles, Fd
  <2>2. joins = QueuesOf(p, Fd)
    BY <2>1 DEF QueuesOf, Queue, NoFile, Scanned
  <2>3. QED
    BY <1>2, <2>2 DEF State, HoldInv, MembersHoldDescriptors
<1> HIDE DEF child, joins
<1>4. \A q \in Queue : child \notin Within(pids[q]) /\ WellKept(pids[q])
  BY <1>1 DEF State, HoldInv, NoGhosts, QueueInv, ListsKept
<1>5. \A q \in Queue :
         Within(pids'[q]) = Within(pids[q]) \cup IF q \in joins THEN {child} ELSE {}
  <2> SUFFICES ASSUME NEW q \in joins, q \in Queue
               PROVE  Within(Joined(pids[q], child)) = Within(pids[q]) \cup {child}
    BY <1>2
  <2>1. \E s \in Slot : pids[q][s] = 0
    BY <1>1, <1>4, RoomForAll DEF CarefulMail
  <2>2. QED
    BY <1>1, <1>4, <2>1, JoinAdds DEF WellKept
<1>6. ASSUME NEW q \in Queue
      PROVE  MembersOf(q)' = IF p \in MembersOf(q) THEN MembersOf(q) \cup {child}
                                                 ELSE MembersOf(q)
  <2>1. \A r \in Pid : Member(q, r)' <=> r \in Within(pids'[q])
    BY DEF Member, SlotsOf, Within, Pid
  <2>2. \A r \in Pid : Member(q, r) <=> r \in Within(pids[q])
    BY MemberWithin
  <2>3. p \in MembersOf(q) <=> q \in joins
    BY <1>3 DEF MembersOf
  <2>4. \A r \in Pid : Member(q, r)' <=> Member(q, r) \/ (q \in joins /\ r = child)
    BY <1>5, <2>1, <2>2
  <2>5. QED
    BY <1>1, <2>3, <2>4, Zenon DEF MembersOf
<1>7. Membership' = [q \in Queue |-> IF p \in Membership[q] THEN Membership[q] \cup {child}
                                                          ELSE Membership[q]]
  BY <1>6 DEF Membership
<1>8. UNCHANGED <<Mail, Refusals>>
  BY <1>2, SameMail, SameRefusals DEF State
<1>9. ASSUME NEW q \in Queue PROVE Mail[q][child] = <<>>
  <2>1. buffer[q] \in Seq(Message)
    BY DEF State, MailType
  <2>2. ~ Member(q, child)
    BY <1>1, <1>4, MemberWithin
  <2>3. Addressed(buffer[q], child) = {}
    BY <2>2, Zenon DEF Addressed, State, BoxInv, MailToMembers, MembersOf
  <2>4. Cardinality(Addressed(buffer[q], child)) = 0
    BY <2>3, FS_EmptySet
  <2>5. BoxOf(buffer[q], child) = <<>>
    BY <2>1, <2>4, BoxFacts, EmptySeq
  <2>6. QED
    BY <1>1, <2>5, MailAt DEF State, BoxInv
<1>10. ASSUME NEW q \in Queue, NEW r \in Pid
       PROVE  {<<r, child>>, <<child, r>>} \cap Refusals[q] = {}
  <2>1. SlotsOf(q, child) = {}
    BY <1>1, <1>4, MemberWithin DEF Member
  <2>2. ~ Blocks(q, r, child) /\ ~ Blocks(q, child, r)
    BY <2>1, Zenon DEF Blocks
  <2>3. <<r, child>> \notin Refusals[q] /\ <<child, r>> \notin Refusals[q]
    BY <1>1, <2>2, RefusalsAt
  <2>4. QED
    BY <2>3, Zenon
<1>11. Boxes!Beget(p, child)
  BY <1>1, <1>2, <1>7, <1>8, <1>9, <1>10 DEF Boxes!Beget, Boxes!Calls, Boxes!Answers
<1>12. QED
  BY <1>1, <1>11 DEF Boxes!DeliveryNext, Boxes!Delivery

\* A delivery posts one message to each of R.
LEMMA BoxesPost ==
    ASSUME State, SlotsStay, NEW p \in Pid, NEW q \in Queue, NEW R \in SUBSET Pid,
           NEW ms, Goes(ms, p, R), Deliver(p, q, ms)
    PROVE  Boxes!Post(p, q, R)
<1>1. /\ buffer' = [buffer EXCEPT ![q] = buffer[q] \o ms]
      /\ UNCHANGED <<alive, pids, blocked, read>>
      /\ reply' = [call |-> "send", to |-> p, value |-> Len(ms), from |-> 0]
  BY DEF Deliver, Store, procVars, Answer, Returns
<1>2. UNCHANGED <<Membership, Refusals>>
  BY <1>1, SameMembership, SameRefusals DEF State
<1>3. Len(ms) = Boxes!Cardinality(R)
  BY BoxesCardinality DEF Goes
<1>4. buffer \in [Queue -> Seq(Message)]
  BY DEF State, MailType
<1>5. \A r \in Pid :
         BoxOf(buffer'[q], r) = IF r \in R THEN Append(BoxOf(buffer[q], r), p)
                                         ELSE BoxOf(buffer[q], r)
  <2>1. buffer'[q] = buffer[q] \o ms /\ buffer[q] \in Seq(Message)
    BY <1>1, <1>4
  <2>2. \A r \in Pid :
           BoxOf(buffer[q] \o ms, r) = Posted(BoxOf(buffer[q], r), r, R, p)
    BY <2>1, BoxPosted, Zenon
  <2>3. QED
    BY <2>1, <2>2, Zenon DEF Posted
<1>6. \A x \in Queue \ {q} : buffer'[x] = buffer[x]
  BY <1>1, <1>4
<1>7. Mail' = [Mail EXCEPT ![q] =
                 [r \in Pid |-> IF r \in R THEN Append(Mail[q][r], p) ELSE Mail[q][r]]]
  <2> DEFINE new == [r \in Pid |-> IF r \in R THEN Append(Mail[q][r], p) ELSE Mail[q][r]]
  <2>0. NoneRead /\ NoneRead'
    BY <1>1 DEF State, BoxInv, NoneRead
  <2>1. [r \in Pid |-> BoxOf(buffer'[q], r)] = new
    BY <1>5, <2>0, MailAt
  <2>2. \A x \in Queue \ {q} : [r \in Pid |-> BoxOf(buffer'[x], r)] = Mail[x]
    BY <1>6, <2>0, MailIs
  <2>3. Mail' = [x \in Queue |-> [r \in Pid |-> BoxOf(buffer'[x], r)]]
    BY <2>0, MailIsNext
  <2>4. Mail = [x \in Queue |-> Mail[x]]
    BY DEF Mail
  <2> HIDE DEF new
  <2>5. Mail' = [Mail EXCEPT ![q] = new]
    BY <2>1, <2>2, <2>3, <2>4
  <2>6. QED
    BY <2>5 DEF new
<1>8. QED
  BY <1>1, <1>2, <1>3, <1>7 DEF Boxes!Post, Boxes!Answers

LEMMA AcceptsIs ==
    ASSUME NEW q \in Queue, NEW r \in Pid, NEW p \in Pid
    PROVE  Boxes!Accepts(q, r, p) <=> r \in MembersOf(q) /\ ~ Blocks(q, r, p)
  BY MembershipAt, RefusalsAt DEF Boxes!Accepts

LEMMA Inquires ==
    ASSUME State, SlotsStay, UNCHANGED <<procVars, queueVars>>,
           NEW call, NEW p, NEW v, Answer(call, p, v)
    PROVE  Boxes!Inquire(call, p, v)
<1>1. UNCHANGED <<alive, pids, mailVars, blocked>>
  BY DEF procVars, queueVars
<1>2. UNCHANGED <<Membership, Mail, Refusals>>
  BY <1>1, SameMembership, SameMail, SameRefusals DEF State
<1>3. QED
  BY <1>1, <1>2 DEF Boxes!Inquire, Boxes!Answers, Answer, Returns

LEMMA BoxesSend ==
    ASSUME CarefulMail, State, SlotsStay, NEW p \in Pid, NEW fd \in Fd, NEW q \in Queue,
           NEW to \in Named(p), Send(p, fd, q, to)
    PROVE  Boxes!DeliveryNext
<1>1. to \in Pid /\ p \in MembersOf(q)
  BY SendGoes
<1>2. reply'.call = "send" /\ reply'.to = p
  <2>1. \E v : Answer("send", p, v)
    BY Zenon DEF Send, Deliver
  <2>2. QED
    BY <2>1 DEF Answer, Returns
<1>3. CASE to \in MembersOf(q) /\ ~ Blocks(q, to, p)
  <2>1. PICK ms : Deliver(p, q, ms) /\ Goes(ms, p, {to})
    BY <1>3, SendGoes
  <2>2. Boxes!Post(p, q, {to})
    BY <1>1, <2>1, BoxesPost
  <2>3. Boxes!Tell(p, q, to)
    BY <1>1, <1>2, <1>3, <2>2, AcceptsIs, MembershipAt DEF Boxes!Tell, Boxes!Calls
  <2>4. QED
    BY <1>1, <2>3 DEF Boxes!DeliveryNext, Boxes!Delivery
<1>4. CASE ~ (to \in MembersOf(q) /\ ~ Blocks(q, to, p))
  <2>1. Boxes!Inquire("send", p, -1)
    BY <1>4, SendGoes, Inquires
  <2>2. Boxes!Tell(p, q, to)
    BY <1>1, <1>2, <1>4, <2>1, AcceptsIs, MembershipAt DEF Boxes!Tell, Boxes!Calls
  <2>3. QED
    BY <1>1, <2>2 DEF Boxes!DeliveryNext, Boxes!Delivery
<1>5. QED
  BY <1>3, <1>4

LEMMA BoxesBroadcast ==
    ASSUME CarefulMail, State, SlotsStay, NEW p \in Pid, NEW fd \in Fd, NEW q \in Queue,
           Broadcast(p, fd, q)
    PROVE  Boxes!DeliveryNext
<1>1. PICK ms : Deliver(p, q, ms) /\ Goes(ms, p, Hearers(q, p))
  BY BroadcastGoes
<1>2. p \in MembersOf(q)
  BY DEF Broadcast, Mailing, Through, CarefulMail, CarefulMembers, MembersOf
<1>3. reply'.call = "send" /\ reply'.to = p
  BY <1>1 DEF Deliver, Answer, Returns
<1>4. Hearers(q, p) = {r \in Pid \ {p} : Boxes!Accepts(q, r, p)}
  <2>1. \A r \in Pid \ {p} :
           Boxes!Accepts(q, r, p) <=> r \in MembersOf(q) /\ ~ Blocks(q, r, p)
    BY AcceptsIs
  <2>2. QED
    BY <2>1, Zenon DEF Hearers
<1>5. Hearers(q, p) \in SUBSET Pid
  BY DEF Hearers
<1>6. Boxes!Post(p, q, Hearers(q, p))
  BY <1>1, <1>5, BoxesPost
<1>7. Boxes!TellAll(p, q)
  BY <1>2, <1>3, <1>4, <1>6, MembershipAt DEF Boxes!TellAll, Boxes!Calls
<1>8. QED
  BY <1>7 DEF Boxes!DeliveryNext, Boxes!Delivery

\* The messages that wait for p are those in its mailbox.
LEMMA PendingBox ==
    ASSUME State, NEW p \in Pid, NEW q \in Queue
    PROVE  /\ Pending(q, p) = Addressed(buffer[q], p)
           /\ Mail[q][p] \in Seq(Pid) /\ Len(Mail[q][p]) = Cardinality(Pending(q, p))
           /\ Pending(q, p) = {} <=> Mail[q][p] = <<>>
           /\ Pending(q, p) # {} =>
                 Mail[q][p][1] = buffer[q][Min(Pending(q, p))].from
<1> DEFINE at == Addressed(buffer[q], p)
           box == BoxOf(buffer[q], p)
<1>1. Pending(q, p) = at
  BY Zenon DEF Pending, Addressed, State, BoxInv, NoneRead
<1>2. buffer[q] \in Seq(Message) /\ Mail[q][p] = box
  BY MailAt DEF State, MailType, BoxInv
<1>3. /\ box \in Seq(Pid) /\ Len(box) = Cardinality(at)
      /\ \A k \in 1 .. Cardinality(at) : box[k] = buffer[q][Nth(at, k)].from
  BY <1>2, BoxFacts
<1>4. at \in SUBSET Nat /\ IsFiniteSet(at) /\ Cardinality(at) \in Nat
  BY <1>2, AddressedFacts
<1>5. at = {} <=> Cardinality(at) = 0
  BY <1>4, FS_EmptySet
<1> HIDE DEF at, box
<1>6. at = {} <=> box = <<>>
  BY <1>3, <1>4, <1>5, EmptySeq
<1>7. at # {} => box[1] = buffer[q][Min(at)].from
  <2> SUFFICES ASSUME at # {} PROVE box[1] = buffer[q][Min(at)].from
    OBVIOUS
  <2>1. Nth(at, 1) = Min(at) /\ 1 \in 1 .. Cardinality(at)
    BY <1>4, NthFirst
  <2>2. QED
    BY <1>3, <2>1
<1>8. QED
  BY <1>1, <1>2, <1>3, <1>6, <1>7 DEF at, box

LEMMA BoxesRead ==
    ASSUME CarefulMail, State, SlotsStay, NEW p \in Pid, NEW fd \in Fd, NEW q \in Queue,
           Receive(p, fd, q) \/ GetMsgCount(p, fd, q)
    PROVE  Boxes!DeliveryNext
<1>1. p \in MembersOf(q) /\ UNCHANGED <<alive, pids, mailVars, blocked>>
  BY DEF Receive, GetMsgCount, MarkRead, Mailing, Through, CarefulMail, CarefulMembers,
         MembersOf, State, MailType, procVars, queueVars, mailVars
<1>2. UNCHANGED <<Membership, Mail, Refusals>> /\ p \in Membership[q]
  BY <1>1, SameMembership, SameMail, SameRefusals, MembershipAt DEF State
<1>3. CASE GetMsgCount(p, fd, q)
  <2>1. reply' = [call |-> "count", to |-> p, value |-> Len(Mail[q][p]), from |-> 0]
    BY <1>3, PendingBox DEF GetMsgCount, Answer, Returns
  <2>2. Boxes!Count(p, q)
    BY <1>1, <1>2, <2>1 DEF Boxes!Count, Boxes!Calls, Boxes!Inquire, Boxes!Answers
  <2>3. QED
    BY <2>2 DEF Boxes!DeliveryNext, Boxes!Delivery
<1>4. CASE Receive(p, fd, q)
  <2>1. CASE Pending(q, p) = {}
    <3>1. reply' = [call |-> "receive", to |-> p, value |-> 0, from |-> 0]
      BY <1>4, <2>1 DEF Receive, Answer, Returns
    <3>2. Mail[q][p] = <<>>
      BY <2>1, PendingBox
    <3>3. Boxes!Look(p, q)
      BY <1>1, <1>2, <3>1, <3>2 DEF Boxes!Look, Boxes!Hear, Boxes!Calls, Boxes!Answers
    <3>4. QED
      BY <3>3 DEF Boxes!DeliveryNext, Boxes!Delivery
  <2>2. CASE Pending(q, p) # {}
    <3>1. reply' = [call |-> "receive", to |-> p, value |-> 1,
                    from |-> buffer[q][Min(Pending(q, p))].from]
      BY <1>4, <2>2 DEF Receive, Returns
    <3>2. Mail[q][p] # <<>> /\ Mail[q][p] \in Seq(Pid)
          /\ Mail[q][p][1] = buffer[q][Min(Pending(q, p))].from
      BY <2>2, PendingBox
    <3>3. Head(Mail[q][p]) = buffer[q][Min(Pending(q, p))].from
      BY <3>2, HeadTailProperties
    <3>4. Boxes!Look(p, q)
      BY <1>1, <1>2, <3>1, <3>2, <3>3 DEF Boxes!Look, Boxes!Hear, Boxes!Calls, Boxes!Answers
    <3>5. QED
      BY <3>4 DEF Boxes!DeliveryNext, Boxes!Delivery
  <2>3. QED
    BY <2>1, <2>2
<1>5. QED
  BY <1>3, <1>4

LEMMA BoxesInfo ==
    ASSUME CarefulMail, State, SlotsStay, NEW p \in Pid, NEW fd \in Fd, NEW q \in Queue,
           GetMemberInfo(p, fd, q)
    PROVE  Boxes!DeliveryNext
<1> DEFINE slots == {s \in Slot : pids[q][s] # 0}
<1>1. p \in MembersOf(q) /\ WellKept(pids[q]) /\ pids[q] \in Members
  BY DEF GetMemberInfo, Through, CarefulMail, CarefulMembers, MembersOf,
         State, QueueInv, ListsKept, QueueType
<1>2. {pids[q][s] : s \in slots} = MembersOf(q)
  BY <1>1 DEF MembersOf, Member, SlotsOf, Members, Pid
<1>3. Cardinality({pids[q][s] : s \in slots}) = Cardinality(slots)
  <2>1. slots \in SUBSET Slot /\ \A s \in slots : pids[q][s] # 0
    OBVIOUS
  <2> HIDE DEF slots
  <2>2. QED
    BY <1>1, <2>1, SlotsCount
<1>4. Answer("info", p, Cardinality(slots)) /\ UNCHANGED <<procVars, queueVars>>
  BY DEF GetMemberInfo
<1> HIDE DEF slots
<1>5. Cardinality(slots) = Boxes!Cardinality(Membership[q])
  BY <1>2, <1>3, BoxesCardinality, MembershipAt
<1>6. Boxes!Inquire("info", p, Boxes!Cardinality(Membership[q]))
  BY <1>4, <1>5, Inquires
<1>7. reply'.call = "info" /\ reply'.to = p
  BY <1>4 DEF Answer, Returns
<1>8. Boxes!Info(p, q)
  BY <1>1, <1>6, <1>7, MembershipAt DEF Boxes!Info, Boxes!Calls
<1>9. QED
  BY <1>8 DEF Boxes!DeliveryNext, Boxes!Delivery

LEMMA BoxesBlock ==
    ASSUME CarefulMail, State, SlotsStay, NEW p \in Pid, NEW fd \in Fd, NEW q \in Queue,
           NEW r \in Named(p), Block(p, fd, q, r)
    PROVE  Boxes!DeliveryNext
<1>1. /\ r \in Pid /\ p \in MembersOf(q)
      /\ UNCHANGED <<procVars, created, refs, pids, mailVars, mangled>>
  BY BlockCases
<1>2. r \notin MembersOf(q) /\ Answer("block", p, -1) /\ UNCHANGED blocked
      => Boxes!Refuse(p, q, r)
  <2> SUFFICES ASSUME r \notin MembersOf(q), Answer("block", p, -1), UNCHANGED blocked
               PROVE  Boxes!Refuse(p, q, r)
    OBVIOUS
  <2>1. Boxes!Inquire("block", p, -1)
    BY <1>1, Inquires DEF queueVars
  <2>2. reply'.call = "block" /\ reply'.to = p
    BY DEF Answer, Returns
  <2>3. QED
    BY <1>1, <2>1, <2>2, MembershipAt DEF Boxes!Refuse, Boxes!Calls
<1>3. ASSUME r \in MembersOf(q), Answer("block", p, 0), NEW s \in Slot, NEW t \in Slot,
             SlotsOf(q, p) = {s}, SlotsOf(q, r) = {t},
             blocked' = [blocked EXCEPT ![q][s] = @ \cup {t}]
      PROVE  Boxes!Refuse(p, q, r)
  <2>1. UNCHANGED <<alive, Membership, Mail>>
    BY <1>1, SameMembership, SameMail DEF procVars, mailVars
  <2>2. pids[q][s] = p /\ pids[q][t] = r /\ pids' = pids
    BY <1>1, <1>3 DEF SlotsOf
  <2>3. \A x \in Queue, y \in Slot :
           blocked'[x][y] = IF x = q /\ y = s THEN blocked[x][y] \cup {t} ELSE blocked[x][y]
    BY <1>3 DEF State, MailType
  <2>4. ASSUME NEW x \in Queue, NEW a \in Pid, NEW b \in Pid
        PROVE  Blocks(x, a, b)' <=> Blocks(x, a, b) \/ (x = q /\ a = p /\ b = r)
    <3>1. Blocks(x, a, b) <=> \E y, z \in Slot :
                                pids[x][y] = a /\ pids[x][z] = b /\ z \in blocked[x][y]
      BY Zenon DEF Blocks, SlotsOf
    <3>2. Blocks(x, a, b)' <=> \E y, z \in Slot :
                                pids[x][y] = a /\ pids[x][z] = b /\ z \in blocked'[x][y]
      BY <2>2, Zenon DEF Blocks, SlotsOf
    <3>3. \A y, z \in Slot : z \in blocked'[x][y]
                             <=> z \in blocked[x][y] \/ (x = q /\ y = s /\ z = t)
      BY <2>3
    <3>4. QED
      BY <2>2, <3>1, <3>2, <3>3
  <2>5. ASSUME NEW x \in Queue
        PROVE  Refusals'[x] = IF x = q THEN Refusals[x] \cup {<<p, r>>} ELSE Refusals[x]
    <3>1. Refusals[x] = {pair \in Pid \X Pid : Blocks(x, pair[1], pair[2])}
      BY DEF Refusals
    <3>2. Refusals'[x] = {pair \in Pid \X Pid : Blocks(x, pair[1], pair[2])'}
      BY DEF Refusals
    <3>3. ASSUME NEW pair \in Pid \X Pid
          PROVE  Blocks(x, pair[1], pair[2])'
                 <=> Blocks(x, pair[1], pair[2]) \/ (x = q /\ pair = <<p, r>>)
      <4>1. pair[1] \in Pid /\ pair[2] \in Pid
            /\ (pair = <<p, r>> <=> pair[1] = p /\ pair[2] = r)
        BY <1>1
      <4>2. QED
        BY <2>4, <4>1, Zenon
    <3>4. <<p, r>> \in Pid \X Pid
      BY <1>1
    <3>5. QED
      BY <3>1, <3>2, <3>3, <3>4, Zenon
  <2>6. Refusals' = [Refusals EXCEPT ![q] = @ \cup {<<p, r>>}]
    <3>1. Refusals' = [x \in Queue |-> Refusals'[x]] /\ Refusals = [x \in Queue |-> Refusals[x]]
      BY DEF Refusals
    <3>2. QED
      BY <2>5, <3>1
  <2>7. reply' = [call |-> "block", to |-> p, value |-> 0, from |-> 0]
    BY <1>3 DEF Answer, Returns
  <2>8. QED
    BY <1>1, <1>3, <2>1, <2>6, <2>7, MembershipAt
       DEF Boxes!Refuse, Boxes!Calls, Boxes!Answers
<1>4. Boxes!Refuse(p, q, r)
  BY <1>2, <1>3, BlockCases
<1>5. QED
  BY <1>1, <1>4 DEF Boxes!DeliveryNext, Boxes!Delivery

LEMMA BoxesNext ==
    ASSUME CarefulMail, State, [Next]_vars
    PROVE  Boxes!DeliveryNext \/ UNCHANGED <<alive, Membership, Mail, Refusals, reply>>
<1>1. SlotsStay
  BY SlotsStayNext DEF State, CarefulMail
<1>2. UNCHANGED <<procVars, queueVars, reply>>
      => UNCHANGED <<alive, Membership, Mail, Refusals, reply>>
  BY <1>1, SameMembership, SameMail, SameRefusals DEF State, procVars, queueVars, mailVars
<1>3. ASSUME NEW p \in Pid, FileStep(p)
      PROVE  Boxes!DeliveryNext \/ UNCHANGED <<procVars, queueVars, reply>>
  <2>1. ASSUME NEW fd \in Fd, CloseFile(p, fd) PROVE FALSE
    BY <2>1 DEF CloseFile, CarefulMail, CarefulMembers
  <2>2. CASE CreateMsgQueue(p)
    BY <1>1, <2>2, BoxesCreate
  <2>3. CASE OpenFile(p) \/ \E fd \in Fd : NotAQueue(p, fd)
    BY <1>1, <2>3, BoxesFile
  <2>4. CASE TableFull(p) \/ Dangling(p)
             \/ \E fd \in Fd : Astray(p, fd) \/ CloseUnopened(p, fd)
    BY <2>4, Zenon DEF TableFull, Dangling, Astray, CloseUnopened, Fails
  <2>5. QED
    BY <1>3, <2>1, <2>2, <2>3, <2>4, Zenon DEF FileStep
<1>4. ASSUME NEW p \in Pid, NEW fd \in Fd, NEW q \in Queue, MailStep(p, fd, q)
      PROVE  Boxes!DeliveryNext \/ UNCHANGED <<procVars, queueVars, reply>>
  <2>1. CASE Overflow(p, fd, q)
    BY <2>1 DEF Overflow, Fails
  <2>2. QED
    BY <1>1, <1>4, <2>1, BoxesBroadcast, BoxesSend, BoxesRead DEF MailStep
<1>5. ASSUME NEW p \in Pid, NEW fd \in Fd, NEW q \in Queue, MemberStep(p, fd, q)
      PROVE  Boxes!DeliveryNext
  <2>1. ~ MsgQueueClose(p, fd, q) /\ ~ CloseStranger(p, fd, q)
    BY DEF MsgQueueClose, CloseStranger, Through, CarefulMail, CarefulMembers
  <2>2. QED
    BY <1>1, <1>5, <2>1, BoxesInfo, BoxesBlock DEF MemberStep
<1>6. ASSUME NEW p \in Pid, Exit(p) PROVE FALSE
  BY <1>6 DEF Exit, CarefulMail, CarefulMembers
<1>7. ASSUME NEW p \in Pid, Fork(p) PROVE Boxes!DeliveryNext
  BY <1>1, <1>7, BoxesFork
<1>8. CASE UNCHANGED vars
  BY <1>2, <1>8 DEF vars
<1>9. CASE Next
  BY <1>2, <1>3, <1>4, <1>5, <1>6, <1>7, <1>9, Zenon DEF Next
<1>10. QED
  BY <1>8, <1>9

\* However many processes, queues and slots there are: when nobody leaves a queue
\* or closes a file, nobody addresses the process 0, and a queue has room for every
\* process, a queue is to its members a mailbox each.  msg_queue_send reaches those
\* addressed that have not blocked the sender, and neither the slots, the buffer
\* that all share nor the matrix ever shows.  That receive takes the message it
\* answers with is not said: the code breaks that.
THEOREM MailIsDelivered == CarefulMail => (Spec => DeliversMail)
<1> SUFFICES ASSUME CarefulMail PROVE Spec => DeliversMail
  OBVIOUS
<1>1. Init => Boxes!Init
  <2> SUFFICES ASSUME Init PROVE Boxes!Init
    OBVIOUS
  <2>1. \A q \in Queue : MembersOf(q) = {}
    BY DEF Init, MembersOf, Member, SlotsOf, Pid
  <2>2. \A q \in Queue, p \in Pid : BoxOf(buffer[q], p) = <<>>
    <3> SUFFICES ASSUME NEW p \in Pid PROVE BoxOf(<<>>, p) = <<>>
      BY DEF Init
    <3>1. <<>> \in Seq(Message)
      BY EmptySeq
    <3>2. Addressed(<<>>, p) = {}
      BY DEF Addressed
    <3>3. Cardinality(Addressed(<<>>, p)) = 0
      BY <3>2, FS_EmptySet
    <3>4. QED
      BY <3>1, <3>3, BoxFacts, EmptySeq
  <2>3. \A q \in Queue, a, b \in Pid : ~ Blocks(q, a, b)
    BY DEF Init, Blocks, SlotsOf
  <2>4. Membership = [q \in Queue |-> {}]
    BY <2>1 DEF Membership
  <2>5. Mail = [q \in Queue |-> [p \in Pid |-> <<>>]]
    <3>1. NoneRead
      BY DEF Init, NoneRead
    <3>2. QED
      BY <2>2, <3>1, MailIs
  <2>6. Refusals = [q \in Queue |-> {}]
    BY <2>3 DEF Refusals
  <2>7. alive = {InitPid} /\ InitPid \in Pid
        /\ reply = [call |-> "none", to |-> 0, value |-> 0, from |-> 0]
    BY QueueAssumption DEF Init, InitPid, Pid
  <2>8. QED
    BY <2>4, <2>5, <2>6, <2>7 DEF Boxes!Init
<1>2. State /\ [Next]_vars => [Boxes!DeliveryNext]_<<alive, Membership, Mail, Refusals, reply>>
  BY BoxesNext
<1>3. Init => State
  BY QueueInvInit, HoldInvInit, MailTypesInit, BoxInvInit DEF State
<1>4. State /\ [Next]_vars => State'
  <2> SUFFICES ASSUME State, [Next]_vars PROVE State'
    OBVIOUS
  <2>1. QueueInv' /\ HoldInv' /\ MailType'
    BY QueueInvNext, HoldInvNext, MailTypesNext DEF State, CarefulMail
  <2>2. QED
    BY <2>1, BoxInvNext DEF State
<1>5. QED
  BY <1>1, <1>2, <1>3, <1>4, PTL DEF Spec, DeliversMail, Boxes!DeliverySpec, Boxes!vars
=============================================================================
