--------------------------- MODULE DebuggerProofs ---------------------------
(***************************************************************************)
(* Proofs about the debugger, for every program text and every number of   *)
(* functions and breakpoints: who has control, in every use of the system  *)
(* calls; then the patched code segment, for a debugger that does not edit *)
(* the function its child is stopped at and whose sets succeed; then what  *)
(* do_backtrace reads, in every use.                                       *)
(***************************************************************************)
EXTENDS DebuggerProperties, Orders, SequenceTheorems, TLAPS

(***************************************************************************)
(* pick_next_context.                                                      *)
(***************************************************************************)
\* The only READY user context is the one pick_next_context returns.
LEMMA PickOnly ==
    ASSUME NEW st \in [Pid -> ProcessState], NEW p \in Pid, NEW r \in UserPid,
           st[r] = "READY", \A s \in UserPid \ {r} : st[s] # "READY"
    PROVE  PickNext(st, p) = r
<1> DEFINE above == ReadyIn(st, p + 1 .. MAX_PROCESSES - 1)
           below == ReadyIn(st, 1 .. p)
<1>1. /\ above \subseteq {r} /\ below \subseteq {r}
      /\ r \in above \cup below
  BY ContextsAssumption DEF ReadyIn, Pid, UserPid, Swapper
<1>2. {r} \in SUBSET Nat
  BY ContextsAssumption DEF Pid, UserPid
<1>3. Min({r}) = r
  BY <1>2, MinInSet
<1>4. CASE above # {}
  BY <1>1, <1>3, <1>4 DEF PickNext
<1>5. CASE above = {}
  BY <1>1, <1>3, <1>5 DEF PickNext
<1>6. QED
  BY <1>4, <1>5

\* With no user context READY the swapper is returned.
LEMMA PickNone ==
    ASSUME NEW st \in [Pid -> ProcessState], NEW p \in Pid,
           \A s \in UserPid : st[s] # "READY"
    PROVE  PickNext(st, p) = Swapper
  BY ContextsAssumption DEF PickNext, ReadyIn, Pid, UserPid, Swapper
-----------------------------------------------------------------------------
(***************************************************************************)
(* Types and the alternation of control.  The inductive invariant says     *)
(* whose turn it is: who may run, who waits, and who owns the processor.   *)
(***************************************************************************)
Runnable == {"READY", "RUNNING"}

\* Where the child's program counter can be: from an entry to a body.
Points == {a \in Addr : \E f \in Funcs \cup {Main} : a \in f .. Body(f)}

DebuggerTurn ==
    /\ state[CHILD] \in {"UNUSED", "WAITING"} /\ ticks[CHILD] = 0
    /\ \/ cur = DBG /\ state[DBG] \in Runnable /\ ticks[DBG] = 0
       \/ cur = Swapper /\ state[DBG] = "WAITING" /\ ticks[DBG] > 0

ChildTurn ==
    /\ rip # 0
    /\ state[DBG] = "WAITING" /\ ticks[DBG] = 0
    /\ \/ cur = CHILD /\ state[CHILD] \in Runnable /\ ticks[CHILD] = 0
       \/ cur = Swapper /\ state[CHILD] = "WAITING" /\ ticks[CHILD] > 0

SessionOver == cur = DBG /\ state[DBG] = "UNUSED"

NobodyElse == \A p \in UserPid \ {DBG, CHILD} : state[p] = "UNUSED"

\* The scheduler's variables ...
SchedOK ==
    /\ cur \in {Swapper, DBG, CHILD}
    /\ state \in [Pid -> ProcessState]
    /\ ticks \in [Pid -> Nat]
    /\ NobodyElse
    /\ DebuggerTurn \/ ChildTurn \/ SessionOver

\* ... and all the others.
DataOK ==
    /\ dbg \in BOOLEAN
    /\ head \in Seq(Breakpoint)
    /\ num \in Nat
    /\ next \in Byte
    /\ backtrace \in Seq(Nat)
    /\ code \in [Addr -> Byte]
    /\ rip \in Points \cup {0}
    /\ stack \in Seq(Bodies)
    /\ rax \in Int
    /\ fault \in {"none", "null", "overrun", "derailed"}

TurnInv == SchedOK /\ DataOK

\* The turns exclude each other, which is the alternation of control.
LEMMA TurnsAlternate == SchedOK => ControlAlternates
  BY ContextsAssumption DEF SchedOK, DebuggerTurn, ChildTurn, SessionOver,
     ControlAlternates, Awake, Runnable, DBG, CHILD, Swapper, Pid

LEMMA PidFacts ==
    /\ {Swapper, DBG, CHILD} \subseteq Pid
    /\ {DBG, CHILD} \subseteq UserPid /\ UserPid \subseteq Pid
    /\ Swapper \notin UserPid
    /\ DBG # CHILD /\ DBG # Swapper /\ CHILD # Swapper
  BY ContextsAssumption DEF Swapper, DBG, CHILD, Pid, UserPid

LEMMA PointFacts ==
    /\ Bodies \subseteq Points /\ Funcs \subseteq Points
    /\ Points \subseteq Nat \ {0} /\ Points \subseteq Addr
    /\ \A a \in Points : a + 1 \in Addr
    /\ \A a \in Points \ Bodies : a + 1 \in Points
    /\ Body(Main) \in Bodies
<1>1. \A f \in Funcs \cup {Main} : f \in Nat \ {0} /\ f .. f + 3 \subseteq Addr
  BY TextAssumption
<1>2. \A f \in Funcs \cup {Main} : f \in Addr /\ f + 1 \in Addr /\ f + 2 \in Addr
                                 /\ f + 3 \in Addr
  BY <1>1
<1>3. \A a \in Points :
        \E f \in Funcs \cup {Main} : a = f \/ a = f + 1 \/ a = f + 2
  BY <1>1 DEF Points, Body
<1>4. Points \subseteq Nat \ {0} /\ Points \subseteq Addr
  BY <1>1, <1>3 DEF Points
<1>5. \A f \in Funcs \cup {Main} : f \in Points /\ f + 1 \in Points /\ f + 2 \in Points
  BY <1>1, <1>2 DEF Points, Body
<1>6. \A a \in Points : a + 1 \in Addr
  BY <1>1, <1>2, <1>3
<1>7. \A a \in Points \ Bodies : a + 1 \in Points
  BY <1>1, <1>3, <1>5 DEF Bodies, Body
<1>8. QED
  BY <1>4, <1>5, <1>6, <1>7 DEF Bodies, Body

LEMMA TurnTypes == TurnInv => TypeOK
<1> SUFFICES ASSUME TurnInv PROVE TypeOK
  OBVIOUS
<1>1. Bodies \subseteq Nat /\ rip \in Nat
  BY PointFacts DEF TurnInv, DataOK
<1>2. stack \in Seq(Nat)
  BY <1>1, SeqMonotonic DEF TurnInv, DataOK
<1>3. QED
  BY <1>1, <1>2, Zenon DEF TurnInv, SchedOK, DataOK, TypeOK

LEMMA TurnInit == Init => TurnInv
<1> SUFFICES ASSUME Init PROVE TurnInv
  OBVIOUS
<1>1. /\ cur \in {Swapper, DBG, CHILD}
      /\ state \in [Pid -> ProcessState] /\ ticks \in [Pid -> Nat]
  BY DEF Init, ProcessState
<1>2. NobodyElse /\ DebuggerTurn
  BY PidFacts DEF Init, NobodyElse, DebuggerTurn, Runnable
<1>3. SchedOK
  BY <1>1, <1>2 DEF SchedOK
<1>4. head \in Seq(Breakpoint) /\ backtrace \in Seq(Nat) /\ stack \in Seq(Bodies)
  BY DEF Init
<1>5. code \in [Addr -> Byte] /\ next \in Byte
  BY TextAssumption DEF Init, Byte
<1>6. dbg \in BOOLEAN
  BY Zenon DEF Init
<1>7. /\ num \in Nat /\ rip \in Points \cup {0} /\ rax \in Int
      /\ fault \in {"none", "null", "overrun", "derailed"}
  BY DEF Init
<1>8. DataOK
  BY <1>4, <1>5, <1>6, <1>7, Zenon DEF DataOK
<1>9. QED
  BY <1>3, <1>8 DEF TurnInv

(***************************************************************************)
(* Scheduling steps.                                                       *)
(***************************************************************************)
\* A step that leaves the context table and the child's existence alone.
LEMMA SchedFrame ==
    ASSUME SchedOK, UNCHANGED schedVars, rip # 0 => rip' # 0
    PROVE  SchedOK'
  BY DEF SchedOK, schedVars, NobodyElse, DebuggerTurn, ChildTurn, SessionOver

\* What a tick makes of the context table before it dispatches.
LEMMA TickTable ==
    ASSUME SchedOK, InUser(cur),
           NEW st, st = [WakeSleepers(state, ticks) EXCEPT ![cur] = "READY"],
           NEW tk, tk = TicksAfterTick(state, ticks)
    PROVE  /\ st \in [Pid -> ProcessState] /\ tk \in [Pid -> Nat] /\ cur \in Pid
           /\ \A p \in Pid :
                 /\ st[p] = IF p = cur \/ (state[p] = "WAITING" /\ ticks[p] = 1)
                            THEN "READY" ELSE state[p]
                 /\ tk[p] = IF state[p] = "WAITING" /\ ticks[p] > 0
                            THEN ticks[p] - 1 ELSE ticks[p]
<1>1. /\ state \in [Pid -> ProcessState] /\ ticks \in [Pid -> Nat]
      /\ cur \in Pid
  BY PidFacts DEF SchedOK
<1>2. /\ tk \in [Pid -> Nat]
      /\ \A p \in Pid : tk[p] = IF state[p] = "WAITING" /\ ticks[p] > 0
                                THEN ticks[p] - 1 ELSE ticks[p]
  BY <1>1 DEF TicksAfterTick, Sleeping
<1>3. /\ st \in [Pid -> ProcessState]
      /\ \A p \in Pid :
            st[p] = IF p = cur \/ (state[p] = "WAITING" /\ ticks[p] = 1)
                    THEN "READY" ELSE state[p]
  BY <1>1 DEF WakeSleepers, Sleeping, ProcessState
<1>4. QED
  BY <1>1, <1>2, <1>3

\* A dispatch that finds one user context READY, or none.
LEMMA DispatchOne ==
    ASSUME NEW st \in [Pid -> ProcessState], NEW p \in Pid, NEW r \in {DBG, CHILD},
           NEW o \in {DBG, CHILD}, r # o, st[r] = "READY", st[o] # "READY",
           \A s \in UserPid \ {DBG, CHILD} : st[s] = "UNUSED"
    PROVE  PickNext(st, p) = r
<1>1. r \in UserPid
  BY PidFacts
<1>2. \A s \in UserPid \ {r} : st[s] # "READY"
  OBVIOUS
<1>3. QED
  BY <1>1, <1>2, PickOnly

LEMMA DispatchNone ==
    ASSUME NEW st \in [Pid -> ProcessState], NEW p \in Pid,
           st[DBG] # "READY", st[CHILD] # "READY",
           \A s \in UserPid \ {DBG, CHILD} : st[s] = "UNUSED"
    PROVE  PickNext(st, p) = Swapper
<1>1. \A s \in UserPid : st[s] # "READY"
  OBVIOUS
<1>2. QED
  BY <1>1, PickNone

\* A tick passes no turn on.
LEMMA SchedTick ==
    ASSUME SchedOK, Tick
    PROVE  SchedOK' /\ (ChildTurn => ChildTurn') /\ (DebuggerTurn => DebuggerTurn')
<1> DEFINE st == [WakeSleepers(state, ticks) EXCEPT ![cur] = "READY"]
           q  == PickNext(st, cur)
<1>1. /\ InUser(cur) /\ rip' = rip /\ ticks' = TicksAfterTick(state, ticks)
      /\ IF q = cur THEN state' = st /\ cur' = cur
                    ELSE cur' = q /\ state' = [st EXCEPT ![q] = "RUNNING"]
  BY DEF Tick, Schedule, childVars
<1>2. /\ st \in [Pid -> ProcessState] /\ ticks' \in [Pid -> Nat] /\ cur \in Pid
      /\ \A p \in Pid :
            /\ st[p] = IF p = cur \/ (state[p] = "WAITING" /\ ticks[p] = 1)
                       THEN "READY" ELSE state[p]
            /\ ticks'[p] = IF state[p] = "WAITING" /\ ticks[p] > 0
                           THEN ticks[p] - 1 ELSE ticks[p]
  BY <1>1, TickTable
<1> HIDE DEF st, q
<1>3. /\ ticks[DBG] \in Nat /\ ticks[CHILD] \in Nat
      /\ cur \in {Swapper, DBG, CHILD}
  BY PidFacts DEF SchedOK
<1>4. \A s \in UserPid \ {DBG, CHILD} : st[s] = "UNUSED"
  <2> SUFFICES ASSUME NEW s \in UserPid \ {DBG, CHILD} PROVE st[s] = "UNUSED"
    OBVIOUS
  <2>1. s \in Pid /\ s # cur /\ state[s] = "UNUSED"
    BY PidFacts, <1>3 DEF SchedOK, NobodyElse
  <2>2. QED
    BY <1>2, <2>1
<1>5. ASSUME q \in {Swapper, DBG, CHILD}
      PROVE  /\ cur' = q /\ state' \in [Pid -> ProcessState] /\ NobodyElse'
             /\ \A p \in Pid : state'[p] = st[p] \/ (p = q /\ state'[p] = "RUNNING")
  <2>1. /\ cur' = q /\ state' \in [Pid -> ProcessState]
        /\ \A p \in Pid : state'[p] = st[p] \/ (p = q /\ state'[p] = "RUNNING")
    BY <1>1, <1>2, <1>5, PidFacts DEF ProcessState
  <2>2. NobodyElse'
    BY <1>4, <1>5, <2>1, PidFacts DEF NobodyElse
  <2>3. QED
    BY <2>1, <2>2
<1>6. /\ DebuggerTurn \/ ChildTurn
      /\ ~ (DebuggerTurn /\ ChildTurn)
  BY <1>1, PidFacts DEF SchedOK, SessionOver, InUser, DebuggerTurn, ChildTurn, Runnable
<1>7. CASE DebuggerTurn /\ ~ChildTurn
  <2>1. /\ st[CHILD] = state[CHILD] /\ st[CHILD] \in {"UNUSED", "WAITING"}
        /\ ticks'[CHILD] = 0
    BY <1>2, <1>3, <1>7, PidFacts DEF DebuggerTurn
  <2>2. CASE cur = DBG \/ ticks[DBG] = 1
    <3>1. st[DBG] = "READY" /\ ticks'[DBG] = 0
      BY <1>2, <1>3, <1>7, <2>2, PidFacts DEF DebuggerTurn, Runnable
    <3>2. q = DBG
      BY <1>2, <1>4, <2>1, <3>1, PidFacts, DispatchOne DEF q
    <3>3. DebuggerTurn'
      BY <1>5, <2>1, <3>1, <3>2, PidFacts DEF DebuggerTurn, Runnable
    <3>4. QED
      BY <1>2, <1>5, <1>7, <3>2, <3>3 DEF SchedOK
  <2>3. CASE cur = Swapper /\ ticks[DBG] > 1
    <3>1. st[DBG] = "WAITING" /\ ticks'[DBG] > 0
      BY <1>2, <1>3, <1>7, <2>3, PidFacts DEF DebuggerTurn
    <3>2. q = Swapper
      BY <1>2, <1>4, <2>1, <3>1, PidFacts, DispatchNone DEF q
    <3>3. DebuggerTurn'
      BY <1>5, <2>1, <3>1, <3>2, PidFacts DEF DebuggerTurn
    <3>4. QED
      BY <1>2, <1>5, <1>7, <3>2, <3>3 DEF SchedOK
  <2>4. QED
    BY <1>3, <1>7, <2>2, <2>3 DEF DebuggerTurn
<1>8. CASE ChildTurn /\ ~DebuggerTurn
  <2>1. st[DBG] = "WAITING" /\ ticks'[DBG] = 0 /\ rip' # 0
    BY <1>1, <1>2, <1>3, <1>8, PidFacts DEF ChildTurn
  <2>2. CASE cur = CHILD \/ ticks[CHILD] = 1
    <3>1. st[CHILD] = "READY" /\ ticks'[CHILD] = 0
      BY <1>2, <1>3, <1>8, <2>2, PidFacts DEF ChildTurn, Runnable
    <3>2. q = CHILD
      BY <1>2, <1>4, <2>1, <3>1, PidFacts, DispatchOne DEF q
    <3>3. ChildTurn'
      BY <1>5, <2>1, <3>1, <3>2, PidFacts DEF ChildTurn, Runnable
    <3>4. QED
      BY <1>2, <1>5, <1>8, <3>2, <3>3 DEF SchedOK
  <2>3. CASE cur = Swapper /\ ticks[CHILD] > 1
    <3>1. st[CHILD] = "WAITING" /\ ticks'[CHILD] > 0
      BY <1>2, <1>3, <1>8, <2>3, PidFacts DEF ChildTurn
    <3>2. q = Swapper
      BY <1>2, <1>4, <2>1, <3>1, PidFacts, DispatchNone DEF q
    <3>3. ChildTurn'
      BY <1>5, <2>1, <3>1, <3>2, PidFacts DEF ChildTurn
    <3>4. QED
      BY <1>2, <1>5, <1>8, <3>2, <3>3 DEF SchedOK
  <2>4. QED
    BY <1>3, <1>8, <2>2, <2>3 DEF ChildTurn
<1>9. QED
  BY <1>6, <1>7, <1>8

LEMMA SchedSleep ==
    ASSUME SchedOK, NEW p \in {DBG, CHILD}, NEW n \in SleepTicks, Sleep(p, n)
    PROVE  SchedOK'
<1> DEFINE st == [state EXCEPT ![p] = "WAITING"]
           q  == PickNext(st, p)
<1>1. /\ cur = p /\ state[p] \in Runnable /\ rip' = rip
      /\ ticks' = [ticks EXCEPT ![p] = n] /\ n \in Nat \ {0}
      /\ cur' = q /\ state' = [st EXCEPT ![q] = "RUNNING"]
  BY BoundsAssumption DEF Sleep, InUser, YieldAs, Schedule, childVars, Runnable
<1>2. /\ st \in [Pid -> ProcessState] /\ ticks' \in [Pid -> Nat] /\ p \in Pid
      /\ \A s \in UserPid \ {DBG, CHILD} : st[s] = "UNUSED"
      /\ st[p] = "WAITING" /\ ticks'[p] > 0
      /\ \A s \in Pid \ {p} : st[s] = state[s] /\ ticks'[s] = ticks[s]
  BY <1>1, PidFacts DEF SchedOK, ProcessState, NobodyElse
<1> HIDE DEF st, q
<1>3. \/ p = DBG /\ DebuggerTurn
      \/ p = CHILD /\ ChildTurn
  BY <1>1, PidFacts DEF SchedOK, DebuggerTurn, ChildTurn, SessionOver, Runnable
<1>4. st[DBG] # "READY" /\ st[CHILD] # "READY"
  BY <1>2, <1>3, PidFacts DEF DebuggerTurn, ChildTurn
<1>5. q = Swapper
  BY <1>2, <1>4, DispatchNone DEF q
<1>6. /\ cur' = Swapper /\ state' \in [Pid -> ProcessState]
      /\ \A s \in UserPid : state'[s] = st[s]
  BY <1>1, <1>2, <1>5, PidFacts DEF ProcessState
<1>7. NobodyElse'
  BY <1>2, <1>6 DEF NobodyElse
<1>8. DebuggerTurn' \/ ChildTurn'
  BY <1>1, <1>2, <1>3, <1>6, PidFacts DEF DebuggerTurn, ChildTurn
<1>9. QED
  BY <1>2, <1>6, <1>7, <1>8 DEF SchedOK

\* A process in user mode is the one whose turn it is.
LEMMA UserTurn ==
    ASSUME SchedOK
    PROVE  /\ InUser(DBG)   => /\ cur = DBG /\ DebuggerTurn
                               /\ state[DBG] \in Runnable /\ ticks[DBG] = 0
           /\ InUser(CHILD) => /\ cur = CHILD /\ ChildTurn
                               /\ state[CHILD] \in Runnable /\ ticks[CHILD] = 0
  BY PidFacts DEF SchedOK, InUser, DebuggerTurn, ChildTurn, SessionOver, Runnable

LEMMA SchedFork == ASSUME SchedOK, Fork PROVE SchedOK'
<1>1. /\ cur' = cur /\ rip' = Body(Main)
      /\ state' = [state EXCEPT ![CHILD] = "WAITING"]
      /\ ticks' = [ticks EXCEPT ![CHILD] = ticks[DBG]]
      /\ cur = DBG /\ DebuggerTurn
      /\ state[DBG] \in Runnable /\ ticks[DBG] = 0
  BY UserTurn DEF Fork, ForkState
<1>2. /\ state' \in [Pid -> ProcessState] /\ ticks' \in [Pid -> Nat]
      /\ NobodyElse' /\ cur' \in {Swapper, DBG, CHILD}
  BY <1>1, PidFacts DEF SchedOK, ProcessState, NobodyElse
<1>3. DebuggerTurn'
  BY <1>1, PidFacts DEF SchedOK, DebuggerTurn
<1>4. QED
  BY <1>2, <1>3 DEF SchedOK

LEMMA SchedContinue == ASSUME SchedOK, WaitAndContinue PROVE SchedOK'
<1>1. /\ cur' = CHILD /\ rip' # 0 /\ ticks' = ticks
      /\ state' = [[state EXCEPT ![DBG] = "WAITING"] EXCEPT ![CHILD] = "RUNNING"]
      /\ cur = DBG /\ DebuggerTurn /\ ticks[DBG] = 0
  BY UserTurn DEF WaitAndContinue, Schedule, childVars
<1>2. /\ state' \in [Pid -> ProcessState] /\ ticks' \in [Pid -> Nat]
      /\ NobodyElse' /\ cur' \in {Swapper, DBG, CHILD}
  BY <1>1, PidFacts DEF SchedOK, ProcessState, NobodyElse
<1>3. ChildTurn'
  BY <1>1, PidFacts DEF SchedOK, DebuggerTurn, ChildTurn, Runnable
<1>4. QED
  BY <1>2, <1>3 DEF SchedOK

LEMMA SchedChildExit == ASSUME SchedOK, ChildExit PROVE SchedOK'
<1> DEFINE st == [state EXCEPT ![DBG] = "READY", ![CHILD] = "UNUSED"]
           q  == PickNext(st, CHILD)
<1>1. /\ cur' = q /\ state' = [st EXCEPT ![q] = "RUNNING"]
      /\ ticks' = ticks /\ ChildTurn /\ ticks[CHILD] = 0
  BY UserTurn DEF ChildExit, InBody, Schedule
<1>2. /\ st \in [Pid -> ProcessState] /\ CHILD \in Pid
      /\ st[DBG] = "READY" /\ st[CHILD] = "UNUSED"
      /\ \A s \in UserPid \ {DBG, CHILD} : st[s] = "UNUSED"
  BY PidFacts DEF SchedOK, ProcessState, NobodyElse
<1> HIDE DEF st, q
<1>3. q = DBG
  BY <1>2, DispatchOne, PidFacts DEF q
<1>4. /\ state' \in [Pid -> ProcessState] /\ ticks' \in [Pid -> Nat]
      /\ NobodyElse' /\ cur' \in {Swapper, DBG, CHILD}
  BY <1>1, <1>2, <1>3, PidFacts DEF SchedOK, ProcessState, NobodyElse
<1>5. DebuggerTurn'
  BY <1>1, <1>2, <1>3, PidFacts DEF DebuggerTurn, ChildTurn, Runnable
<1>6. QED
  BY <1>4, <1>5 DEF SchedOK

LEMMA SchedDebuggerExit == ASSUME SchedOK, DebuggerExit PROVE SchedOK'
<1>1. /\ cur' = cur /\ ticks' = ticks /\ cur = DBG
      /\ state' = [state EXCEPT ![DBG] = "UNUSED",
                                ![Swapper] = IF dbg THEN @ ELSE "READY"]
  BY UserTurn DEF DebuggerExit
<1>2. /\ state' \in [Pid -> ProcessState] /\ ticks' \in [Pid -> Nat]
      /\ NobodyElse' /\ cur' \in {Swapper, DBG, CHILD}
  BY <1>1, PidFacts DEF SchedOK, ProcessState, NobodyElse
<1>3. SessionOver'
  BY <1>1, PidFacts DEF SchedOK, SessionOver
<1>4. QED
  BY <1>2, <1>3 DEF SchedOK

LEMMA SchedFinishStep == ASSUME SchedOK, FinishStep PROVE SchedOK'
<1>1. /\ cur' = CHILD /\ ticks' = ticks /\ rip' = rip
      /\ state' = [state EXCEPT ![CHILD] = "RUNNING"]
      /\ ChildTurn /\ ticks[CHILD] = 0
  BY UserTurn DEF FinishStep, Trapped, Schedule, childVars
<1>2. /\ state' \in [Pid -> ProcessState] /\ ticks' \in [Pid -> Nat]
      /\ NobodyElse' /\ cur' \in {Swapper, DBG, CHILD}
  BY <1>1, PidFacts DEF SchedOK, ProcessState, NobodyElse
<1>3. ChildTurn'
  BY <1>1, PidFacts DEF SchedOK, ChildTurn, Runnable
<1>4. QED
  BY <1>2, <1>3 DEF SchedOK

LEMMA SchedStopChild == ASSUME SchedOK, StopChild PROVE SchedOK'
<1>1. /\ cur' = DBG /\ ticks' = ticks
      /\ state' = [[state EXCEPT ![CHILD] = "WAITING"] EXCEPT ![DBG] = "RUNNING"]
      /\ ChildTurn /\ ticks[CHILD] = 0
  BY UserTurn DEF StopChild, Trapped, Schedule
<1>2. /\ state' \in [Pid -> ProcessState] /\ ticks' \in [Pid -> Nat]
      /\ NobodyElse' /\ cur' \in {Swapper, DBG, CHILD}
  BY <1>1, PidFacts DEF SchedOK, ProcessState, NobodyElse
<1>3. DebuggerTurn'
  BY <1>1, PidFacts DEF SchedOK, DebuggerTurn, ChildTurn, Runnable
<1>4. QED
  BY <1>2, <1>3 DEF SchedOK

LEMMA SchedStutter == ASSUME SchedOK, UNCHANGED vars PROVE SchedOK'
  BY SchedFrame DEF vars, schedVars, childVars

\* The steps of the child that stay in its own code.
LEMMA SchedChildRuns ==
    ASSUME SchedOK, DataOK,
           \/ \E g \in Funcs : Call(g)
           \/ Return \/ Execute \/ Derail
    PROVE  SchedOK'
<1>1. UNCHANGED schedVars
  BY Zenon DEF Call, Return, Execute, Derail
<1>2. CASE \E g \in Funcs : Call(g)
  BY <1>1, <1>2, SchedFrame, PointFacts DEF Call
<1>3. CASE Return
  <2>1. stack \in Seq(Bodies) /\ stack # <<>> /\ rip' = Last(stack)
    BY <1>3 DEF Return, DataOK
  <2>2. rip' \in Bodies
    BY <2>1 DEF Last
  <2>3. QED
    BY <1>1, <2>2, SchedFrame, PointFacts
<1>4. CASE Execute
  <2>1. rip \in Points \cup {0} /\ rip' = rip + 1
    BY <1>4 DEF Execute, DataOK
  <2>2. QED
    BY <1>1, <2>1, SchedFrame, PointFacts
<1>5. CASE Derail
  BY <1>1, <1>5, SchedFrame DEF Derail, childVars
<1>6. QED
  BY <1>2, <1>3, <1>4, <1>5

\* The calls that keep the processor.
LEMMA SchedReturns == ASSUME SchedOK, NEW r, Returns(r) PROVE SchedOK'
  BY SchedFrame DEF Returns, childVars

(***************************************************************************)
(* Data types.                                                             *)
(***************************************************************************)
LEMMA Opcodes == PUSHRBP_OPCODE \in Byte /\ INT3_OPCODE \in Byte
  BY DEF PUSHRBP_OPCODE, INT3_OPCODE, Byte

\* Bodies of list entries and code bytes that a breakpoint edit leaves.
LEMMA RemovedEntry ==
    ASSUME NEW S, NEW s \in Seq(S), NEW i \in DOMAIN s
    PROVE  /\ RemoveAt(s, i) \in Seq(S)
           /\ Len(RemoveAt(s, i)) = Len(s) - 1
           /\ \A j \in 1 .. Len(s) - 1 :
                 RemoveAt(s, i)[j] = IF j < i THEN s[j] ELSE s[j + 1]
<1>1. i \in 1 .. Len(s) /\ Len(s) \in Nat
  BY LenProperties
<1> DEFINE a == SubSeq(s, 1, i - 1)
           b == SubSeq(s, i + 1, Len(s))
           c == a \o b
<1>2. /\ a \in Seq(S) /\ Len(a) = i - 1
      /\ \A j \in 1 .. i - 1 : a[j] = s[j]
  BY <1>1, SubSeqProperties
<1>3. /\ b \in Seq(S) /\ Len(b) = Len(s) - i
      /\ \A j \in 1 .. Len(s) - i : b[j] = s[i + j]
  BY <1>1, SubSeqProperties
<1> HIDE DEF a, b
<1>4. /\ c \in Seq(S) /\ Len(c) = Len(a) + Len(b)
      /\ \A j \in 1 .. Len(a) + Len(b) : c[j] = IF j <= Len(a) THEN a[j] ELSE b[j - Len(a)]
  BY <1>2, <1>3, ConcatProperties
<1>5. RemoveAt(s, i) = c
  BY DEF RemoveAt, a, b
<1> HIDE DEF c
<1>6. Len(c) = Len(s) - 1
  BY <1>1, <1>2, <1>3, <1>4
<1>7. ASSUME NEW j \in 1 .. Len(s) - 1
      PROVE  c[j] = IF j < i THEN s[j] ELSE s[j + 1]
  <2>1. i \in Nat /\ j \in Nat /\ i >= 1 /\ j >= 1 /\ j <= Len(s) - 1
    BY <1>1
  <2>2. j \in 1 .. Len(a) + Len(b)
    BY <1>1, <1>2, <1>3, <2>1
  <2>3. c[j] = IF j <= i - 1 THEN a[j] ELSE b[j - (i - 1)]
    BY <1>2, <1>4, <2>2
  <2>4. CASE j < i
    BY <1>1, <1>2, <2>1, <2>3, <2>4
  <2>5. CASE j >= i
    <3>1. /\ j - (i - 1) \in 1 .. Len(s) - i
          /\ i + (j - (i - 1)) = j + 1
      BY <1>1, <2>1, <2>5
    <3>2. b[j - (i - 1)] = s[j + 1]
      BY <1>3, <3>1
    <3>3. QED
      BY <1>1, <2>1, <2>3, <2>5, <3>2
  <2>6. QED
    BY <2>1, <2>4, <2>5
<1>8. QED
  BY <1>4, <1>5, <1>6, <1>7

\* The same breakpoints in the same order, up to their statuses.
SameEntries(t, s) ==
    /\ t \in Seq(Breakpoint)
    /\ Len(t) = Len(s)
    /\ \A j \in DOMAIN s : t[j].num = s[j].num /\ t[j].addr = s[j].addr

LEMMA StatusStored ==
    ASSUME NEW s \in Seq(Breakpoint), NEW i \in DOMAIN s, NEW v \in {0, 1},
           NEW t, t = [s EXCEPT ![i].status = v]
    PROVE  SameEntries(t, s)
<1> DEFINE r == [s[i] EXCEPT !.status = v]
<1>1. /\ DOMAIN s = 1 .. Len(s) /\ Len(s) \in Nat
      /\ \A j \in DOMAIN s : s[j] \in Breakpoint
  BY LenProperties, ElementOfSeq
<1>2. r \in Breakpoint /\ r.num = s[i].num /\ r.addr = s[i].addr
  BY <1>1 DEF Breakpoint
<1>3. t = [s EXCEPT ![i] = r]
  OBVIOUS
<1> HIDE DEF r
<1>4. t \in Seq(Breakpoint) /\ Len(t) = Len(s)
  BY <1>1, <1>2, <1>3, ExceptSeq
<1>5. \A j \in DOMAIN s : t[j].num = s[j].num /\ t[j].addr = s[j].addr
  BY <1>2, <1>3
<1>6. QED
  BY <1>4, <1>5 DEF SameEntries

LEMMA ReversedStack ==
    ASSUME NEW S, NEW s \in Seq(S) PROVE Reverse(s) \in Seq(S)
<1>1. Len(s) \in Nat /\ \A i \in 1 .. Len(s) : s[(Len(s) - i) + 1] \in S
  BY LenProperties, ElementOfSeq
<1>2. QED
  BY <1>1, IsASeq DEF Reverse

\* What a call of the debugger leaves alone.
LEMMA DataReturns ==
    ASSUME DataOK, NEW r \in Int, Returns(r),
           dbg' \in BOOLEAN, head' \in Seq(Breakpoint), num' \in Nat,
           code' \in [Addr -> Byte], fault' \in {"none", "null", "overrun", "derailed"}
    PROVE  DataOK'
<1>1. rax' = r /\ UNCHANGED <<next, backtrace, rip, stack>>
  BY Zenon DEF Returns, stopVars, childVars
<1>2. /\ next' \in Byte /\ backtrace' \in Seq(Nat) /\ rip' \in Points \cup {0}
      /\ stack' \in Seq(Bodies) /\ rax' \in Int
  BY <1>1 DEF DataOK
<1>3. QED
  BY <1>2, Zenon DEF DataOK

\* A breakpoint entry may change its status, or go.
LEMMA EntryTypes ==
    ASSUME DataOK, NEW f \in Funcs, NEW i \in Index(f)
    PROVE  /\ \A v \in {0, 1} :
                 head' = [head EXCEPT ![i].status = v] => SameEntries(head', head)
           /\ RemoveAt(head, i) \in Seq(Breakpoint)
<1>1. head \in Seq(Breakpoint) /\ i \in DOMAIN head
  BY DEF DataOK, Index
<1>2. RemoveAt(head, i) \in Seq(Breakpoint)
  BY <1>1, RemovedEntry
<1>3. ASSUME NEW v \in {0, 1}, head' = [head EXCEPT ![i].status = v]
      PROVE  SameEntries(head', head)
  BY <1>1, <1>3, StatusStored
<1>4. QED
  BY <1>2, <1>3

LEMMA PatchTypes ==
    ASSUME DataOK, NEW a, NEW b \in Byte
    PROVE  [code EXCEPT ![a] = b] \in [Addr -> Byte]
  BY DEF DataOK

LEMMA SetTypes ==
    ASSUME DataOK, NEW f \in Funcs, SetBreakpoint(f)
    PROVE  head' \in Seq(Breakpoint) /\ num' \in Nat
<1>1. head \in Seq(Breakpoint) /\ num \in Nat
  BY DEF DataOK
<1>2. CASE \E i \in Index(f) : head' = [head EXCEPT ![i].status = 1] /\ UNCHANGED num
  BY <1>1, <1>2, EntryTypes DEF SameEntries
<1>3. CASE /\ num' = NextNum
           /\ head' = Append(head, [addr |-> f, num |-> NextNum, status |-> 1])
  <2>1. NextNum \in Nat
    BY <1>1 DEF NextNum
  <2>2. [addr |-> f, num |-> NextNum, status |-> 1] \in Breakpoint
    BY <2>1 DEF Breakpoint
  <2>3. QED
    BY <1>1, <1>3, <2>1, <2>2, AppendProperties
<1>4. CASE UNCHANGED bpVars
  BY <1>1, <1>4 DEF bpVars
<1>5. QED
  BY <1>2, <1>3, <1>4, Zenon DEF SetBreakpoint

LEMMA DataEdit == ASSUME DataOK, EditStep PROVE DataOK'
<1>1. PICK f \in Funcs : \/ SetBreakpoint(f)
                         \/ RemoveBreakpoint(f)
                         \/ RemoveFromEmpty(f)
                         \/ EnableBreakpoint(f)
                         \/ DisableBreakpoint(f)
  BY DEF EditStep
<1>2. /\ dbg' = dbg /\ dbg' \in BOOLEAN
      /\ fault' \in {"none", "null", "overrun", "derailed"}
  <2>1. dbg' = dbg
    BY <1>1, Zenon DEF SetBreakpoint, RemoveBreakpoint, RemoveFromEmpty,
       EnableBreakpoint, DisableBreakpoint, Switch
  <2>2. dbg' \in BOOLEAN
    BY <2>1, Zenon DEF DataOK
  <2>3. fault' = fault \/ fault' \in {"none", "null"}
    BY <1>1, Zenon DEF SetBreakpoint, RemoveBreakpoint, RemoveFromEmpty,
       EnableBreakpoint, DisableBreakpoint, Switch
  <2>4. QED
    BY <2>1, <2>2, <2>3 DEF DataOK
<1>3. /\ Returns(0) \/ Returns(-1)
      /\ code' = code \/ \E b \in {PUSHRBP_OPCODE, INT3_OPCODE} :
                            code' = [code EXCEPT ![f] = b]
  BY <1>1, Zenon DEF SetBreakpoint, RemoveBreakpoint, RemoveFromEmpty,
     EnableBreakpoint, DisableBreakpoint, Switch
<1>4. code' \in [Addr -> Byte]
  BY <1>3, PatchTypes, Opcodes DEF DataOK
<1>5. head' \in Seq(Breakpoint) /\ num' \in Nat
  <2>1. CASE SetBreakpoint(f)
    BY <2>1, SetTypes
  <2>2. CASE ~SetBreakpoint(f)
    <3>1. /\ num' = num
          /\ \/ head' = head
             \/ \E i \in Index(f) : head' = RemoveAt(head, i)
             \/ \E i \in Index(f) : head' = [head EXCEPT ![i].status = 0]
      BY <1>1, <2>2, Zenon DEF RemoveBreakpoint, RemoveFromEmpty,
         EnableBreakpoint, DisableBreakpoint, Switch, bpVars
    <3>2. head \in Seq(Breakpoint) /\ num \in Nat
      BY DEF DataOK
    <3>3. QED
      BY <3>1, <3>2, EntryTypes DEF SameEntries
  <2>3. QED
    BY <2>1, <2>2
<1>6. QED
  <2>1. 0 \in Int /\ -1 \in Int
    OBVIOUS
  <2>2. QED
    BY <1>2, <1>3, <1>4, <1>5, <2>1, DataReturns, Zenon

LEMMA DataInquire ==
    ASSUME DataOK,
           BecomeDebugger \/ InfoBreakpoints \/ InfoRegisters \/ Backtrace
    PROVE  DataOK'
<1>1. dbg' \in BOOLEAN
  BY Zenon DEF DataOK, BecomeDebugger, InfoBreakpoints, InfoRegisters, Backtrace
<1>2. head' = head /\ num' = num /\ code' = code /\ fault' = fault
  BY Zenon DEF BecomeDebugger, InfoBreakpoints, InfoRegisters, Backtrace, bpVars
<1>3. PICK r : Returns(r) /\ (r \in {0, -1, Len(head), Len(backtrace),
                                         MAX_BACKTRACE, MAX_BACKTRACE + 1})
  BY DEF BecomeDebugger, InfoBreakpoints, InfoRegisters, Backtrace
<1>4. Len(head) \in Int /\ Len(backtrace) \in Int
  BY LenProperties DEF DataOK
<1>5. r \in Int
  BY <1>3, <1>4, BoundsAssumption
<1>6. /\ head' \in Seq(Breakpoint) /\ num' \in Nat
      /\ code' \in [Addr -> Byte] /\ fault' \in {"none", "null", "overrun", "derailed"}
  BY <1>2 DEF DataOK
<1>7. QED
  BY <1>1, <1>3, <1>5, <1>6, DataReturns, Zenon

\* Steps that leave everything but the scheduler, rax and fault alone.
LEMMA DataIdle ==
    ASSUME DataOK, UNCHANGED <<dbg, bpVars, stopVars, code, childVars>>,
           rax' \in Int, fault' \in {"none", "null", "overrun", "derailed"}
    PROVE  DataOK'
<1>1. UNCHANGED <<dbg, head, num, next, backtrace, code, rip, stack>>
  BY DEF bpVars, stopVars, childVars
<1>2. QED
  BY <1>1, Zenon DEF DataOK

\* A search that does not come back stores nothing.
LEMMA AstrayReturns == SearchAstray => Returns(rax)
  BY DEF SearchAstray, Returns

LEMMA DataAstray == ASSUME DataOK, SearchAstray PROVE DataOK'
<1>1. rax' \in Int /\ fault' \in {"none", "null", "overrun", "derailed"}
  BY DEF DataOK, SearchAstray
<1>2. UNCHANGED <<dbg, bpVars, stopVars, code, childVars>>
  BY DEF SearchAstray
<1>3. QED
  BY <1>1, <1>2, DataIdle

LEMMA DataFork == ASSUME DataOK, Fork PROVE DataOK'
<1>1. /\ UNCHANGED <<dbg, head, num, next, backtrace, code, fault>>
      /\ rip' = Body(Main) /\ stack' = <<>> /\ rax' = CHILD
  BY DEF Fork, bpVars, stopVars
<1>2. rip' \in Points \cup {0} /\ rax' \in Int
  <2>1. Body(Main) \in Points
    BY PointFacts, Zenon
  <2>2. CHILD \in Int
    BY DEF CHILD
  <2>3. QED
    BY <1>1, <2>1, <2>2
<1>3. stack' \in Seq(Bodies)
  BY <1>1, EmptySeq
<1>4. QED
  BY <1>1, <1>2, <1>3, Zenon DEF DataOK

LEMMA DataDebuggerExit == ASSUME DataOK, DebuggerExit PROVE DataOK'
<1>1. UNCHANGED <<dbg, num, next, backtrace, code, rip, stack, rax>>
  BY DEF DebuggerExit, stopVars, childVars
<1>2. /\ head' \in Seq(Breakpoint)
      /\ fault' \in {"none", "null", "overrun", "derailed"}
  BY DEF DebuggerExit
<1>3. QED
  BY <1>1, <1>2, Zenon DEF DataOK

\* A step of the child that changes its program counter and its stack.
LEMMA DataMove ==
    ASSUME DataOK, UNCHANGED <<dbg, bpVars, stopVars, code, rax, fault>>,
           rip' \in Points \cup {0}, stack' \in Seq(Bodies)
    PROVE  DataOK'
<1>1. UNCHANGED <<dbg, head, num, next, backtrace, code, rax, fault>>
  BY DEF bpVars, stopVars
<1>2. QED
  BY <1>1, Zenon DEF DataOK

LEMMA DataCall == ASSUME DataOK, NEW g \in Funcs, Call(g) PROVE DataOK'
<1>1. /\ stack' = Append(stack, rip) /\ rip' = g /\ rip \in Bodies
      /\ UNCHANGED <<dbg, bpVars, stopVars, code, rax, fault>>
  BY DEF Call, InBody
<1>2. stack' \in Seq(Bodies)
  BY <1>1, AppendProperties DEF DataOK
<1>3. rip' \in Points
  BY <1>1, PointFacts
<1>4. QED
  BY <1>1, <1>2, <1>3, DataMove

LEMMA DataReturn == ASSUME DataOK, Return PROVE DataOK'
<1>1. /\ stack # <<>> /\ rip' = Last(stack) /\ stack' = Front(stack)
      /\ UNCHANGED <<dbg, bpVars, stopVars, code, rax, fault>>
  BY DEF Return
<1>2. stack \in Seq(Bodies)
  BY DEF DataOK
<1>3. Len(stack) \in Nat \ {0} /\ \A i \in 1 .. Len(stack) : stack[i] \in Bodies
  BY <1>1, <1>2, EmptySeq, ElementOfSeq
<1>4. rip' \in Points
  <2>1. rip' = stack[Len(stack)]
    BY <1>1 DEF Last
  <2>2. Len(stack) \in 1 .. Len(stack)
    BY <1>3
  <2>3. stack[Len(stack)] \in Bodies
    BY <1>3, <2>2
  <2>4. QED
    BY <2>1, <2>3, PointFacts
<1>5. stack' \in Seq(Bodies)
  <2>1. 1 \in Int /\ Len(stack) - 1 \in Int
        /\ \A i \in 1 .. Len(stack) - 1 : stack[i] \in Bodies
    BY <1>3
  <2>2. QED
    BY <1>1, <2>1, SubSeqProperties DEF Front
<1>6. QED
  BY <1>1, <1>4, <1>5, DataMove

LEMMA DataExecute == ASSUME DataOK, SchedOK, Execute PROVE DataOK'
<1>1. /\ rip \notin Bodies /\ rip' = rip + 1 /\ stack' = stack
      /\ UNCHANGED <<dbg, bpVars, stopVars, code, rax, fault>>
      /\ rip # 0
  BY UserTurn DEF Execute, ChildTurn
<1>2. rip' \in Points
  BY <1>1, PointFacts DEF DataOK
<1>3. QED
  BY <1>1, <1>2, DataMove DEF DataOK

LEMMA DataFinishStep == ASSUME DataOK, FinishStep PROVE DataOK'
<1>1. /\ code' = [code EXCEPT ![rip - 1] = INT3_OPCODE, ![rip] = next]
      /\ UNCHANGED <<dbg, head, num, next, backtrace, rip, stack, rax, fault>>
  BY DEF FinishStep, bpVars, stopVars, childVars
<1>2. code' \in [Addr -> Byte]
  BY <1>1, Opcodes DEF DataOK
<1>3. QED
  BY <1>1, <1>2, Zenon DEF DataOK

LEMMA ChainTypes ==
    ASSUME DataOK
    PROVE  /\ CallChain \in Seq(Nat)
           /\ SubSeq(CallChain, 1, MAX_BACKTRACE) \in Seq(Nat)
              \/ Len(CallChain) <= MAX_BACKTRACE
<1>1. rip \in Nat /\ Bodies \subseteq Nat
  BY PointFacts DEF DataOK
<1>2. stack \in Seq(Nat)
  BY <1>1, SeqMonotonic DEF DataOK
<1>3. <<rip>> \in Seq(Nat) /\ Reverse(stack) \in Seq(Nat)
  BY <1>1, <1>2, ReversedStack
<1>4. CallChain \in Seq(Nat)
  BY <1>3, ConcatProperties DEF CallChain
<1>5. CASE Len(CallChain) > MAX_BACKTRACE
  <2>1. \A i \in 1 .. MAX_BACKTRACE : CallChain[i] \in Nat
    BY <1>4, <1>5, ElementOfSeq, LenProperties, BoundsAssumption
  <2>2. 1 \in Int /\ MAX_BACKTRACE \in Int
    BY BoundsAssumption
  <2>3. QED
    BY <1>4, <2>1, <2>2, SubSeqProperties
<1>6. QED
  BY <1>4, <1>5, LenProperties, BoundsAssumption

LEMMA DataStopChild == ASSUME DataOK, SchedOK, StopChild PROVE DataOK'
<1>1. /\ rip \in Points /\ rip \in Nat /\ rip + 1 \in Addr
      /\ rip' = rip /\ stack' = stack /\ rax' = rip
      /\ UNCHANGED <<dbg, head, num>>
  BY UserTurn, PointFacts DEF StopChild, Trapped, ChildTurn, DataOK, bpVars, childVars
<1>2. next' \in Byte
  BY <1>1 DEF StopChild, DataOK
<1>3. code' \in [Addr -> Byte]
  <2>1. code' = [code EXCEPT ![rip + 1] = INT3_OPCODE, ![rip] = PUSHRBP_OPCODE]
    BY DEF StopChild
  <2>2. QED
    BY <2>1, Opcodes DEF DataOK
<1>4. backtrace' \in Seq(Nat)
  <2>1. \/ backtrace' = CallChain
        \/ /\ backtrace' = SubSeq(CallChain, 1, MAX_BACKTRACE)
           /\ ~ (Len(CallChain) <= MAX_BACKTRACE)
    BY DEF StopChild
  <2>2. QED
    BY <2>1, ChainTypes
<1>5. fault' \in {"none", "null", "overrun", "derailed"}
  BY DEF StopChild, DataOK
<1>6. /\ rip' \in Points \cup {0} /\ stack' \in Seq(Bodies) /\ rax' \in Int
  BY <1>1 DEF DataOK
<1>7. QED
  BY <1>1, <1>2, <1>3, <1>4, <1>5, <1>6, Zenon DEF DataOK

-----------------------------------------------------------------------------
LEMMA TurnStep == TurnInv /\ [Next]_vars => TurnInv'
<1> SUFFICES ASSUME SchedOK, DataOK, [Next]_vars PROVE SchedOK' /\ DataOK'
  BY DEF TurnInv
<1>1. CASE EditStep
  <2>1. \E r : Returns(r)
    BY <1>1, Zenon DEF EditStep, SetBreakpoint, RemoveBreakpoint,
       RemoveFromEmpty, EnableBreakpoint, DisableBreakpoint, Switch
  <2>2. QED
    BY <1>1, <2>1, SchedReturns, DataEdit
<1>2. CASE BecomeDebugger \/ InfoBreakpoints \/ InfoRegisters \/ SearchAstray \/ Backtrace
  <2>1. \E r : Returns(r)
    BY <1>2, AstrayReturns DEF BecomeDebugger, InfoBreakpoints, InfoRegisters, Backtrace
  <2>2. QED
    BY <1>2, <2>1, SchedReturns, DataInquire, DataAstray
<1>3. CASE Fork
  BY <1>3, SchedFork, DataFork
<1>4. CASE WaitAndContinue
  BY <1>4, SchedContinue, DataIdle DEF WaitAndContinue, DataOK
<1>5. CASE DebuggerExit
  BY <1>5, SchedDebuggerExit, DataDebuggerExit
<1>6. CASE \E g \in Funcs : Call(g)
  BY <1>6, SchedChildRuns, DataCall
<1>7. CASE Return
  BY <1>7, SchedChildRuns, DataReturn
<1>8. CASE Execute
  BY <1>8, SchedChildRuns, DataExecute
<1>9. CASE Derail
  BY <1>9, SchedChildRuns, DataIdle DEF Derail, DataOK
<1>10. CASE FinishStep
  BY <1>10, SchedFinishStep, DataFinishStep
<1>11. CASE StopChild
  BY <1>11, SchedStopChild, DataStopChild
<1>12. CASE ChildExit
  BY <1>12, SchedChildExit, DataIdle DEF ChildExit, CHILD_EXIT, DataOK
<1>13. CASE SleepStep
  BY <1>13, SchedSleep, DataIdle DEF SleepStep, Sleep, DataOK
<1>14. CASE Tick
  BY <1>14, SchedTick, DataIdle DEF Tick, DataOK
<1>15. CASE UNCHANGED vars
  <2>1. UNCHANGED <<dbg, bpVars, stopVars, code, childVars, rax, fault>>
    BY <1>15 DEF vars
  <2>2. QED
    BY <1>15, <2>1, SchedStutter, DataIdle DEF DataOK
<1>16. QED
  BY <1>1, <1>2, <1>3, <1>4, <1>5, <1>6, <1>7, <1>8, <1>9, <1>10, <1>11, <1>12,
     <1>13, <1>14, <1>15, Zenon DEF Next, DebuggerStep, ChildStep

LEMMA TurnAlways == Spec => []TurnInv
<1>1. Init => TurnInv
  BY TurnInit
<1>2. TurnInv /\ [Next]_vars => TurnInv'
  BY TurnStep
<1>3. QED
  BY <1>1, <1>2, PTL DEF Spec

\* Every variable of the debugger keeps its type, for every program text and
\* every use of the calls of debug.c, the broken ones included.
THEOREM TypeCorrect == Spec => []TypeOK
<1>1. TurnInv => TypeOK
  BY TurnTypes
<1>2. QED
  BY <1>1, TurnAlways, PTL

\* The debugger and its child are never both runnable and never both waiting
\* for ever: the hand-over between do_wait_and_continue, int3_handler and
\* debugger_on_exit survives every sleep, every tick and every system call.
THEOREM Alternation == Spec => []ControlAlternates
<1>1. TurnInv => ControlAlternates
  BY TurnsAlternate DEF TurnInv
<1>2. QED
  BY <1>1, TurnAlways, PTL

-----------------------------------------------------------------------------
(***************************************************************************)
(* The breakpoint list: its order and its numbers.                         *)
(***************************************************************************)
\* The ways a step can change the list and the counter.
LEMMA ListSteps ==
    ASSUME TurnInv, [Next]_vars
    PROVE  \/ head' = head /\ num' = num
           \/ head' = <<>> /\ num' = num
           \/ /\ num' = num
              /\ \E f \in Funcs : \E i \in Index(f) :
                    \/ head' = RemoveAt(head, i)
                    \/ head' = [head EXCEPT ![i].status = 0]
                    \/ head' = [head EXCEPT ![i].status = 1]
           \/ /\ Len(head) < MAX_BREAKPOINTS
              /\ num' = num + 1
              /\ \E f \in Funcs :
                    /\ ~Listed(f)
                    /\ head' = Append(head, [addr |-> f, num |-> num + 1, status |-> 1])
<1>1. CASE EditStep
  BY <1>1, Zenon DEF EditStep, SetBreakpoint, RemoveBreakpoint, RemoveFromEmpty,
     EnableBreakpoint, DisableBreakpoint, Switch, bpVars, NextNum
<1>2. CASE DebuggerExit
  BY <1>2 DEF DebuggerExit
<1>3. CASE BecomeDebugger \/ InfoBreakpoints \/ InfoRegisters \/ SearchAstray \/ Backtrace
           \/ Fork \/ WaitAndContinue
  BY <1>3 DEF BecomeDebugger, InfoBreakpoints, InfoRegisters, SearchAstray, Backtrace, Fork,
     WaitAndContinue, bpVars
<1>4. CASE ChildStep
  BY <1>4, Zenon DEF ChildStep, Call, Return, Execute, Derail, FinishStep,
     StopChild, ChildExit, bpVars
<1>5. CASE SleepStep \/ Tick \/ UNCHANGED vars
  BY <1>5 DEF SleepStep, Sleep, Tick, vars, bpVars
<1>6. QED
  BY <1>1, <1>2, <1>3, <1>4, <1>5, Zenon DEF Next, DebuggerStep

\* Storing a status changes neither the numbers nor the functions.
LEMMA OrderedStatus ==
    ASSUME DataOK, ListOrdered, NEW f \in Funcs, NEW i \in Index(f), NEW v \in {0, 1},
           head' = [head EXCEPT ![i].status = v], num' = num
    PROVE  ListOrdered'
<1>1. head \in Seq(Breakpoint) /\ i \in DOMAIN head
  BY DEF DataOK, Index
<1>2. SameEntries(head', head)
  BY <1>1, StatusStored
<1>3. DOMAIN head' = DOMAIN head
  BY <1>1, <1>2, LenProperties DEF SameEntries
<1>4. QED
  BY <1>2, <1>3 DEF ListOrdered, SameEntries

LEMMA OrderedRemove ==
    ASSUME DataOK, ListOrdered, NEW f \in Funcs, NEW i \in Index(f),
           head' = RemoveAt(head, i), num' = num
    PROVE  ListOrdered'
<1>1. head \in Seq(Breakpoint) /\ i \in DOMAIN head
  BY DEF DataOK, Index
<1>2. /\ head' \in Seq(Breakpoint) /\ Len(head') = Len(head) - 1
      /\ \A j \in 1 .. Len(head) - 1 :
            head'[j] = IF j < i THEN head[j] ELSE head[j + 1]
  BY <1>1, RemovedEntry
<1>3. /\ Len(head) \in Nat /\ DOMAIN head = 1 .. Len(head)
      /\ DOMAIN head' = 1 .. Len(head) - 1
  BY <1>1, <1>2, LenProperties
<1>4. \A j \in DOMAIN head' :
         \E k \in DOMAIN head : head'[j] = head[k] /\ k = IF j < i THEN j ELSE j + 1
  BY <1>1, <1>2, <1>3
<1>5. Len(head') <= MAX_BREAKPOINTS
  BY <1>2, <1>3, BoundsAssumption DEF ListOrdered
<1>6. \A j \in DOMAIN head' : head'[j].num \in 1 .. num'
  BY <1>4 DEF ListOrdered
<1>7. ASSUME NEW j \in DOMAIN head', NEW k \in DOMAIN head', j < k
      PROVE  head'[j].num < head'[k].num /\ head'[j].addr # head'[k].addr
  <2>1. PICK a \in DOMAIN head : head'[j] = head[a] /\ a = IF j < i THEN j ELSE j + 1
    BY <1>4
  <2>2. PICK b \in DOMAIN head : head'[k] = head[b] /\ b = IF k < i THEN k ELSE k + 1
    BY <1>4
  <2>3. a < b
    BY <1>1, <1>3, <1>7, <2>1, <2>2
  <2>4. QED
    BY <2>1, <2>2, <2>3 DEF ListOrdered
<1>8. QED
  BY <1>5, <1>6, <1>7 DEF ListOrdered

LEMMA OrderedAppend ==
    ASSUME DataOK, ListOrdered, Len(head) < MAX_BREAKPOINTS, num' = num + 1,
           NEW f \in Funcs, ~Listed(f),
           head' = Append(head, [addr |-> f, num |-> num + 1, status |-> 1])
    PROVE  ListOrdered'
<1> DEFINE e == [addr |-> f, num |-> num + 1, status |-> 1]
<1>1. head \in Seq(Breakpoint) /\ num \in Nat
  BY DEF DataOK
<1>2. e \in Breakpoint /\ e.num = num + 1 /\ e.addr = f
  BY <1>1 DEF Breakpoint
<1> HIDE DEF e
<1>3. head' = Append(head, e)
  BY DEF e
<1>4. /\ head' \in Seq(Breakpoint) /\ Len(head') = Len(head) + 1
      /\ \A j \in 1 .. Len(head) : head'[j] = head[j]
      /\ head'[Len(head) + 1] = e
  BY <1>1, <1>2, <1>3, AppendProperties
<1>5. /\ Len(head) \in Nat /\ DOMAIN head = 1 .. Len(head)
      /\ DOMAIN head' = 1 .. Len(head) + 1
  BY <1>1, <1>4, LenProperties
<1>6. \A j \in 1 .. Len(head) : /\ head'[j].num \in 1 .. num
                                /\ head'[j].addr # f
  BY <1>4, <1>5 DEF ListOrdered, Listed, Index
<1>7. Len(head') <= MAX_BREAKPOINTS
  BY <1>4, <1>5, BoundsAssumption
<1>8. \A j \in DOMAIN head' : head'[j].num \in 1 .. num'
  BY <1>1, <1>2, <1>4, <1>5, <1>6
<1>9. ASSUME NEW j \in DOMAIN head', NEW k \in DOMAIN head', j < k
      PROVE  head'[j].num < head'[k].num /\ head'[j].addr # head'[k].addr
  <2>1. j \in 1 .. Len(head)
    BY <1>5, <1>9
  <2>2. CASE k = Len(head) + 1
    BY <1>1, <1>2, <1>4, <1>6, <2>1, <2>2
  <2>3. CASE k \in 1 .. Len(head)
    BY <1>4, <1>5, <1>9, <2>1, <2>3 DEF ListOrdered
  <2>4. QED
    BY <1>5, <2>2, <2>3
<1>10. QED
  BY <1>7, <1>8, <1>9 DEF ListOrdered

LEMMA OrderedStep == TurnInv /\ ListOrdered /\ [Next]_vars => ListOrdered'
<1> SUFFICES ASSUME TurnInv, ListOrdered, [Next]_vars PROVE ListOrdered'
  OBVIOUS
<1>1. DataOK
  BY DEF TurnInv
<1>2. CASE head' = head /\ num' = num
  BY <1>2 DEF ListOrdered
<1>3. CASE head' = <<>> /\ num' = num
  BY <1>3, BoundsAssumption DEF ListOrdered
<1>4. QED
  BY <1>1, <1>2, <1>3, ListSteps, OrderedStatus, OrderedRemove, OrderedAppend

\* The list of breakpoints keeps its order, its capacity and its functions
\* distinct, whatever the debugger program does.
THEOREM OrderKept == Spec => []ListOrdered
<1>1. Init => ListOrdered
  BY BoundsAssumption DEF Init, ListOrdered
<1>2. QED
  BY <1>1, TurnAlways, OrderedStep, PTL DEF Spec

LEMMA NumberStep ==
    TurnInv /\ [Next]_vars =>
        \A i \in DOMAIN head' :
            \/ head'[i].num > num
            \/ \E j \in DOMAIN head : /\ head[j].num = head'[i].num
                                      /\ head[j].addr = head'[i].addr
<1> SUFFICES ASSUME TurnInv, [Next]_vars, NEW i \in DOMAIN head'
             PROVE  \/ head'[i].num > num
                    \/ \E j \in DOMAIN head : /\ head[j].num = head'[i].num
                                              /\ head[j].addr = head'[i].addr
  OBVIOUS
<1>1. DataOK /\ head \in Seq(Breakpoint) /\ num \in Nat
  BY DEF TurnInv, DataOK
<1>2. CASE head' = head
  BY <1>2
<1>3. CASE head' = <<>>
  BY <1>3
<1>4. ASSUME NEW f \in Funcs, NEW k \in Index(f), head' = RemoveAt(head, k)
      PROVE  \E j \in DOMAIN head : head[j] = head'[i]
  <2>1. k \in DOMAIN head
    BY DEF Index
  <2>2. /\ head' \in Seq(Breakpoint) /\ Len(head') = Len(head) - 1
        /\ \A j \in 1 .. Len(head) - 1 :
              head'[j] = IF j < k THEN head[j] ELSE head[j + 1]
    BY <1>1, <1>4, <2>1, RemovedEntry
  <2>3. /\ Len(head) \in Nat /\ DOMAIN head = 1 .. Len(head)
        /\ DOMAIN head' = 1 .. Len(head) - 1
    BY <1>1, <2>2, LenProperties
  <2>4. QED
    BY <2>1, <2>2, <2>3
<1>5. ASSUME NEW f \in Funcs, NEW k \in Index(f), NEW v \in {0, 1},
             head' = [head EXCEPT ![k].status = v]
      PROVE  \E j \in DOMAIN head : /\ head[j].num = head'[i].num
                                    /\ head[j].addr = head'[i].addr
  <2>1. SameEntries(head', head)
    BY <1>1, <1>5, EntryTypes
  <2>2. DOMAIN head' = DOMAIN head
    BY <1>1, <2>1, LenProperties DEF SameEntries
  <2>3. QED
    BY <2>1, <2>2 DEF SameEntries
<1>6. ASSUME NEW f \in Funcs,
             head' = Append(head, [addr |-> f, num |-> num + 1, status |-> 1])
      PROVE  head'[i].num > num \/ \E j \in DOMAIN head : head[j] = head'[i]
  <2> DEFINE e == [addr |-> f, num |-> num + 1, status |-> 1]
  <2>1. e \in Breakpoint /\ e.num > num
    BY <1>1 DEF Breakpoint
  <2> HIDE DEF e
  <2>2. head' = Append(head, e)
    BY <1>6 DEF e
  <2>3. /\ head' \in Seq(Breakpoint) /\ Len(head') = Len(head) + 1
        /\ \A j \in 1 .. Len(head) : head'[j] = head[j]
        /\ head'[Len(head) + 1] = e
    BY <1>1, <2>1, <2>2, AppendProperties
  <2>4. /\ Len(head) \in Nat /\ DOMAIN head = 1 .. Len(head)
        /\ DOMAIN head' = 1 .. Len(head) + 1
    BY <1>1, <2>3, LenProperties
  <2>5. i \in 1 .. Len(head) \/ i = Len(head) + 1
    BY <2>4
  <2>6. QED
    BY <2>1, <2>3, <2>4, <2>5
<1>7. 0 \in {0, 1} /\ 1 \in {0, 1}
  OBVIOUS
<1>8. QED
  BY <1>2, <1>3, <1>4, <1>5, <1>6, <1>7, ListSteps

\* A breakpoint number never names a second breakpoint, whatever is set and
\* removed in whatever order.
THEOREM NumbersUnique == Spec => NumbersNeverReused
<1> DEFINE Fresh ==
      \A i \in DOMAIN head' :
          \/ head'[i].num > num
          \/ \E j \in DOMAIN head : /\ head[j].num = head'[i].num
                                    /\ head[j].addr = head'[i].addr
<1>1. TurnInv /\ [Next]_vars => [Fresh]_vars
  BY NumberStep
<1>2. Spec => [][Fresh]_vars
  BY <1>1, TurnAlways, PTL DEF Spec
<1>3. QED
  BY <1>2 DEF NumbersNeverReused

(***************************************************************************)
(* The patched code segment, in careful use.                               *)
(***************************************************************************)
CarefulUse == Usage \subseteq {"remove_when_empty", "exit_when_empty",
                               "continue_after_exit"}

\* The three conditions a function can be in.
Clear(f) == code[f] = PUSHRBP_OPCODE /\ code[f + 1] = Text[f + 1]

Armed(f) == code[f] = INT3_OPCODE /\ code[f + 1] = Text[f + 1] /\ Listed(f)

Pending(f) ==
    /\ StepPending(f) /\ Listed(f)
    /\ next = Text[f + 1]
    /\ state[CHILD] # "UNUSED"
    /\ rip = f \/ (rip = f + 1 /\ ChildTurn)

PatchPoints == Funcs \cup {f + 1 : f \in Funcs}

\* The inductive invariant: only the first two bytes of a function are ever
\* patched, and a step is pending only in the function the child is entering.
PatchInv ==
    state[DBG] # "UNUSED" =>
        /\ \A f \in Funcs : Clear(f) \/ Armed(f) \/ Pending(f)
        /\ \A a \in Addr \ PatchPoints : code[a] = Text[a]

(***************************************************************************)
(* Layout.                                                                 *)
(***************************************************************************)
LEMMA FuncFacts ==
    ASSUME NEW f \in Funcs
    PROVE  /\ f \in Nat /\ f \in Addr /\ f + 1 \in Addr /\ f - 1 \in Addr
           /\ f \notin Bodies /\ f + 1 \notin Bodies
           /\ f - 1 \notin PatchPoints
           /\ Text[f] = PUSHRBP_OPCODE /\ Text[f - 1] # PUSHRBP_OPCODE
           /\ Text[f + 1] # PUSHRBP_OPCODE /\ Text[f + 1] # INT3_OPCODE
           /\ \A g \in Funcs : /\ f # g + 1
                               /\ f # g => f + 1 # g + 1
<1>1. /\ f \in Nat /\ f .. f + 3 \subseteq Addr /\ f - 1 \in Addr
      /\ Text[f] = PUSHRBP_OPCODE /\ Text[f - 1] # PUSHRBP_OPCODE
      /\ Text[f + 1] # PUSHRBP_OPCODE
  BY TextAssumption
<1>2. f \in Addr /\ f + 1 \in Addr
  BY <1>1
<1>3. Text[f + 1] # INT3_OPCODE
  BY <1>2, TextAssumption
<1>4. \A g \in Funcs \cup {Main} : g \in Nat
  BY TextAssumption
<1>5. \A g \in Funcs \cup {Main} : g = f \/ g - f > 3 \/ f - g > 3
  <2> SUFFICES ASSUME NEW g \in Funcs \cup {Main} PROVE g = f \/ g - f > 3 \/ f - g > 3
    OBVIOUS
  <2>1. g \in Nat /\ f \in Funcs \cup {Main}
    BY <1>4
  <2>2. f < g => g - f > 3
    BY <2>1, LayoutAssumption
  <2>3. g < f => f - g > 3
    BY <2>1, LayoutAssumption
  <2>4. QED
    BY <1>1, <2>1, <2>2, <2>3
<1>6. f \notin Bodies /\ f + 1 \notin Bodies
  BY <1>1, <1>4, <1>5 DEF Bodies, Body
<1>7. f - 1 \notin PatchPoints
  BY <1>1, <1>4, <1>5 DEF PatchPoints
<1>8. \A g \in Funcs : /\ f # g + 1
                       /\ f # g => f + 1 # g + 1
  BY <1>1, <1>4, <1>5
<1>9. QED
  BY <1>1, <1>2, <1>3, <1>6, <1>7, <1>8

LEMMA PatchInit == Init => PatchInv
<1> SUFFICES ASSUME Init PROVE PatchInv
  OBVIOUS
<1>1. \A f \in Funcs : Clear(f)
  BY FuncFacts DEF Init, Clear
<1>2. QED
  BY <1>1 DEF Init, PatchInv

\* With nobody left to wake, nothing happens.
LEMMA OverIsOver ==
    ASSUME SchedOK, state[DBG] = "UNUSED", NEW p PROVE ~InUser(p)
  BY PidFacts DEF SchedOK, DebuggerTurn, ChildTurn, SessionOver, InUser,
     Runnable

\* Steps that leave every byte, entry and saved byte alone.
LEMMA PatchFrame ==
    ASSUME PatchInv, code' = code, head' = head, next' = next,
           state[DBG] # "UNUSED",
           \A f \in Funcs : Pending(f) => Pending(f)'
    PROVE  PatchInv'
<1>1. ASSUME NEW f \in Funcs
      PROVE  /\ Clear(f) => Clear(f)'
             /\ Armed(f) => Armed(f)'
  BY DEF Clear, Armed, Listed, Index
<1>2. QED
  BY <1>1 DEF PatchInv

\* Breakpoints listed after an edit.
LEMMA EditKeeps ==
    ASSUME DataOK, NEW f \in Funcs, NEW g \in Funcs, f # g, Listed(g),
           \/ head' = head
           \/ \E i \in Index(f) : head' = RemoveAt(head, i)
           \/ \E i \in Index(f), v \in {0, 1} : head' = [head EXCEPT ![i].status = v]
           \/ \E e \in Breakpoint : head' = Append(head, e)
    PROVE  Listed(g)'
<1>1. head \in Seq(Breakpoint)
  BY DEF DataOK
<1>2. PICK k \in DOMAIN head : head[k].addr = g
  BY DEF Listed, Index
<1>3. Len(head) \in Nat /\ DOMAIN head = 1 .. Len(head)
  BY <1>1, LenProperties
<1>4. SUFFICES \E j \in DOMAIN head' : head'[j].addr = g
  BY <1>4 DEF Listed, Index
<1>5. CASE head' = head
  BY <1>2, <1>5
<1>6. ASSUME NEW i \in Index(f), head' = RemoveAt(head, i)
      PROVE  \E j \in DOMAIN head' : head'[j].addr = g
  <2>1. i \in DOMAIN head /\ head[i].addr = f
    BY DEF Index
  <2>2. /\ head' \in Seq(Breakpoint) /\ Len(head') = Len(head) - 1
        /\ \A j \in 1 .. Len(head) - 1 :
              head'[j] = IF j < i THEN head[j] ELSE head[j + 1]
    BY <1>1, <1>6, <2>1, RemovedEntry
  <2>3. DOMAIN head' = 1 .. Len(head) - 1
    BY <1>3, <2>2, LenProperties
  <2>4. k # i
    BY <1>2, <2>1
  <2>5. CASE k < i
    <3>1. k \in 1 .. Len(head) - 1
      BY <1>2, <1>3, <2>1, <2>5
    <3>2. head'[k] = head[k]
      BY <2>2, <2>5, <3>1
    <3>3. QED
      BY <1>2, <2>3, <3>1, <3>2
  <2>6. CASE k > i
    <3>1. /\ k - 1 \in 1 .. Len(head) - 1 /\ (k - 1) + 1 = k
          /\ ~ (k - 1 < i)
      BY <1>2, <1>3, <2>1, <2>6
    <3>2. head'[k - 1] = head[k]
      BY <2>2, <3>1
    <3>3. QED
      BY <1>2, <2>3, <3>1, <3>2
  <2>7. QED
    BY <1>2, <1>3, <2>1, <2>4, <2>5, <2>6
<1>7. ASSUME NEW i \in Index(f), NEW v \in {0, 1}, head' = [head EXCEPT ![i].status = v]
      PROVE  \E j \in DOMAIN head' : head'[j].addr = g
  <2>1. SameEntries(head', head)
    BY <1>1, <1>7, EntryTypes
  <2>2. DOMAIN head' = DOMAIN head
    BY <1>3, <2>1, LenProperties DEF SameEntries
  <2>3. QED
    BY <1>2, <2>1, <2>2 DEF SameEntries
<1>8. ASSUME NEW e \in Breakpoint, head' = Append(head, e)
      PROVE  \E j \in DOMAIN head' : head'[j].addr = g
  <2>1. /\ head' \in Seq(Breakpoint) /\ Len(head') = Len(head) + 1
        /\ \A j \in 1 .. Len(head) : head'[j] = head[j]
    BY <1>1, <1>8, AppendProperties
  <2>2. DOMAIN head' = 1 .. Len(head) + 1
    BY <1>3, <2>1, LenProperties
  <2>3. k \in 1 .. Len(head) /\ k \in 1 .. Len(head) + 1
    BY <1>2, <1>3
  <2>4. head'[k] = head[k]
    BY <2>1, <2>3
  <2>5. QED
    BY <1>2, <2>2, <2>3, <2>4
<1>9. QED
  BY <1>5, <1>6, <1>7, <1>8

\* The function an edit names is in the list afterwards.
LEMMA EditLists ==
    ASSUME DataOK, NEW f \in Funcs,
           \/ \E i \in Index(f), v \in {0, 1} : head' = [head EXCEPT ![i].status = v]
           \/ \E n \in Nat, v \in {0, 1} :
                 head' = Append(head, [addr |-> f, num |-> n, status |-> v])
    PROVE  Listed(f)'
<1>1. head \in Seq(Breakpoint)
  BY DEF DataOK
<1>2. Len(head) \in Nat /\ DOMAIN head = 1 .. Len(head)
  BY <1>1, LenProperties
<1>3. SUFFICES \E j \in DOMAIN head' : head'[j].addr = f
  BY <1>3 DEF Listed, Index
<1>4. ASSUME NEW i \in Index(f), NEW v \in {0, 1}, head' = [head EXCEPT ![i].status = v]
      PROVE  \E j \in DOMAIN head' : head'[j].addr = f
  <2>1. SameEntries(head', head)
    BY <1>1, <1>4, EntryTypes
  <2>2. DOMAIN head' = DOMAIN head
    BY <1>2, <2>1, LenProperties DEF SameEntries
  <2>3. i \in DOMAIN head /\ head[i].addr = f
    BY DEF Index
  <2>4. QED
    BY <2>1, <2>2, <2>3 DEF SameEntries
<1>5. ASSUME NEW n \in Nat, NEW v \in {0, 1},
             head' = Append(head, [addr |-> f, num |-> n, status |-> v])
      PROVE  \E j \in DOMAIN head' : head'[j].addr = f
  <2> DEFINE e == [addr |-> f, num |-> n, status |-> v]
  <2>1. e \in Breakpoint /\ e.addr = f
    BY DEF Breakpoint
  <2> HIDE DEF e
  <2>2. head' = Append(head, e)
    BY <1>5 DEF e
  <2>3. /\ head' \in Seq(Breakpoint) /\ Len(head') = Len(head) + 1
        /\ head'[Len(head) + 1] = e
    BY <1>1, <2>1, <2>2, AppendProperties
  <2>4. DOMAIN head' = 1 .. Len(head) + 1
    BY <1>2, <2>3, LenProperties
  <2>5. Len(head) + 1 \in 1 .. Len(head) + 1
    BY <1>2
  <2>6. Len(head) + 1 \in DOMAIN head'
    BY <2>4, <2>5, Zenon
  <2>7. head'[Len(head) + 1].addr = f
    BY <2>1, <2>3
  <2>8. QED
    BY <2>6, <2>7, Zenon
<1>6. QED
  BY <1>4, <1>5

\* How a careful edit of f changes the code and the list.
ListEdit(f) ==
    \/ head' = head
    \/ \E i \in Index(f) : head' = RemoveAt(head, i)
    \/ \E i \in Index(f), v \in {0, 1} : head' = [head EXCEPT ![i].status = v]
    \/ \E e \in Breakpoint : head' = Append(head, e)

PatchEdit(f) ==
    /\ ~StoppedAt(f)
    /\ ListEdit(f)
    /\ \/ code' = [code EXCEPT ![f] = INT3_OPCODE] /\ Listed(f)'
       \/ code' = [code EXCEPT ![f] = PUSHRBP_OPCODE]

LEMMA CarefulEdits ==
    ASSUME DataOK, CarefulUse, NEW f \in Funcs,
           \/ SetBreakpoint(f) \/ RemoveBreakpoint(f) \/ RemoveFromEmpty(f)
           \/ EnableBreakpoint(f) \/ DisableBreakpoint(f)
    PROVE  PatchEdit(f) \/ (code' = code /\ head' = head)
<1>1. /\ "set_at_stop" \notin Usage /\ "remove_at_stop" \notin Usage
      /\ "enable_at_stop" \notin Usage /\ "disable_at_stop" \notin Usage
      /\ "set_when_full" \notin Usage /\ "no_memory" \notin Usage
  BY DEF CarefulUse
<1>2. 0 \in {0, 1} /\ 1 \in {0, 1}
  OBVIOUS
<1>3. CASE SetBreakpoint(f)
  <2>1. ~StoppedAt(f) /\ code' = [code EXCEPT ![f] = INT3_OPCODE]
    BY <1>1, <1>3, Zenon DEF SetBreakpoint, MayEdit
  <2>2. CASE \E i \in Index(f) : head' = [head EXCEPT ![i].status = 1]
    <3>1. \E i \in Index(f), v \in {0, 1} : head' = [head EXCEPT ![i].status = v]
      BY <1>2, <2>2, Zenon
    <3>2. Listed(f)'
      BY <3>1, EditLists, Zenon
    <3>3. QED
      BY <2>1, <3>1, <3>2, Zenon DEF PatchEdit, ListEdit
  <2>3. CASE head' = Append(head, [addr |-> f, num |-> NextNum, status |-> 1])
    <3>1. NextNum \in Nat
      BY DEF DataOK, NextNum
    <3>2. \E n \in Nat, v \in {0, 1} :
             head' = Append(head, [addr |-> f, num |-> n, status |-> v])
      BY <1>2, <2>3, <3>1, Zenon
    <3>3. Listed(f)'
      BY <3>2, EditLists, Zenon
    <3>4. [addr |-> f, num |-> NextNum, status |-> 1] \in Breakpoint
      BY <3>1 DEF Breakpoint
    <3>5. \E e \in Breakpoint : head' = Append(head, e)
      BY <2>3, <3>4, Zenon
    <3>6. QED
      BY <2>1, <3>3, <3>5, Zenon DEF PatchEdit, ListEdit
  <2>4. QED
    BY <1>1, <1>3, <2>2, <2>3, Zenon DEF SetBreakpoint
<1>4. CASE RemoveBreakpoint(f)
  <2>1. ~StoppedAt(f)
    BY <1>1, <1>4, Zenon DEF RemoveBreakpoint, MayEdit
  <2>2. QED
    BY <1>4, <2>1, Zenon DEF RemoveBreakpoint, PatchEdit, ListEdit
<1>5. CASE RemoveFromEmpty(f)
  BY <1>5 DEF RemoveFromEmpty, bpVars
<1>6. CASE EnableBreakpoint(f)
  <2>1. ~StoppedAt(f)
    BY <1>1, <1>6, Zenon DEF EnableBreakpoint, MayEdit
  <2>2. CASE Listed(f)
    <3>1. /\ code' = [code EXCEPT ![f] = INT3_OPCODE]
          /\ \E i \in Index(f), v \in {0, 1} : head' = [head EXCEPT ![i].status = v]
      BY <1>2, <1>6, <2>2, Zenon DEF EnableBreakpoint, Switch
    <3>2. Listed(f)'
      BY <3>1, EditLists, Zenon
    <3>3. QED
      BY <2>1, <3>1, <3>2, Zenon DEF PatchEdit, ListEdit
  <2>3. QED
    BY <1>6, <2>2, Zenon DEF EnableBreakpoint, Switch
<1>7. CASE DisableBreakpoint(f)
  <2>1. ~StoppedAt(f)
    BY <1>1, <1>7, Zenon DEF DisableBreakpoint, MayEdit
  <2>2. CASE Listed(f)
    <3>1. /\ code' = [code EXCEPT ![f] = PUSHRBP_OPCODE]
          /\ \E i \in Index(f), v \in {0, 1} : head' = [head EXCEPT ![i].status = v]
      BY <1>2, <1>7, <2>2, Zenon DEF DisableBreakpoint, Switch
    <3>2. QED
      BY <2>1, <3>1, Zenon DEF PatchEdit, ListEdit
  <2>3. QED
    BY <1>7, <2>2, Zenon DEF DisableBreakpoint, Switch
<1>8. QED
  BY <1>3, <1>4, <1>5, <1>6, <1>7

LEMMA PatchEditStep ==
    ASSUME TurnInv, CarefulUse, PatchInv, EditStep PROVE PatchInv'
<1>1. PICK f \in Funcs : \/ SetBreakpoint(f) \/ RemoveBreakpoint(f)
                         \/ RemoveFromEmpty(f)
                         \/ EnableBreakpoint(f) \/ DisableBreakpoint(f)
  BY DEF EditStep
<1>2. \E r : Returns(r)
  BY <1>1, Zenon DEF SetBreakpoint, RemoveBreakpoint, RemoveFromEmpty,
     EnableBreakpoint, DisableBreakpoint, Switch
<1>3. /\ InUser(DBG) /\ UNCHANGED <<cur, state, ticks, next, rip>>
  BY <1>2 DEF Returns, schedVars, stopVars, childVars
<1>4. DebuggerTurn /\ state[DBG] # "UNUSED" /\ ~ChildTurn /\ ~ChildTurn'
  <2>1. DebuggerTurn /\ state[DBG] \in Runnable
    BY <1>3, UserTurn DEF TurnInv
  <2>2. QED
    BY <1>3, <2>1 DEF ChildTurn, Runnable
<1>5. CASE code' = code /\ head' = head
  <2>1. \A g \in Funcs : Pending(g) => Pending(g)'
    BY <1>3, <1>4, <1>5 DEF Pending, StepPending, Listed, Index
  <2>2. QED
    BY <1>3, <1>4, <1>5, <2>1, PatchFrame
<1>6. CASE PatchEdit(f)
  <2>1. ~Pending(f)
    BY <1>4, <1>6 DEF Pending, PatchEdit, StoppedAt, DebuggerTurn
  <2>2. code[f + 1] = Text[f + 1]
    BY <1>4, <2>1 DEF PatchInv, Clear, Armed
  <2>3. code \in [Addr -> Byte] /\ DataOK
    BY DEF TurnInv, DataOK
  <2>4. PICK b \in {INT3_OPCODE, PUSHRBP_OPCODE} :
           /\ code' = [code EXCEPT ![f] = b]
           /\ b = INT3_OPCODE => Listed(f)'
    BY <1>6 DEF PatchEdit, INT3_OPCODE, PUSHRBP_OPCODE
  <2>5. /\ code'[f] = b
        /\ \A a \in Addr \ {f} : code'[a] = code[a]
    BY <2>3, <2>4, FuncFacts
  <2>6. Clear(f)' \/ Armed(f)'
    BY <2>2, <2>4, <2>5, FuncFacts DEF Clear, Armed
  <2>7. ASSUME NEW g \in Funcs, g # f
        PROVE  Clear(g)' \/ Armed(g)' \/ Pending(g)'
    <3>1. code'[g] = code[g] /\ code'[g + 1] = code[g + 1]
      BY <2>5, <2>7, FuncFacts
    <3>2. Listed(g) => Listed(g)'
      BY <1>6, <2>3, <2>7, EditKeeps DEF PatchEdit, ListEdit
    <3>3. Clear(g) \/ Armed(g) \/ Pending(g)
      BY <1>4 DEF PatchInv
    <3>4. QED
      BY <1>3, <1>4, <3>1, <3>2, <3>3 DEF Clear, Armed, Pending, StepPending
  <2>8. \A a \in Addr \ PatchPoints : code'[a] = Text[a]
    BY <1>4, <2>5 DEF PatchInv, PatchPoints
  <2>9. QED
    BY <2>6, <2>7, <2>8 DEF PatchInv
<1>7. DataOK
  BY DEF TurnInv
<1>8. QED
  BY <1>1, <1>5, <1>6, <1>7, CarefulEdits

-----------------------------------------------------------------------------
\* In a body nothing is pending.
LEMMA NothingPending ==
    ASSUME PatchInv, state[DBG] # "UNUSED", rip \in Bodies \/ state[CHILD] = "UNUSED",
           code' = code, head' = head
    PROVE  PatchInv'
<1>1. \A f \in Funcs : ~Pending(f)
  BY FuncFacts DEF Pending
<1>2. \A f \in Funcs : Clear(f)' \/ Armed(f)'
  BY <1>1 DEF PatchInv, Clear, Armed, Listed, Index
<1>3. QED
  BY <1>2 DEF PatchInv

\* The two traps of int3_handler.
LEMMA TrapFacts ==
    ASSUME TurnInv, PatchInv, Trapped
    PROVE  /\ rip \in Addr /\ ChildTurn /\ state[DBG] # "UNUSED"
           /\ SteppedOver  => \E f \in Funcs : rip = f + 1 /\ Pending(f)
           /\ ~SteppedOver => rip \in Funcs /\ Armed(rip)
<1>1. /\ ChildTurn /\ state[DBG] # "UNUSED" /\ rip # 0
      /\ rip \in Points \cup {0} /\ code[rip] = INT3_OPCODE
  BY UserTurn DEF TurnInv, DataOK, Trapped, ChildTurn
<1>2. rip \in Addr
  BY <1>1, PointFacts
<1>3. Text[rip] # INT3_OPCODE
  BY <1>2, TextAssumption
<1>4. rip \in PatchPoints
  BY <1>1, <1>2, <1>3 DEF PatchInv
<1>5. CASE rip \in Funcs
  <2>1. Armed(rip)
    BY <1>1, <1>5 DEF PatchInv, Clear, Pending, StepPending, INT3_OPCODE, PUSHRBP_OPCODE
  <2>2. /\ rip - 1 \in Addr /\ rip - 1 \notin PatchPoints
        /\ Text[rip - 1] # PUSHRBP_OPCODE
    BY <1>5, FuncFacts
  <2>3. code[rip - 1] # PUSHRBP_OPCODE
    BY <1>1, <2>2 DEF PatchInv
  <2>4. QED
    BY <1>1, <1>2, <1>5, <2>1, <2>3 DEF SteppedOver
<1>6. CASE \E f \in Funcs : rip = f + 1
  <2>1. PICK f \in Funcs : rip = f + 1
    BY <1>6
  <2>2. Text[f + 1] # INT3_OPCODE /\ f \in Nat
    BY FuncFacts
  <2>3. Pending(f)
    BY <1>1, <2>1, <2>2 DEF PatchInv, Clear, Armed
  <2>4. rip - 1 = f
    BY <2>1, <2>2
  <2>5. SteppedOver
    BY <2>3, <2>4 DEF SteppedOver, Pending, StepPending
  <2>6. QED
    BY <1>1, <1>2, <2>1, <2>3, <2>5
<1>7. QED
  BY <1>4, <1>5, <1>6 DEF PatchPoints

LEMMA PatchFinishStep ==
    ASSUME TurnInv, PatchInv, FinishStep PROVE PatchInv'
<1>1. /\ Trapped /\ SteppedOver
      /\ code' = [code EXCEPT ![rip - 1] = INT3_OPCODE, ![rip] = next]
      /\ head' = head
  BY DEF FinishStep, bpVars
<1>2. PICK f \in Funcs : rip = f + 1 /\ Pending(f) /\ state[DBG] # "UNUSED"
  BY <1>1, TrapFacts
<1>3. /\ f \in Nat /\ f \in Addr /\ f + 1 \in Addr /\ f # f + 1 /\ rip - 1 = f
  BY <1>2, FuncFacts
<1>4. code \in [Addr -> Byte]
  BY DEF TurnInv, DataOK
<1>5. /\ code'[f] = INT3_OPCODE /\ code'[f + 1] = Text[f + 1]
      /\ \A a \in Addr \ {f, f + 1} : code'[a] = code[a]
  BY <1>1, <1>2, <1>3, <1>4 DEF Pending
<1>6. Listed(f)' /\ Armed(f)'
  BY <1>1, <1>2, <1>5 DEF Pending, Armed, Listed, Index
<1>7. ASSUME NEW g \in Funcs, g # f PROVE Clear(g)' \/ Armed(g)'
  <2>1. /\ g \in Addr \ {f, f + 1} /\ g + 1 \in Addr \ {f, f + 1}
        /\ rip # g /\ rip # g + 1
    BY <1>2, <1>7, FuncFacts
  <2>2. code'[g] = code[g] /\ code'[g + 1] = code[g + 1]
    BY <1>5, <2>1
  <2>3. Clear(g) \/ Armed(g)
    BY <1>2, <2>1 DEF PatchInv, Pending
  <2>4. QED
    BY <1>1, <2>2, <2>3 DEF Clear, Armed, Listed, Index
<1>8. \A a \in Addr \ PatchPoints : code'[a] = Text[a]
  BY <1>2, <1>5 DEF PatchInv, PatchPoints
<1>9. QED
  BY <1>6, <1>7, <1>8 DEF PatchInv

LEMMA PatchStopChild ==
    ASSUME TurnInv, PatchInv, StopChild PROVE PatchInv'
<1>1. /\ Trapped /\ ~SteppedOver
      /\ next' = code[rip + 1]
      /\ code' = [code EXCEPT ![rip + 1] = INT3_OPCODE, ![rip] = PUSHRBP_OPCODE]
      /\ head' = head /\ rip' = rip
      /\ state' = [[state EXCEPT ![CHILD] = "WAITING"] EXCEPT ![DBG] = "RUNNING"]
  BY DEF StopChild, Schedule, bpVars, childVars
<1>2. rip \in Funcs /\ Armed(rip) /\ state[DBG] # "UNUSED"
  BY <1>1, TrapFacts
<1> DEFINE f == rip
<1>3. /\ f \in Nat /\ f \in Addr /\ f + 1 \in Addr /\ f # f + 1
  BY <1>2, FuncFacts
<1>4. code \in [Addr -> Byte] /\ state \in [Pid -> ProcessState]
  BY DEF TurnInv, DataOK, SchedOK
<1>5. /\ code'[f] = PUSHRBP_OPCODE /\ code'[f + 1] = INT3_OPCODE
      /\ next' = Text[f + 1] /\ Listed(f)
      /\ \A a \in Addr \ {f, f + 1} : code'[a] = code[a]
  BY <1>1, <1>2, <1>3, <1>4 DEF Armed
<1>6. state'[CHILD] = "WAITING"
  BY <1>1, <1>4, PidFacts
<1>7. Pending(f)'
  BY <1>1, <1>5, <1>6 DEF Pending, StepPending, Listed, Index
<1>8. ASSUME NEW g \in Funcs, g # f PROVE Clear(g)' \/ Armed(g)'
  <2>1. /\ g \in Addr \ {f, f + 1} /\ g + 1 \in Addr \ {f, f + 1}
        /\ rip # g /\ rip # g + 1
    BY <1>2, <1>8, FuncFacts
  <2>2. code'[g] = code[g] /\ code'[g + 1] = code[g + 1]
    BY <1>5, <2>1
  <2>3. Clear(g) \/ Armed(g)
    BY <1>2, <2>1 DEF PatchInv, Pending
  <2>4. QED
    BY <1>1, <2>2, <2>3 DEF Clear, Armed, Listed, Index
<1>9. \A a \in Addr \ PatchPoints : code'[a] = Text[a]
  BY <1>2, <1>5 DEF PatchInv, PatchPoints
<1>10. Clear(f)' \/ Armed(f)' \/ Pending(f)'
  BY <1>7
<1>11. QED
  <2>1. f' = f
    BY <1>1
  <2>2. \A g \in Funcs : Clear(g)' \/ Armed(g)' \/ Pending(g)'
    BY <1>1, <1>7, <1>8
  <2>3. QED
    BY <1>9, <2>2 DEF PatchInv

LEMMA PatchStep == CarefulUse /\ TurnInv /\ PatchInv /\ [Next]_vars => PatchInv'
<1> SUFFICES ASSUME CarefulUse, TurnInv, PatchInv, [Next]_vars, state[DBG] # "UNUSED"
             PROVE  PatchInv'
  <2>1. ASSUME TurnInv, [Next]_vars, state[DBG] = "UNUSED" PROVE PatchInv'
    <3>1. \A p : ~InUser(p)
      BY <2>1, OverIsOver DEF TurnInv
    <3>2. \A r : ~Returns(r)
      BY <3>1 DEF Returns
    <3>3. ~Tick /\ ~SleepStep
      BY <3>1 DEF Tick, SleepStep, Sleep
    <3>4. ~ChildStep
      BY <3>1 DEF ChildStep, Call, Return, Execute, Derail, FinishStep, StopChild,
         ChildExit, Trapped, InBody
    <3>5. ~EditStep
      BY <3>2, Zenon DEF EditStep, SetBreakpoint, RemoveBreakpoint,
         RemoveFromEmpty, EnableBreakpoint, DisableBreakpoint, Switch
    <3>6. ~DebuggerStep
      BY <3>1, <3>2, <3>5 DEF DebuggerStep, BecomeDebugger, InfoBreakpoints,
         InfoRegisters, SearchAstray, Backtrace, Fork, WaitAndContinue, DebuggerExit
    <3>7. UNCHANGED vars
      BY <2>1, <3>3, <3>4, <3>6 DEF Next
    <3>8. QED
      BY <2>1, <3>7 DEF vars, schedVars, PatchInv
  <2>2. QED
    BY <2>1
<1> USE DEF TurnInv
<1>1. CASE EditStep
  BY <1>1, PatchEditStep
<1>2. CASE BecomeDebugger \/ InfoBreakpoints \/ InfoRegisters \/ SearchAstray \/ Backtrace
  <2>1. UNCHANGED <<state, ticks, cur, head, next, code, rip>>
    BY <1>2 DEF BecomeDebugger, InfoBreakpoints, InfoRegisters, SearchAstray, Backtrace, Returns,
       schedVars, bpVars, stopVars, childVars
  <2>2. \A f \in Funcs : Pending(f) => Pending(f)'
    BY <2>1 DEF Pending, StepPending, Listed, Index, ChildTurn
  <2>3. QED
    BY <2>1, <2>2, PatchFrame
<1>3. CASE Fork
  BY <1>3, NothingPending DEF Fork, bpVars
<1>4. CASE WaitAndContinue
  <2>1. /\ UNCHANGED <<head, next, code, rip>>
        /\ DebuggerTurn /\ ~ChildTurn
        /\ state' = [[state EXCEPT ![DBG] = "WAITING"] EXCEPT ![CHILD] = "RUNNING"]
    BY <1>4, UserTurn DEF WaitAndContinue, Schedule, bpVars, stopVars, childVars,
       ChildTurn, Runnable
  <2>2. state'[CHILD] # "UNUSED"
    BY <2>1, PidFacts DEF SchedOK
  <2>3. \A f \in Funcs : Pending(f) => Pending(f)'
    BY <2>1, <2>2 DEF Pending, StepPending, Listed, Index
  <2>4. QED
    BY <2>1, <2>3, PatchFrame
<1>5. CASE DebuggerExit
  <2>1. state' = [state EXCEPT ![DBG] = "UNUSED",
                               ![Swapper] = IF dbg THEN @ ELSE "READY"]
    BY <1>5 DEF DebuggerExit
  <2>2. state'[DBG] = "UNUSED"
    BY <2>1, PidFacts DEF SchedOK
  <2>3. QED
    BY <2>2 DEF PatchInv
<1>6. CASE (\E g \in Funcs : Call(g)) \/ Return \/ ChildExit
  BY <1>6, NothingPending DEF Call, Return, ChildExit, InBody, bpVars
<1>7. CASE Execute
  <2>1. /\ UNCHANGED <<schedVars, head, next, code>> /\ rip' = rip + 1
        /\ code[rip] = Text[rip] /\ ChildTurn /\ UNCHANGED <<state, ticks, cur>>
    BY <1>7, UserTurn DEF Execute, bpVars, stopVars, schedVars
  <2>2. ASSUME NEW f \in Funcs, Pending(f) PROVE Pending(f)'
    <3>1. rip = f
      BY <2>1, <2>2, FuncFacts DEF Pending, StepPending
    <3>2. rip' = f + 1 /\ rip' # 0
      BY <2>1, <3>1, FuncFacts
    <3>3. ChildTurn'
      BY <2>1, <3>2 DEF ChildTurn
    <3>4. QED
      BY <2>1, <2>2, <3>2, <3>3 DEF Pending, StepPending, Listed, Index
  <2>3. QED
    BY <2>1, <2>2, PatchFrame
<1>8. CASE Derail
  <2>1. UNCHANGED <<state, ticks, cur, head, next, code, rip>>
    BY <1>8 DEF Derail, schedVars, bpVars, stopVars, childVars
  <2>2. \A f \in Funcs : Pending(f) => Pending(f)'
    BY <2>1 DEF Pending, StepPending, Listed, Index, ChildTurn
  <2>3. QED
    BY <2>1, <2>2, PatchFrame
<1>9. CASE FinishStep
  BY <1>9, PatchFinishStep
<1>10. CASE StopChild
  BY <1>10, PatchStopChild
<1>11. CASE SleepStep
  <2>1. PICK p \in {DBG, CHILD}, n \in SleepTicks : Sleep(p, n)
    BY <1>11 DEF SleepStep
  <2>2. CASE p = CHILD
    BY <2>1, <2>2, NothingPending, PidFacts DEF Sleep, InBody, bpVars
  <2>3. CASE p = DBG
    <3>1. /\ UNCHANGED <<head, next, code, rip>>
          /\ DebuggerTurn /\ ~ChildTurn
      BY <2>1, <2>3, UserTurn DEF Sleep, bpVars, stopVars, childVars, ChildTurn, Runnable
    <3>2. state'[CHILD] = state[CHILD] \/ state'[CHILD] = "RUNNING"
      BY <2>1, <2>3, PidFacts DEF Sleep, YieldAs, Schedule, SchedOK
    <3>3. \A f \in Funcs : Pending(f) => Pending(f)'
      BY <3>1, <3>2 DEF Pending, StepPending, Listed, Index
    <3>4. QED
      BY <3>1, <3>3, PatchFrame
  <2>4. QED
    BY <2>2, <2>3
<1>12. CASE Tick
  <2>1. /\ UNCHANGED <<head, next, code, rip>>
        /\ ChildTurn => ChildTurn'
        /\ DebuggerTurn => DebuggerTurn'
    BY <1>12, SchedTick DEF Tick, bpVars, stopVars, childVars
  <2>2. state[CHILD] # "UNUSED" => state'[CHILD] # "UNUSED"
    <3> DEFINE st == [WakeSleepers(state, ticks) EXCEPT ![cur] = "READY"]
    <3>1. /\ \A p \in Pid : st[p] = IF p = cur \/ (state[p] = "WAITING" /\ ticks[p] = 1)
                                    THEN "READY" ELSE state[p]
          /\ st \in [Pid -> ProcessState]
      BY <1>12, TickTable DEF Tick
    <3>2. state' = st \/ \E q : state' = [st EXCEPT ![q] = "RUNNING"]
      BY <1>12 DEF Tick, Schedule
    <3> HIDE DEF st
    <3>3. QED
      BY <3>1, <3>2, PidFacts
  <2>3. \A f \in Funcs : Pending(f) => Pending(f)'
    BY <2>1, <2>2 DEF Pending, StepPending, Listed, Index
  <2>4. QED
    BY <2>1, <2>3, PatchFrame
<1>13. CASE UNCHANGED vars
  <2>1. UNCHANGED <<state, ticks, cur, head, next, code, rip>>
    BY <1>13 DEF vars, schedVars, bpVars, stopVars, childVars
  <2>2. \A f \in Funcs : Pending(f) => Pending(f)'
    BY <2>1 DEF Pending, StepPending, Listed, Index, ChildTurn
  <2>3. QED
    BY <2>1, <2>2, PatchFrame
<1>14. QED
  BY <1>1, <1>2, <1>3, <1>4, <1>5, <1>6, <1>7, <1>8, <1>9, <1>10, <1>11, <1>12,
     <1>13, Zenon DEF Next, DebuggerStep, ChildStep

\* A pending step is all that PatchInv allows beside the listed entries.
LEMMA PatchesFollow == TurnInv /\ PatchInv => PatchesAccounted
<1> SUFFICES ASSUME TurnInv, PatchInv, NEW a \in Addr,
                    state[DBG] # "UNUSED", code[a] # Text[a]
             PROVE  /\ code[a] = INT3_OPCODE
                    /\ \/ a \in Funcs /\ Listed(a)
                       \/ \E f \in Funcs : /\ a = f + 1
                                           /\ StepPending(f) /\ Listed(f)
                                           /\ next = Text[a]
                                           /\ rip \in {f, f + 1}
  BY DEF PatchesAccounted
<1>1. a \in PatchPoints
  BY DEF PatchInv
<1>2. CASE a \in Funcs
  BY <1>2, FuncFacts DEF PatchInv, Clear, Armed, Pending, StepPending
<1>3. CASE \E f \in Funcs : a = f + 1
  <2>1. PICK f \in Funcs : a = f + 1
    BY <1>3
  <2>2. Pending(f)
    BY <2>1 DEF PatchInv, Clear, Armed
  <2>3. QED
    BY <2>1, <2>2 DEF Pending, StepPending
<1>4. QED
  BY <1>1, <1>2, <1>3 DEF PatchPoints

\* A debugger that does not edit the function its child is stopped at, and
\* whose sets find room, accounts for every byte it patched: the code the
\* child runs is its program, but for listed entries and the one moved trap.
THEOREM PatchesTracked == ASSUME CarefulUse PROVE Spec => []PatchesAccounted
<1>1. Init => PatchInv
  BY PatchInit
<1>2. TurnInv /\ PatchInv /\ [Next]_vars => PatchInv'
  BY CarefulUse, PatchStep
<1>3. TurnInv /\ PatchInv => PatchesAccounted
  BY PatchesFollow
<1>4. QED
  BY <1>1, <1>2, <1>3, TurnAlways, PTL DEF Spec

\* Only a stop and an exit hand the processor from the child to the debugger.
LEMMA HandOver ==
    ASSUME TurnInv, [Next]_vars, cur = CHILD, cur' = DBG
    PROVE  StopChild \/ ChildExit
<1>1. ChildTurn /\ ~DebuggerTurn
  BY PidFacts DEF TurnInv, SchedOK, DebuggerTurn, ChildTurn, SessionOver
<1>2. ~InUser(DBG)
  BY PidFacts DEF InUser
<1>3. ~DebuggerStep
  <2>1. \A r : ~Returns(r)
    BY <1>2 DEF Returns
  <2>2. ~EditStep
    BY <2>1, Zenon DEF EditStep, SetBreakpoint, RemoveBreakpoint,
       RemoveFromEmpty, EnableBreakpoint, DisableBreakpoint, Switch
  <2>3. QED
    BY <1>2, <2>1, <2>2 DEF DebuggerStep, BecomeDebugger, InfoBreakpoints,
       InfoRegisters, SearchAstray, Backtrace, Fork, WaitAndContinue, DebuggerExit
<1>4. ~Tick
  BY <1>1, SchedTick, PidFacts DEF TurnInv, ChildTurn
<1>5. ASSUME NEW p \in {DBG, CHILD}, NEW n \in SleepTicks, Sleep(p, n) PROVE FALSE
  <2>1. SchedOK'
    BY <1>5, SchedSleep DEF TurnInv
  <2>2. ticks'[CHILD] > 0 /\ p = CHILD
    BY <1>2, <1>5, PidFacts, BoundsAssumption DEF Sleep, TurnInv, SchedOK
  <2>3. state'[DBG] # "UNUSED"
    BY <1>1, <1>5, <2>2, PidFacts DEF Sleep, YieldAs, Schedule, TurnInv, SchedOK,
       ChildTurn
  <2>4. QED
    BY <2>1, <2>2, <2>3, PidFacts DEF SchedOK, DebuggerTurn, ChildTurn, SessionOver
<1>6. ~ (Return \/ Execute \/ Derail \/ FinishStep \/ \E g \in Funcs : Call(g))
  BY PidFacts DEF Return, Execute, Derail, FinishStep, Call, Schedule, schedVars
<1>7. cur' # cur
  BY PidFacts
<1>8. QED
  BY <1>3, <1>4, <1>5, <1>6, <1>7 DEF Next, ChildStep, SleepStep, vars, schedVars

LEMMA ReportStep ==
    ASSUME TurnInv, PatchInv, [Next]_vars, cur = CHILD, cur' = DBG
    PROVE  \/ rax' = CHILD_EXIT /\ state'[CHILD] = "UNUSED"
           \/ Listed(rax') /\ state'[CHILD] = "WAITING" /\ rip' = rax'
<1>1. state \in [Pid -> ProcessState]
  BY DEF TurnInv, SchedOK
<1>2. CASE StopChild
  <2>1. Listed(rip) /\ rax' = rip /\ rip' = rip
    BY <1>2, TrapFacts DEF StopChild, Armed, childVars
  <2>2. state'[CHILD] = "WAITING"
    BY <1>1, <1>2, PidFacts DEF StopChild, Schedule
  <2>3. QED
    BY <2>1, <2>2
<1>3. CASE ChildExit
  <2> DEFINE st == [state EXCEPT ![DBG] = "READY", ![CHILD] = "UNUSED"]
  <2>1. st[CHILD] = "UNUSED"
    BY <1>1, PidFacts
  <2>2. state' = [st EXCEPT ![DBG] = "RUNNING"] /\ rax' = CHILD_EXIT
    BY <1>3 DEF ChildExit, Schedule
  <2>3. DOMAIN st = Pid
    BY <1>1
  <2> HIDE DEF st
  <2>4. QED
    BY <2>1, <2>2, <2>3, PidFacts
<1>4. QED
  BY <1>2, <1>3, HandOver

\* What wait_and_continue returns to such a debugger is true: the child waits
\* at a listed function, or has exited.
THEOREM WaitTruthful == ASSUME CarefulUse PROVE Spec => WaitReports
<1> DEFINE Report == cur = CHILD /\ cur' = DBG =>
                       \/ rax' = CHILD_EXIT /\ state'[CHILD] = "UNUSED"
                       \/ Listed(rax') /\ state'[CHILD] = "WAITING" /\ rip' = rax'
<1>1. TurnInv /\ PatchInv /\ [Next]_vars => [Report]_vars
  BY ReportStep
<1>2. Init => PatchInv
  BY PatchInit
<1>3. TurnInv /\ PatchInv /\ [Next]_vars => PatchInv'
  BY CarefulUse, PatchStep
<1>4. Spec => [][Report]_vars
  BY <1>1, <1>2, <1>3, TurnAlways, PTL DEF Spec
<1>5. QED
  BY <1>4 DEF WaitReports

\* The child of such a debugger executes no byte that is not its program's.
THEOREM StaysOnRails == ASSUME CarefulUse PROVE Spec => []NeverDerails
<1>1. Init => PatchInv /\ NeverDerails
  BY PatchInit DEF Init, NeverDerails
<1>2. TurnInv /\ PatchInv /\ [Next]_vars => PatchInv'
  BY CarefulUse, PatchStep
<1>3. TurnInv /\ PatchInv => ~Derail
  <2> SUFFICES ASSUME TurnInv, PatchInv, Derail PROVE FALSE
    OBVIOUS
  <2>1. /\ InUser(CHILD) /\ code[rip] # Text[rip] /\ code[rip] # INT3_OPCODE
    BY DEF Derail
  <2>2. rip \in Addr /\ state[DBG] # "UNUSED"
    BY <2>1, UserTurn, PointFacts DEF TurnInv, DataOK, ChildTurn
  <2>3. QED
    BY <2>1, <2>2, PatchesFollow DEF PatchesAccounted
<1>4. NeverDerails /\ [Next]_vars /\ ~Derail => NeverDerails'
  <2> SUFFICES ASSUME NeverDerails, [Next]_vars, ~Derail PROVE fault' # "derailed"
    BY DEF NeverDerails
  <2>1. CASE EditStep
    BY <2>1, Zenon DEF EditStep, SetBreakpoint, RemoveBreakpoint, RemoveFromEmpty,
       EnableBreakpoint, DisableBreakpoint, Switch, NeverDerails
  <2>2. CASE DebuggerStep /\ ~EditStep
    BY <2>2 DEF DebuggerStep, BecomeDebugger, InfoBreakpoints, InfoRegisters, SearchAstray,
       Backtrace, Fork, WaitAndContinue, DebuggerExit, NeverDerails
  <2>3. CASE ChildStep
    BY <2>3, Zenon DEF ChildStep, Call, Return, Execute, FinishStep, StopChild,
       ChildExit, NeverDerails
  <2>4. CASE SleepStep \/ Tick \/ UNCHANGED vars
    BY <2>4 DEF SleepStep, Sleep, Tick, vars, NeverDerails
  <2>5. QED
    BY <2>1, <2>2, <2>3, <2>4 DEF Next
<1>5. QED
  BY <1>1, <1>2, <1>3, <1>4, TurnAlways, PTL DEF Spec

-----------------------------------------------------------------------------
(***************************************************************************)
(* What do_backtrace reads, for any use of the system calls.               *)
(***************************************************************************)
\* The inductive invariant: the record of the last stop is that of the stack,
\* unless it ran over the end of the array.
BacktraceInv == fault # "overrun" => BacktraceCurrent

\* Only int3_handler stops the child at a function, and until the child is
\* continued nothing touches its stack or the record of it.
LEMMA StaysStopped ==
    ASSUME TurnInv, [Next]_vars, ~StopChild, NEW f \in Funcs, StoppedAt(f)'
    PROVE  StoppedAt(f) /\ UNCHANGED <<stack, backtrace>>
<1>1. state'[CHILD] = "WAITING" /\ rip' = f /\ f \notin Bodies
  BY FuncFacts DEF StoppedAt
<1>2. CHILD \in Pid /\ DBG \in Pid /\ CHILD # DBG /\ state \in [Pid -> ProcessState]
  BY PidFacts DEF TurnInv, SchedOK
<1>3. CASE \E r : Returns(r)
  BY <1>1, <1>3 DEF Returns, StoppedAt, schedVars, stopVars, childVars
<1>4. CASE Fork
  BY <1>1, <1>4, PointFacts DEF Fork
<1>5. CASE WaitAndContinue \/ FinishStep
  BY <1>1, <1>2, <1>5 DEF WaitAndContinue, FinishStep, Schedule
<1>6. CASE ChildExit
  <2> DEFINE st == [state EXCEPT ![DBG] = "READY", ![CHILD] = "UNUSED"]
             q  == PickNext(st, CHILD)
  <2>1. state' = [st EXCEPT ![q] = "RUNNING"]
    BY <1>6 DEF ChildExit, Schedule
  <2>2. st[CHILD] = "UNUSED" /\ CHILD \in DOMAIN st
    BY <1>2
  <2> HIDE DEF st, q
  <2>3. state'[CHILD] = st[CHILD] \/ state'[CHILD] = "RUNNING"
    BY <2>1, <2>2
  <2>4. QED
    BY <1>1, <2>2, <2>3
<1>7. CASE DebuggerExit
  BY <1>1, <1>2, <1>7, PidFacts DEF DebuggerExit, StoppedAt, stopVars, childVars
<1>8. CASE (\E g \in Funcs : Call(g)) \/ Return \/ Execute \/ Derail
  BY <1>1, <1>8 DEF Call, Return, Execute, Derail, InBody, InUser, schedVars
<1>9. CASE SleepStep
  <2>1. PICK p \in {DBG, CHILD}, n \in SleepTicks : Sleep(p, n)
    BY <1>9 DEF SleepStep
  <2> DEFINE st == [state EXCEPT ![p] = "WAITING"]
             q  == PickNext(st, p)
  <2>2. /\ state' = [st EXCEPT ![q] = "RUNNING"]
        /\ p = CHILD => rip \in Bodies
        /\ UNCHANGED <<stack, backtrace, rip>>
    BY <2>1 DEF Sleep, YieldAs, Schedule, InBody, stopVars, childVars
  <2>3. p = DBG
    BY <1>1, <2>2
  <2>4. st[CHILD] = state[CHILD]
    BY <1>2, <2>3
  <2>5. DOMAIN st = Pid
    BY <1>2
  <2> HIDE DEF st, q
  <2>6. state'[CHILD] = st[CHILD] \/ state'[CHILD] = "RUNNING"
    BY <1>2, <2>2, <2>5
  <2>7. QED
    BY <1>1, <2>2, <2>4, <2>6 DEF StoppedAt
<1>10. CASE Tick
  <2> DEFINE st == [WakeSleepers(state, ticks) EXCEPT ![cur] = "READY"]
             q  == PickNext(st, cur)
  <2>1. /\ InUser(cur) /\ UNCHANGED <<stack, backtrace, rip>>
        /\ state' = st \/ state' = [st EXCEPT ![q] = "RUNNING"]
    BY <1>10 DEF Tick, Schedule, stopVars, childVars
  <2>2. st[CHILD] = IF CHILD = cur \/ (state[CHILD] = "WAITING" /\ ticks[CHILD] = 1)
                    THEN "READY" ELSE state[CHILD]
    BY <1>2, <2>1, TickTable DEF TurnInv
  <2> HIDE DEF st, q
  <2>3. CHILD \in DOMAIN st
    BY <1>2, <2>1, TickTable DEF TurnInv, st
  <2>4. state'[CHILD] = st[CHILD] \/ state'[CHILD] = "RUNNING"
    BY <2>1, <2>3
  <2>5. QED
    BY <1>1, <2>1, <2>2, <2>4 DEF StoppedAt
<1>11. CASE UNCHANGED vars
  BY <1>1, <1>11 DEF vars, schedVars, stopVars, childVars, StoppedAt
<1>12. EditStep => \E r : Returns(r)
  BY Zenon DEF EditStep, SetBreakpoint, RemoveBreakpoint,
     RemoveFromEmpty, EnableBreakpoint, DisableBreakpoint, Switch
<1>13. BecomeDebugger \/ InfoBreakpoints \/ InfoRegisters \/ SearchAstray \/ Backtrace
       => \E r : Returns(r)
  BY AstrayReturns DEF BecomeDebugger, InfoBreakpoints, InfoRegisters, Backtrace
<1>14. QED
  BY <1>3, <1>4, <1>5, <1>6, <1>7, <1>8, <1>9, <1>10, <1>11, <1>12, <1>13, Zenon
     DEF Next, DebuggerStep, ChildStep

\* The chain from the function stopped at out to main, entry by entry.
LEMMA ChainReversesStack ==
    ASSUME DataOK
    PROVE  /\ Len(CallChain) = Len(stack) + 1 /\ CallChain[1] = rip
           /\ \A i \in DOMAIN stack : CallChain[Len(stack) + 2 - i] = stack[i]
<1>1. rip \in Nat /\ Bodies \subseteq Nat
  BY PointFacts DEF DataOK
<1>2. stack \in Seq(Nat)
  BY <1>1, SeqMonotonic DEF DataOK
<1>3. /\ Reverse(stack) \in Seq(Nat) /\ <<rip>> \in Seq(Nat)
      /\ Len(stack) \in Nat /\ DOMAIN stack = 1 .. Len(stack)
  BY <1>1, <1>2, ReversedStack, LenProperties
<1>4. /\ Len(Reverse(stack)) = Len(stack)
      /\ \A j \in 1 .. Len(stack) : Reverse(stack)[j] = stack[Len(stack) - j + 1]
  BY <1>2, <1>3 DEF Reverse
<1>5. Len(<<rip>>) = 1 /\ <<rip>>[1] = rip
  OBVIOUS
<1>6. /\ Len(CallChain) = 1 + Len(stack) /\ CallChain[1] = rip
      /\ \A k \in 2 .. Len(stack) + 1 : CallChain[k] = Reverse(stack)[k - 1]
  BY <1>3, <1>4, <1>5, ConcatProperties DEF CallChain
<1>7. ASSUME NEW i \in DOMAIN stack
      PROVE  CallChain[Len(stack) + 2 - i] = stack[i]
  <2> DEFINE k == Len(stack) + 2 - i
  <2>1. i \in 1 .. Len(stack)
    BY <1>3, Zenon
  <2>2. /\ k \in 2 .. Len(stack) + 1 /\ k - 1 \in 1 .. Len(stack)
        /\ Len(stack) - (k - 1) + 1 = i
    BY <1>3, <2>1
  <2> HIDE DEF k
  <2>3. CallChain[k] = stack[i]
    BY <1>4, <1>6, <2>2
  <2>4. QED
    BY <2>3 DEF k
<1>8. QED
  BY <1>3, <1>6, <1>7

LEMMA BacktraceStep == TurnInv /\ BacktraceInv /\ [Next]_vars => BacktraceInv'
<1> SUFFICES ASSUME TurnInv, BacktraceInv, [Next]_vars, fault' # "overrun",
                    NEW f \in Funcs, StoppedAt(f)'
             PROVE  /\ Len(backtrace') = Len(stack') + 1
                    /\ Head(backtrace') = f
                    /\ \A i \in DOMAIN stack' :
                          backtrace'[Len(stack') + 2 - i] = stack'[i]
  BY DEF BacktraceInv, BacktraceCurrent
<1>1. CASE StopChild
  <2>1. /\ backtrace' = CallChain /\ stack' = stack /\ rip' = rip
        /\ rip = f
    BY <1>1 DEF StopChild, childVars, StoppedAt
  <2>2. Head(backtrace') = backtrace'[1]
    BY DEF Head
  <2>3. QED
    BY <2>1, <2>2, ChainReversesStack DEF TurnInv
<1>2. CASE ~StopChild
  <2>1. StoppedAt(f) /\ stack' = stack /\ backtrace' = backtrace
    BY <1>2, StaysStopped
  <2>2. fault = "none" \/ UNCHANGED vars
    BY Zenon DEF Next, DebuggerStep, ChildStep, EditStep, SetBreakpoint,
       RemoveBreakpoint, RemoveFromEmpty, EnableBreakpoint, DisableBreakpoint,
       Switch, BecomeDebugger, InfoBreakpoints, InfoRegisters, SearchAstray, Backtrace, Returns,
       Fork, WaitAndContinue, DebuggerExit, Call, Return, Execute, Derail,
       FinishStep, StopChild, Trapped, ChildExit, InBody, InUser, SleepStep,
       Sleep, Tick
  <2>3. fault # "overrun"
    BY <2>2 DEF vars
  <2>4. QED
    BY <2>1, <2>3 DEF BacktraceInv, BacktraceCurrent
<1>3. QED
  BY <1>1, <1>2

\* While the child is stopped at a function, do_backtrace reports the call it
\* is stopped in and all its callers, innermost first, in every use of the
\* calls of debug.c, as long as int3_handler has not run over the array.
THEOREM BacktraceTrue == Spec => [](fault # "overrun" => BacktraceCurrent)
<1>1. Init => BacktraceInv
  BY PidFacts DEF Init, BacktraceInv, BacktraceCurrent, StoppedAt
<1>2. TurnInv /\ BacktraceInv /\ [Next]_vars => BacktraceInv'
  BY BacktraceStep
<1>3. Spec => []BacktraceInv
  BY <1>1, <1>2, TurnAlways, PTL DEF Spec
<1>4. QED
  BY <1>3 DEF BacktraceInv

LEMMA DepthStep ==
    ASSUME DataOK, Len(stack) <= MaxDepth, [Next]_vars
    PROVE  Len(stack') <= MaxDepth
<1>1. stack \in Seq(Bodies) /\ MaxDepth \in Nat /\ Len(stack) \in Nat
  BY LenProperties, BoundsAssumption DEF DataOK
<1>2. ASSUME NEW g \in Funcs, Call(g) PROVE Len(stack') <= MaxDepth
  <2>1. rip \in Bodies /\ stack' = Append(stack, rip) /\ Len(stack) < MaxDepth
    BY <1>2 DEF Call, InBody
  <2>2. Len(stack') = Len(stack) + 1
    BY <1>1, <2>1, AppendProperties
  <2>3. QED
    BY <1>1, <2>1, <2>2
<1>3. CASE Return
  <2>1. stack # <<>> /\ stack' = SubSeq(stack, 1, Len(stack) - 1)
    BY <1>3 DEF Return, Front
  <2>2. /\ Len(stack) \in Nat \ {0} /\ 1 \in Int /\ Len(stack) - 1 \in Int
        /\ \A i \in 1 .. Len(stack) : stack[i] \in Bodies
    BY <1>1, <2>1, EmptySeq, ElementOfSeq
  <2>3. \A i \in 1 .. Len(stack) - 1 : stack[i] \in Bodies
    BY <2>2
  <2> DEFINE n == Len(stack) - 1
  <2>4. n \in Int /\ (\A i \in 1 .. n : stack[i] \in Bodies) /\ stack' = SubSeq(stack, 1, n)
    BY <2>1, <2>2, <2>3
  <2>5. n <= MaxDepth /\ 0 <= MaxDepth
    BY <1>1, <2>2
  <2> HIDE DEF n
  <2>6. Len(stack') = IF 1 <= n THEN n - 1 + 1 ELSE 0
    BY <2>2, <2>4, SubSeqProperties
  <2>7. QED
    BY <1>1, <2>4, <2>5, <2>6
<1>4. CASE Fork
  BY <1>1, <1>4 DEF Fork
<1>5. stack' = stack \/ Fork \/ Return \/ \E g \in Funcs : Call(g)
  BY Zenon DEF Next, DebuggerStep, ChildStep, EditStep, SetBreakpoint,
     RemoveBreakpoint, RemoveFromEmpty, EnableBreakpoint, DisableBreakpoint,
     Switch, BecomeDebugger, InfoBreakpoints, InfoRegisters, SearchAstray, Backtrace, Returns,
     WaitAndContinue, DebuggerExit, Execute, Derail, FinishStep, StopChild,
     ChildExit, SleepStep, Sleep, Tick, vars, childVars
<1>6. QED
  BY <1>2, <1>3, <1>4, <1>5

\* The same, with no condition left: dbg->backtrace holds the chain of every
\* program whose calls nest less deep than the array is long.
THEOREM BacktraceKept ==
    ASSUME MaxDepth < MAX_BACKTRACE PROVE Spec => []BacktraceCurrent
<1> DEFINE Deep == Len(stack) <= MaxDepth
           Held == fault # "overrun"
<1>1. Init => Deep /\ Held
  BY BoundsAssumption DEF Init
<1>2. TurnInv /\ Deep /\ Held /\ [Next]_vars => Deep' /\ Held'
  <2> SUFFICES ASSUME TurnInv, Deep, Held, [Next]_vars PROVE Deep' /\ Held'
    OBVIOUS
  <2>1. Deep'
    BY DepthStep DEF TurnInv
  <2>2. ~StopChild => Held'
    BY Zenon DEF Next, DebuggerStep, ChildStep, EditStep, SetBreakpoint,
       RemoveBreakpoint, RemoveFromEmpty, EnableBreakpoint, DisableBreakpoint,
       Switch, BecomeDebugger, InfoBreakpoints, InfoRegisters, SearchAstray, Backtrace,
       Fork, WaitAndContinue, DebuggerExit, Call, Return, Execute, Derail,
       FinishStep, ChildExit, SleepStep, Sleep, Tick, vars
  <2>3. CASE StopChild
    <3>1. Len(CallChain) = Len(stack) + 1 /\ Len(stack) \in Nat
      BY ChainReversesStack, LenProperties DEF TurnInv, DataOK
    <3>2. Len(CallChain) <= MAX_BACKTRACE
      BY <3>1, MaxDepth < MAX_BACKTRACE, BoundsAssumption
    <3>3. Len(CallChain) <= MAX_BACKTRACE => fault' = fault
      BY <2>3 DEF StopChild
    <3>4. QED
      BY <2>1, <3>2, <3>3
  <2>4. QED
    BY <2>1, <2>2, <2>3
<1>3. Spec => [](fault # "overrun")
  BY <1>1, <1>2, TurnAlways, PTL DEF Spec
<1>4. QED
  BY <1>3, BacktraceTrue, PTL
=============================================================================
