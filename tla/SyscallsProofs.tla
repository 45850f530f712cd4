--------------------------- MODULE SyscallsProofs ---------------------------
(***************************************************************************)
(* Proofs about system calls and the scheduler: for every size of the      *)
(* context table, on each of the three kernels, whatever is called and     *)
(* whenever the timer ticks, one context has the processor, and processes  *)
(* see registers of their own.                                             *)
(***************************************************************************)
EXTENDS SyscallsProperties, Orders, SequenceTheorems, TLAPS

\* pick_next_context returns a READY context or the swapper.
LEMMA PickReady ==
    ASSUME NEW st, NEW p \in Pid
    PROVE  /\ PickNext(st, p) \in Pid
           /\ PickNext(st, p) = Swapper \/ st[PickNext(st, p)] = "READY"
<1> DEFINE above == ReadyIn(st, p + 1 .. MAX_PROCESSES - 1)
           below == ReadyIn(st, 1 .. p)
<1>1. /\ above \in SUBSET Nat /\ below \in SUBSET Nat
      /\ above \subseteq Pid /\ below \subseteq Pid
      /\ \A s \in above \cup below : st[s] = "READY"
  BY ContextsAssumption DEF ReadyIn, Pid
<1>2. CASE above # {}
  BY <1>1, <1>2, MinInSet DEF PickNext
<1>3. CASE above = {} /\ below # {}
  BY <1>1, <1>3, MinInSet DEF PickNext
<1>4. CASE above = {} /\ below = {}
  BY <1>4, ContextsAssumption DEF PickNext, Pid, Swapper
<1>5. QED
  BY <1>2, <1>3, <1>4

-----------------------------------------------------------------------------
(* The inductive invariant.                                                 *)

Runnable == {"READY", "RUNNING"}

Types ==
    /\ current \in Pid
    /\ state \in [Pid -> ProcessState]
    /\ ticks \in [Pid -> Nat]
    /\ DOMAIN regs = Pid

\* The swapper is always runnable and makes no calls.
SwapperIdles ==
    /\ state[Swapper] \in Runnable
    /\ regs[Swapper].at = "user"
    /\ current = Swapper => cpu.at = "user"

\* Who does not sleep has no ticks left to sleep.
Awake == \A p \in Pid : state[p] # "WAITING" => ticks[p] = 0

\* In Assignment 3 the children of the first process wait for their debugger.
FirstAlone == kernel = "A3" =>
    \A p \in UserPid \ {1} : state[p] \in {"UNUSED", "WAITING"} /\ ticks[p] = 0

OneInv == Types /\ SwapperIdles /\ Awake /\ FirstAlone /\ OneRuns

LEMMA OneInit == Init => OneInv
<1> SUFFICES ASSUME Init PROVE OneInv
  OBVIOUS
<1>1. 1 \in Pid /\ Swapper \in Pid /\ 1 # Swapper
  BY ContextsAssumption DEF Pid, Swapper
<1>2. QED
  BY <1>1 DEF Init, OneInv, Types, SwapperIdles, Awake, FirstAlone, OneRuns, ProcessState,
             Runnable, InUser, UserPid

\* schedule, called with states in which nobody runs.
LEMMA ScheduleOne ==
    ASSUME NEW st \in [Pid -> ProcessState], NEW rs,
           current \in Pid, \A p \in Pid : st[p] # "RUNNING",
           st[Swapper] = "READY", rs[Swapper].at = "user",
           Schedule(st, rs)
    PROVE  /\ current' \in Pid /\ st[current'] = "READY"
           /\ state' = [st EXCEPT ![current'] = "RUNNING"]
           /\ state' \in [Pid -> ProcessState]
           /\ state'[current'] = "RUNNING" /\ state'[Swapper] \in Runnable
           /\ \A p \in Pid : p # current' => state'[p] = st[p]
           /\ cpu' = rs[current']
           /\ current' = Swapper => cpu'.at = "user"
<1>1. current' \in Pid /\ st[current'] = "READY"
  BY PickReady DEF Schedule
<1>2. QED
  BY <1>1 DEF Schedule, ProcessState, Runnable

LEMMA OneLoad ==
    ASSUME OneInv, NEW name, NEW n, Load(name, n) PROVE OneInv'
  BY DEF OneInv, Types, SwapperIdles, Awake, FirstAlone, OneRuns, Load

LEMMA OneReturn == ASSUME OneInv, Return PROVE OneInv'
<1>1. Swapper \in Pid
  BY ContextsAssumption DEF Pid, Swapper
<1>2. current # Swapper
  BY DEF OneInv, SwapperIdles, Return, InTrap
<1>3. Types' /\ SwapperIdles'
  BY <1>1, <1>2 DEF OneInv, Types, SwapperIdles, Return
<1>4. QED
  BY <1>3 DEF OneInv, Awake, FirstAlone, OneRuns, Return

LEMMA OneFork == ASSUME OneInv, Fork PROVE OneInv'
<1>1. Swapper \in Pid /\ UserPid \subseteq Pid /\ 1 \in Pid /\ Swapper # 1
  BY ContextsAssumption DEF Pid, Swapper, UserPid
<1>2. current \in Pid /\ current # Swapper /\ ~ halted
  BY DEF OneInv, Types, SwapperIdles, Fork, InTrap
<1>3. PICK child \in UserPid :
        /\ state[child] = "UNUSED"
        /\ regs' = [regs EXCEPT ![current] = Saved, ![child] = InUser("zero")]
        /\ state' = [state EXCEPT ![child] = IF kernel = "A3" THEN "WAITING" ELSE "READY"]
        /\ ticks' = [ticks EXCEPT ![child] = ticks[current]]
  BY DEF Fork
<1>4. UNCHANGED <<kernel, current, halted>>
  BY DEF Fork
<1>5. child # current /\ child # Swapper
  BY <1>2, <1>3 DEF OneInv, OneRuns, UserPid
<1>6. Types'
  BY <1>1, <1>2, <1>3, <1>4 DEF OneInv, Types, ProcessState
<1>7. SwapperIdles'
  BY <1>1, <1>2, <1>3, <1>4, <1>5 DEF OneInv, Types, SwapperIdles
<1>8. ticks'[child] = 0 /\ Awake'
  BY <1>1, <1>2, <1>3, <1>4, <1>5 DEF OneInv, Types, Awake, OneRuns
<1>9. FirstAlone' /\ (kernel = "A3" => child # 1)
  BY <1>1, <1>2, <1>3, <1>4, <1>5, <1>8 DEF OneInv, Types, FirstAlone, OneRuns, UserPid
<1>10. OneRuns'
  BY <1>1, <1>2, <1>3, <1>4, <1>5, <1>9 DEF OneInv, Types, OneRuns
<1>11. QED
  BY <1>6, <1>7, <1>8, <1>9, <1>10 DEF OneInv

\* What is left after schedule: the invariant follows from what st and ticks say.
LEMMA OneScheduled ==
    ASSUME OneInv, NEW st \in [Pid -> ProcessState], NEW rs, DOMAIN rs = Pid,
           \A p \in Pid : st[p] # "RUNNING",
           st[Swapper] = "READY", rs[Swapper].at = "user",
           ticks' \in [Pid -> Nat],
           \A p \in Pid : st[p] # "WAITING" => ticks'[p] = 0,
           \A p \in Pid : st[p] = "WAITING" => ticks'[p] > 0 \/ (kernel = "A3" /\ p # 1),
           kernel = "A3" => \A p \in UserPid \ {1} :
               st[p] \in {"UNUSED", "WAITING"} /\ ticks'[p] = 0,
           UNCHANGED kernel, regs' = rs, Schedule(st, rs)
    PROVE  OneInv'
<1>1. Swapper \in Pid /\ UserPid \subseteq Pid
  BY ContextsAssumption DEF Pid, Swapper, UserPid
<1>2. /\ current' \in Pid /\ st[current'] = "READY"
      /\ state' = [st EXCEPT ![current'] = "RUNNING"]
      /\ state' \in [Pid -> ProcessState]
      /\ state'[current'] = "RUNNING" /\ state'[Swapper] \in Runnable
      /\ \A p \in Pid : p # current' => state'[p] = st[p]
      /\ current' = Swapper => cpu'.at = "user"
  BY ScheduleOne DEF OneInv, Types
<1>3. Types' /\ SwapperIdles'
  BY <1>2 DEF Types, SwapperIdles
<1>4. Awake' /\ OneRuns'
  BY <1>2 DEF Awake, OneRuns
<1>5. FirstAlone'
  BY <1>1, <1>2 DEF FirstAlone
<1>6. QED
  BY <1>3, <1>4, <1>5 DEF OneInv

LEMMA OneSleep == ASSUME OneInv, Sleep PROVE OneInv'
<1> DEFINE st == [state EXCEPT ![current] = "WAITING"]
           rs == [regs EXCEPT ![current] = Saved]
<1>1. Swapper \in Pid /\ UserPid \subseteq Pid
  BY ContextsAssumption DEF Pid, Swapper, UserPid
<1>2. current \in Pid /\ current # Swapper /\ ~ halted
  BY DEF OneInv, Types, SwapperIdles, Sleep, InTrap
<1>3. PICK n \in SleepTicks : ticks' = [ticks EXCEPT ![current] = n]
  BY DEF Sleep
<1>4. n \in Nat /\ n > 0
  BY SyscallsAssumption
<1>5. UNCHANGED kernel /\ regs' = rs /\ Schedule(st, rs)
  BY DEF Sleep
<1>6. state[current] \in Runnable
  BY <1>2 DEF OneInv, OneRuns, Runnable
<1>7. st \in [Pid -> ProcessState] /\ DOMAIN rs = Pid /\ rs[Swapper].at = "user"
  BY <1>1, <1>2 DEF OneInv, Types, SwapperIdles, ProcessState
<1>8. st[Swapper] = "READY" /\ \A p \in Pid : st[p] # "RUNNING"
  BY <1>1, <1>2 DEF OneInv, Types, SwapperIdles, OneRuns, Runnable
<1>9. /\ ticks' \in [Pid -> Nat]
      /\ \A p \in Pid : st[p] # "WAITING" => ticks'[p] = 0
      /\ \A p \in Pid : st[p] = "WAITING" => ticks'[p] > 0 \/ (kernel = "A3" /\ p # 1)
  BY <1>2, <1>3, <1>4 DEF OneInv, Types, Awake, OneRuns
<1>10. kernel = "A3" => \A p \in UserPid \ {1} :
               st[p] \in {"UNUSED", "WAITING"} /\ ticks'[p] = 0
  BY <1>1, <1>2, <1>3, <1>6 DEF OneInv, Types, FirstAlone, Runnable, UserPid
<1> HIDE DEF st, rs
<1>11. QED
  BY <1>5, <1>7, <1>8, <1>9, <1>10, OneScheduled

LEMMA OneExit == ASSUME OneInv, Exit PROVE OneInv'
<1> DEFINE st == [state EXCEPT ![current] = "UNUSED"]
           rs == [regs EXCEPT ![current] = Saved]
<1>1. Swapper \in Pid /\ UserPid \subseteq Pid
  BY ContextsAssumption DEF Pid, Swapper, UserPid
<1>2. current \in Pid /\ current # Swapper /\ ~ halted
  BY DEF OneInv, Types, SwapperIdles, Exit, InTrap
<1>3. UNCHANGED <<kernel, ticks>> /\ regs' = rs
  BY DEF Exit
<1>4. state[current] \in Runnable
  BY <1>2 DEF OneInv, OneRuns, Runnable
<1>5. st \in [Pid -> ProcessState] /\ DOMAIN rs = Pid /\ rs[Swapper].at = "user"
  BY <1>1, <1>2 DEF OneInv, Types, SwapperIdles, ProcessState
<1>6. st[Swapper] = "READY" /\ \A p \in Pid : st[p] # "RUNNING"
  BY <1>1, <1>2 DEF OneInv, Types, SwapperIdles, OneRuns, Runnable
<1>7. /\ ticks' \in [Pid -> Nat]
      /\ \A p \in Pid : st[p] # "WAITING" => ticks'[p] = 0
      /\ \A p \in Pid : st[p] = "WAITING" => ticks'[p] > 0 \/ (kernel = "A3" /\ p # 1)
  BY <1>2, <1>3, <1>4 DEF OneInv, Types, Awake, OneRuns, Runnable
<1>8. kernel = "A3" => \A p \in UserPid \ {1} :
               st[p] \in {"UNUSED", "WAITING"} /\ ticks'[p] = 0
  BY <1>1, <1>2, <1>3 DEF OneInv, Types, FirstAlone
<1>9. CASE Schedule(st, rs)
  <2> HIDE DEF st, rs
  <2>1. QED
    BY <1>3, <1>5, <1>6, <1>7, <1>8, <1>9, OneScheduled
<1>10. CASE halted' = TRUE /\ state' = st /\ UNCHANGED <<current, cpu>>
  <2>1. Types' /\ SwapperIdles'
    BY <1>2, <1>3, <1>5, <1>6, <1>7, <1>10 DEF Types, SwapperIdles, Runnable
  <2>2. Awake' /\ FirstAlone' /\ OneRuns'
    BY <1>3, <1>7, <1>8, <1>10 DEF Awake, FirstAlone, OneRuns
  <2>3. QED
    BY <2>1, <2>2 DEF OneInv
<1>11. QED
  BY <1>9, <1>10 DEF Exit

LEMMA OneTick == ASSUME OneInv, Tick PROVE OneInv'
<1> DEFINE st == [WakeSleepers(state, ticks) EXCEPT ![current] = "READY"]
<1>1. Swapper \in Pid /\ UserPid \subseteq Pid
  BY ContextsAssumption DEF Pid, Swapper, UserPid
<1>2. current \in Pid /\ ~ halted /\ UNCHANGED <<kernel, halted>>
  BY DEF OneInv, Types, Tick
<1>3. ticks' = TicksAfterTick(state, ticks)
  BY DEF Tick
<1>4. state[current] \in Runnable
  BY <1>2 DEF OneInv, OneRuns, Runnable
<1>5. st \in [Pid -> ProcessState]
  BY <1>2 DEF OneInv, Types, ProcessState, WakeSleepers
<1>6. st[current] = "READY" /\ st[Swapper] = "READY" /\ \A p \in Pid : st[p] # "RUNNING"
  BY <1>1, <1>2 DEF OneInv, Types, SwapperIdles, OneRuns, Runnable, WakeSleepers, Sleeping
<1>7. ticks' \in [Pid -> Nat]
  BY <1>3 DEF OneInv, Types, TicksAfterTick, Sleeping
<1>8. \A p \in Pid : st[p] # "WAITING" => ticks'[p] = 0
  BY <1>2, <1>3, <1>4 DEF OneInv, Types, Awake, TicksAfterTick, WakeSleepers, Sleeping, Runnable
<1>9. \A p \in Pid : st[p] = "WAITING" => ticks'[p] > 0 \/ (kernel = "A3" /\ p # 1)
  BY <1>2, <1>3, <1>4 DEF OneInv, Types, OneRuns, TicksAfterTick, WakeSleepers, Sleeping, Runnable
<1>10. kernel = "A3" => \A p \in UserPid \ {1} :
               st[p] \in {"UNUSED", "WAITING"} /\ ticks'[p] = 0
  BY <1>1, <1>2, <1>3, <1>4
     DEF OneInv, Types, FirstAlone, TicksAfterTick, WakeSleepers, Sleeping, Runnable
<1>11. CASE UNCHANGED <<current, cpu, regs>> /\ state' = st
  <2>1. Types' /\ SwapperIdles'
    BY <1>2, <1>5, <1>6, <1>7, <1>11 DEF OneInv, Types, SwapperIdles, Runnable
  <2>2. Awake' /\ FirstAlone' /\ OneRuns'
    BY <1>2, <1>6, <1>8, <1>9, <1>10, <1>11 DEF OneInv, Awake, FirstAlone, OneRuns
  <2>3. QED
    BY <2>1, <2>2 DEF OneInv
<1>12. CASE PickNext(st, current) # current
  <2>1. SavedAtTick[Swapper].at = "user" /\ DOMAIN SavedAtTick = Pid
    BY <1>1, <1>2 DEF SavedAtTick, OneInv, Types, SwapperIdles
  <2>2. regs' = SavedAtTick /\ Schedule(st, regs)
    BY <1>12 DEF Tick
  <2>3. SavedAtTick[PickNext(st, current)] = regs[PickNext(st, current)]
    BY <1>12 DEF SavedAtTick
  <2>4. Schedule(st, SavedAtTick)
    BY <2>2, <2>3 DEF Schedule
  <2> HIDE DEF st
  <2>5. QED
    BY <1>2, <1>5, <1>6, <1>7, <1>8, <1>9, <1>10, <2>1, <2>2, <2>4, OneScheduled
<1>13. CASE PickNext(st, current) = current
  BY <1>11, <1>13 DEF Tick
<1>14. QED
  BY <1>12, <1>13

LEMMA OneAlways == Spec => []OneInv
<1>1. Init => OneInv
  BY OneInit
<1>2. OneInv /\ [Next]_vars => OneInv'
  <2> SUFFICES ASSUME OneInv, [Next]_vars PROVE OneInv'
    OBVIOUS
  <2>1. CASE \E name \in Names, n \in 0 .. 4 : Load(name, n)
    BY <2>1, OneLoad
  <2>2. CASE Return
    BY <2>2, OneReturn
  <2>3. CASE Fork
    BY <2>3, OneFork
  <2>4. CASE Sleep
    BY <2>4, OneSleep
  <2>5. CASE Exit
    BY <2>5, OneExit
  <2>6. CASE Tick
    BY <2>6, OneTick
  <2>7. CASE UNCHANGED vars
    BY <2>7 DEF vars, OneInv, Types, SwapperIdles, Awake, FirstAlone, OneRuns
  <2>8. QED
    BY <2>1, <2>2, <2>3, <2>4, <2>5, <2>6, <2>7 DEF Next
<1>3. QED
  BY <1>1, <1>2, PTL DEF Spec

\* On every kernel and with any number of contexts the processor has one context
\* that runs, and whoever waits has something to wait for.
THEOREM OneContextRuns == Spec => []OneRuns
<1>1. OneInv => OneRuns
  BY DEF OneInv
<1>2. QED
  BY <1>1, OneAlways, PTL
-----------------------------------------------------------------------------
(***************************************************************************)
(* The refinement: at every step the process on the processor makes one    *)
(* step of OwnRegisters, or, at a tick, nobody does.                       *)
(***************************************************************************)
LEMMA CallerAlive ==
    ASSUME OneInv, ~ halted, current # Swapper
    PROVE  current \in Alive /\ View[current] = cpu
<1>1. current \in UserPid /\ state[current] # "UNUSED"
  BY DEF OneInv, Types, OneRuns, UserPid
<1>2. QED
  BY <1>1 DEF Alive, View

LEMMA OwnInit == Init => Processes!Init
<1> SUFFICES ASSUME Init, NEW p \in Alive PROVE View[p].at = "user"
  BY DEF Processes!Init
<1>1. p \in UserPid /\ p \in Pid
  BY DEF Alive, UserPid
<1>2. QED
  BY <1>1 DEF Init, View, InUser

LEMMA OwnLoad ==
    ASSUME OneInv, NEW name, NEW n, Load(name, n) PROVE Processes!Load(current)
<1>1. current \in Alive /\ View[current] = cpu /\ current \in UserPid
  BY CallerAlive DEF Load, Alive
<1>2. Alive' = Alive /\ current' = current
  BY DEF Alive, Load
<1>3. View'[current] = cpu'
  BY <1>1, <1>2 DEF View
<1>4. \A q \in UserPid \ {current} : View'[q] = View[q]
  BY <1>2 DEF View, Load
<1>5. cpu'.at = "stub" /\ cpu'.rax = cpu.rax /\ cpu.at = "user"
  BY DEF Load
<1>6. QED
  BY <1>1, <1>2, <1>3, <1>4, <1>5 DEF Processes!Load, Processes!Own

LEMMA OwnReturn == ASSUME OneInv, Return PROVE Processes!Return(current)
<1>1. current \in Alive /\ View[current] = cpu /\ current \in UserPid
  BY CallerAlive DEF Return, InTrap, Alive, OneInv, SwapperIdles
<1>2. Alive' = Alive /\ current' = current
  BY DEF Alive, Return
<1>3. View'[current] = cpu'
  BY <1>1, <1>2 DEF View
<1>4. \A q \in UserPid \ {current} : View'[q] = View[q]
  BY <1>1, <1>2 DEF View, Return, OneInv, Types, UserPid
<1>5. cpu'.at = "user" /\ cpu'.rax \in {"result", "-1"} /\ cpu.at = "stub"
  BY DEF Return, InTrap, InUser
<1>6. QED
  BY <1>1, <1>2, <1>3, <1>4, <1>5 DEF Processes!Return, Processes!Own

LEMMA OwnFork ==
    ASSUME OneInv, Fork PROVE \E c \in UserPid : Processes!Fork(current, c)
<1>1. current \in Alive /\ View[current] = cpu /\ current \in UserPid
  BY CallerAlive DEF Fork, InTrap, Alive, OneInv, SwapperIdles
<1>2. PICK child \in UserPid :
        /\ state[child] = "UNUSED"
        /\ regs' = [regs EXCEPT ![current] = Saved, ![child] = InUser("zero")]
        /\ state' = [state EXCEPT ![child] = IF kernel = "A3" THEN "WAITING" ELSE "READY"]
  BY DEF Fork
<1>3. child \notin Alive /\ child # current
  BY <1>1, <1>2 DEF Alive
<1>4. UNCHANGED current /\ cpu' = InUser("result") /\ cpu.at = "stub"
  BY DEF Fork, InTrap
<1>5. UserPid \subseteq Pid /\ DOMAIN regs = Pid /\ DOMAIN state = Pid
  BY DEF OneInv, Types, UserPid
<1>6. Alive' = Alive \cup {child}
  BY <1>2, <1>5 DEF Alive
<1>7. View'[current] = cpu'
  BY <1>1, <1>4, <1>6 DEF View
<1>8. View'[child] = InUser("zero")
  BY <1>2, <1>3, <1>4, <1>5, <1>6 DEF View
<1>9. \A q \in UserPid \ {current, child} : View'[q] = View[q]
  BY <1>2, <1>4, <1>5, <1>6 DEF View
<1>10. View'[child].at = "user" /\ View'[child].rax = "zero"
  BY <1>8 DEF InUser
<1>11. cpu'.at = "user" /\ cpu'.rax = "result"
  BY <1>4 DEF InUser
<1>12. Processes!Fork(current, child)
  BY <1>1, <1>3, <1>4, <1>6, <1>7, <1>9, <1>10, <1>11 DEF Processes!Fork
<1>13. QED
  BY <1>12

\* schedule changes no process's registers: the ones it loads were saved.
LEMMA OwnScheduled ==
    ASSUME OneInv, NEW st \in [Pid -> ProcessState], NEW rs, DOMAIN rs = Pid,
           NEW S \in SUBSET UserPid,
           S = {p \in UserPid : st[p] # "UNUSED"},
           Schedule(st, rs), regs' = rs
    PROVE  /\ Alive' = S
           /\ \A q \in UserPid : View'[q] = IF q \in S THEN rs[q] ELSE InUser("zero")
<1>1. /\ current' \in Pid /\ (current' = Swapper \/ st[current'] = "READY")
      /\ state' = [st EXCEPT ![current'] = "RUNNING"]
      /\ cpu' = rs[current']
  BY PickReady DEF Schedule, OneInv, Types
<1>2. Alive' = S
  BY <1>1 DEF Alive, UserPid, Swapper
<1>3. QED
  BY <1>1, <1>2 DEF View

LEMMA OwnSleep == ASSUME OneInv, Sleep PROVE Processes!Return(current)
<1> DEFINE st == [state EXCEPT ![current] = "WAITING"]
           rs == [regs EXCEPT ![current] = Saved]
<1>1. current \in Alive /\ View[current] = cpu /\ current \in UserPid
  BY CallerAlive DEF Sleep, InTrap, Alive, OneInv, SwapperIdles
<1>2. UserPid \subseteq Pid /\ DOMAIN regs = Pid /\ state \in [Pid -> ProcessState]
  BY DEF OneInv, Types, UserPid
<1>3. st \in [Pid -> ProcessState] /\ DOMAIN rs = Pid
  BY <1>1, <1>2 DEF ProcessState
<1>4. Alive = {p \in UserPid : st[p] # "UNUSED"} /\ Alive \in SUBSET UserPid
  BY <1>1, <1>2 DEF Alive
<1>5. regs' = rs /\ Schedule(st, rs) /\ cpu.at = "stub"
  BY DEF Sleep, InTrap
<1>6. /\ Alive' = Alive
      /\ \A q \in UserPid : View'[q] = IF q \in Alive THEN rs[q] ELSE InUser("zero")
  <2> HIDE DEF st, rs
  <2>1. QED
    BY <1>3, <1>4, <1>5, OwnScheduled
<1>7. View'[current].at = "user" /\ View'[current].rax = cpu.rax
  BY <1>1, <1>2, <1>6 DEF Saved, InUser
<1>8. \A q \in UserPid \ {current} : View'[q] = View[q]
  BY <1>2, <1>6 DEF View
<1>9. QED
  BY <1>1, <1>5, <1>6, <1>7, <1>8 DEF Processes!Return, Processes!Own

LEMMA OwnExit == ASSUME OneInv, Exit PROVE Processes!Exit(current)
<1> DEFINE st == [state EXCEPT ![current] = "UNUSED"]
           rs == [regs EXCEPT ![current] = Saved]
           S  == Alive \ {current}
<1>1. current \in Alive /\ View[current] = cpu /\ current \in UserPid
  BY CallerAlive DEF Exit, InTrap, Alive, OneInv, SwapperIdles
<1>2. UserPid \subseteq Pid /\ DOMAIN regs = Pid /\ state \in [Pid -> ProcessState]
  BY DEF OneInv, Types, UserPid
<1>3. st \in [Pid -> ProcessState] /\ DOMAIN rs = Pid
  BY <1>1, <1>2 DEF ProcessState
<1>4. S = {p \in UserPid : st[p] # "UNUSED"} /\ S \in SUBSET UserPid
  BY <1>1, <1>2 DEF Alive
<1>5. regs' = rs /\ cpu.at = "stub"
  BY DEF Exit, InTrap
<1>6. CASE Schedule(st, rs)
  <2>1. /\ Alive' = S
        /\ \A q \in UserPid : View'[q] = IF q \in S THEN rs[q] ELSE InUser("zero")
    <3> HIDE DEF st, rs, S
    <3>1. QED
      BY <1>3, <1>4, <1>5, <1>6, OwnScheduled
  <2>2. \A q \in UserPid \ {current} : View'[q] = View[q]
    BY <1>2, <2>1 DEF View
  <2>3. QED
    BY <1>1, <1>5, <2>1, <2>2 DEF Processes!Exit, Processes!Own
<1>7. CASE state' = st /\ UNCHANGED <<current, cpu>>
  <2>1. Alive' = S
    BY <1>4, <1>7 DEF Alive
  <2>2. \A q \in UserPid \ {current} : View'[q] = View[q]
    BY <1>2, <1>5, <1>7, <2>1 DEF View
  <2>3. QED
    BY <1>1, <1>5, <2>1, <2>2 DEF Processes!Exit, Processes!Own
<1>8. QED
  BY <1>6, <1>7 DEF Exit

LEMMA OwnTick == ASSUME OneInv, Tick PROVE UNCHANGED <<Alive, View>>
<1> DEFINE st == [WakeSleepers(state, ticks) EXCEPT ![current] = "READY"]
<1>1. current \in Pid /\ state[current] # "UNUSED" /\ ~ halted
  BY DEF OneInv, Types, OneRuns, Tick
<1>2. UserPid \subseteq Pid /\ DOMAIN regs = Pid /\ state \in [Pid -> ProcessState]
  BY DEF OneInv, Types, UserPid
<1>3. st \in [Pid -> ProcessState]
  BY <1>1, <1>2 DEF ProcessState, WakeSleepers
<1>4. Alive = {p \in UserPid : st[p] # "UNUSED"} /\ Alive \in SUBSET UserPid
  BY <1>1, <1>2 DEF Alive, WakeSleepers, Sleeping
<1>5. CASE PickNext(st, current) = current
  <2>1. state' = st /\ UNCHANGED <<current, cpu, regs>>
    BY <1>5 DEF Tick
  <2>2. Alive' = Alive
    BY <1>4, <2>1 DEF Alive
  <2>3. QED
    BY <2>1, <2>2 DEF View
<1>6. CASE PickNext(st, current) # current
  <2>1. regs' = SavedAtTick /\ Schedule(st, regs)
    BY <1>6 DEF Tick
  <2>2. SavedAtTick[PickNext(st, current)] = regs[PickNext(st, current)]
    BY <1>6 DEF SavedAtTick
  <2>3. Schedule(st, SavedAtTick) /\ DOMAIN SavedAtTick = Pid
    BY <1>2, <2>1, <2>2 DEF Schedule, SavedAtTick
  <2>4. /\ Alive' = Alive
        /\ \A q \in UserPid : View'[q] = IF q \in Alive THEN SavedAtTick[q] ELSE InUser("zero")
    <3> HIDE DEF st
    <3>1. QED
      BY <1>3, <1>4, <2>1, <2>3, OwnScheduled
  <2>5. \A q \in UserPid : View'[q] = View[q]
    BY <1>2, <2>4 DEF View, SavedAtTick
  <2>6. QED
    BY <2>4, <2>5 DEF View
<1>7. QED
  BY <1>5, <1>6

\* Whatever is called and whenever the timer ticks, on each kernel and with any
\* number of contexts, a process finds its registers as it left them or as its
\* own calls set them, and a child starts where its parent is, with the result 0.
THEOREM RegistersOwned == Spec => ImplementsOwnRegisters
<1>1. Init => Processes!Init
  BY OwnInit
<1>2. OneInv /\ [Next]_vars => [Processes!Next]_<<Alive, View>>
  <2> SUFFICES ASSUME OneInv, [Next]_vars PROVE [Processes!Next]_<<Alive, View>>
    OBVIOUS
  <2>1. ASSUME NEW name \in Names, NEW n \in 0 .. 4, Load(name, n)
        PROVE  Processes!Load(current)
    BY <2>1, OwnLoad
  <2>2. current \in UserPid \/ current = Swapper
    BY DEF OneInv, Types, UserPid
  <2>3. (Return \/ Fork \/ Sleep \/ Exit \/ \E name \in Names, n \in 0 .. 4 : Load(name, n))
           => current \in UserPid
    BY <2>2 DEF Return, Fork, Sleep, Exit, Load, InTrap, OneInv, SwapperIdles
  <2>4. CASE \E name \in Names, n \in 0 .. 4 : Load(name, n)
    BY <2>1, <2>3, <2>4 DEF Processes!Next
  <2>5. CASE Return
    BY <2>3, <2>5, OwnReturn DEF Processes!Next
  <2>6. CASE Fork
    BY <2>3, <2>6, OwnFork DEF Processes!Next
  <2>7. CASE Sleep
    BY <2>3, <2>7, OwnSleep DEF Processes!Next
  <2>8. CASE Exit
    BY <2>3, <2>8, OwnExit DEF Processes!Next
  <2>9. CASE Tick
    BY <2>9, OwnTick
  <2>10. CASE UNCHANGED vars
    BY <2>10 DEF vars, Alive, View
  <2>11. QED
    BY <2>4, <2>5, <2>6, <2>7, <2>8, <2>9, <2>10 DEF Next
<1>3. QED
  BY <1>1, <1>2, OneAlways, PTL
     DEF Spec, ImplementsOwnRegisters, Processes!Spec, Processes!vars

-----------------------------------------------------------------------------
(***************************************************************************)
(* The tables: the two numberings are the same on each kernel, and a stub  *)
(* that has a case sets every register the case reads.                     *)
(***************************************************************************)
CommonNames ==
    {"EXIT", "GETPID", "", "EXPAND", "SHRINK", "ALARM", "SLEEP", "SIGNAL",
     "CLONE", "FORK", "STATS", "CONFIGURE", "PHYS_INFO", "DUMP_PTT", "CFORK",
     "MMAP", "MUNMAP", "MPROTECT", "PMAP", "VFORK", "GET_USER_P", "GET_COW_F",
     "OPEN", "READ", "WRITE"}
FileNames == {"PIPE", "DUP", "DUP2", "CLOSE", "LSEEK"}
QueueNames ==
    {"CREATE_MSG_QUEUE", "GET_MEMBER_INFO", "GET_MSG_COUNT", "MSG_QUEUE_BLOCK",
     "MSG_QUEUE_RCV", "MSG_QUEUE_SEND", "MSG_QUEUE_CLOSE", "SENDFILE"}
DebugNames ==
    {"SENDFILE", "BECOME_DEBUGGER", "SET_BREAKPOINT", "REMOVE_BREAKPOINT",
     "ENABLE_BREAKPOINT", "DISABLE_BREAKPOINT", "INFO_BREAKPOINTS",
     "INFO_REGISTERS", "BACKTRACE", "WAIT_AND_CONTINUE", "TEST_BREAKPOINTS"}
HugeNames == {"", "CLOSE", "TEST_HUGEPAGE", "MAKE_HUGEPAGE", "BREAK_HUGEPAGE"}
AllNames == CommonNames \cup FileNames \cup QueueNames \cup DebugNames \cup HugeNames

\* The names that a numbering gives a number to.
Numbered(numbers, names) == \A name \in names : \E i \in DOMAIN numbers : name = numbers[i]

\* The parts of a numbering, of names of AllNames.
NumberedPart(part, names) == part \in Seq(AllNames) /\ Numbered(part, names)

LEMMA NumberedConcat ==
    ASSUME NEW s, NEW t, NEW A, NEW B, NumberedPart(s, A), NumberedPart(t, B)
    PROVE  NumberedPart(s \o t, A \cup B)
<1>1. /\ s \in Seq(AllNames) /\ t \in Seq(AllNames)
      /\ Len(s) \in Nat /\ Len(t) \in Nat
      /\ DOMAIN s = 1 .. Len(s) /\ DOMAIN t = 1 .. Len(t)
  BY LenProperties DEF NumberedPart
<1>2. /\ s \o t \in Seq(AllNames) /\ DOMAIN (s \o t) = 1 .. Len(s) + Len(t)
      /\ \A i \in 1 .. Len(s) : (s \o t)[i] = s[i]
      /\ \A i \in Len(s) + 1 .. Len(s) + Len(t) : (s \o t)[i] = t[i - Len(s)]
  BY <1>1, ConcatProperties, LenProperties
<1>3. ASSUME NEW i \in DOMAIN s
      PROVE  i \in DOMAIN (s \o t) /\ (s \o t)[i] = s[i]
  BY <1>1, <1>2
<1>4. ASSUME NEW i \in DOMAIN t
      PROVE  i + Len(s) \in DOMAIN (s \o t) /\ (s \o t)[i + Len(s)] = t[i]
  <2>1. i \in 1 .. Len(t)
    BY <1>1
  <2>2. i + Len(s) \in Len(s) + 1 .. Len(s) + Len(t) /\ (i + Len(s)) - Len(s) = i
    BY <1>1, <2>1
  <2>3. (s \o t)[i + Len(s)] = t[(i + Len(s)) - Len(s)]
    BY <1>2, <2>2
  <2>4. QED
    BY <1>1, <1>2, <2>2, <2>3
<1>5. Numbered(s \o t, A \cup B)
  <2> SUFFICES ASSUME NEW name \in A \cup B
               PROVE  \E i \in DOMAIN (s \o t) : name = (s \o t)[i]
    BY DEF Numbered
  <2>1. CASE name \in A
    BY <1>3, <2>1 DEF NumberedPart, Numbered
  <2>2. CASE name \in B
    BY <1>4, <2>2 DEF NumberedPart, Numbered
  <2>3. QED
    BY <2>1, <2>2
<1>6. QED
  BY <1>2, <1>5 DEF NumberedPart

LEMMA CommonPart == NumberedPart(UserCommon, CommonNames)
<1>1. UserCommon \in Seq(AllNames)
  BY DEF UserCommon, AllNames, CommonNames
<1>2. DOMAIN UserCommon = 1 .. 25
  BY DEF UserCommon
<1>3. ASSUME NEW name \in CommonNames PROVE \E i \in 1 .. 25 : name = UserCommon[i]
  <2>1. \/ name = UserCommon[1] \/ name = UserCommon[2] \/ name = UserCommon[3]
        \/ name = UserCommon[4] \/ name = UserCommon[5] \/ name = UserCommon[6]
        \/ name = UserCommon[7] \/ name = UserCommon[8] \/ name = UserCommon[9]
        \/ name = UserCommon[10] \/ name = UserCommon[11] \/ name = UserCommon[12]
        \/ name = UserCommon[13] \/ name = UserCommon[14] \/ name = UserCommon[15]
        \/ name = UserCommon[16] \/ name = UserCommon[17] \/ name = UserCommon[18]
        \/ name = UserCommon[19] \/ name = UserCommon[20] \/ name = UserCommon[21]
        \/ name = UserCommon[22] \/ name = UserCommon[23] \/ name = UserCommon[24]
        \/ name = UserCommon[25]
    BY DEF UserCommon, CommonNames
  <2>2. QED
    BY <2>1
<1>4. QED
  BY <1>1, <1>2, <1>3 DEF NumberedPart, Numbered

LEMMA FilePart == NumberedPart(UserFiles, FileNames)
<1>1. UserFiles \in Seq(AllNames)
  BY DEF UserFiles, AllNames, FileNames
<1>2. DOMAIN UserFiles = 1 .. 5
  BY DEF UserFiles
<1>3. ASSUME NEW name \in FileNames PROVE \E i \in 1 .. 5 : name = UserFiles[i]
  <2>1. \/ name = UserFiles[1] \/ name = UserFiles[2] \/ name = UserFiles[3]
        \/ name = UserFiles[4] \/ name = UserFiles[5]
    BY DEF UserFiles, FileNames
  <2>2. QED
    BY <2>1
<1>4. QED
  BY <1>1, <1>2, <1>3 DEF NumberedPart, Numbered

QueueCalls ==
    <<"CREATE_MSG_QUEUE", "GET_MEMBER_INFO", "GET_MSG_COUNT", "MSG_QUEUE_BLOCK",
      "MSG_QUEUE_RCV", "MSG_QUEUE_SEND", "MSG_QUEUE_CLOSE", "SENDFILE">>

LEMMA QueuePart == NumberedPart(QueueCalls, QueueNames)
<1>1. QueueCalls \in Seq(AllNames)
  BY DEF QueueCalls, AllNames, QueueNames
<1>2. DOMAIN QueueCalls = 1 .. 8
  BY DEF QueueCalls
<1>3. ASSUME NEW name \in QueueNames PROVE \E i \in 1 .. 8 : name = QueueCalls[i]
  <2>1. \/ name = QueueCalls[1] \/ name = QueueCalls[2] \/ name = QueueCalls[3]
        \/ name = QueueCalls[4] \/ name = QueueCalls[5] \/ name = QueueCalls[6]
        \/ name = QueueCalls[7] \/ name = QueueCalls[8]
    BY DEF QueueCalls, QueueNames
  <2>2. QED
    BY <2>1
<1>4. QED
  BY <1>1, <1>2, <1>3 DEF NumberedPart, Numbered

DebugCalls ==
    <<"SENDFILE", "BECOME_DEBUGGER", "SET_BREAKPOINT", "REMOVE_BREAKPOINT",
      "ENABLE_BREAKPOINT", "DISABLE_BREAKPOINT", "INFO_BREAKPOINTS",
      "INFO_REGISTERS", "BACKTRACE", "WAIT_AND_CONTINUE", "TEST_BREAKPOINTS">>

LEMMA DebugPart == NumberedPart(DebugCalls, DebugNames)
<1>1. DebugCalls \in Seq(AllNames)
  BY DEF DebugCalls, AllNames, DebugNames
<1>2. DOMAIN DebugCalls = 1 .. 11
  BY DEF DebugCalls
<1>3. ASSUME NEW name \in DebugNames PROVE \E i \in 1 .. 11 : name = DebugCalls[i]
  <2>1. \/ name = DebugCalls[1] \/ name = DebugCalls[2] \/ name = DebugCalls[3]
        \/ name = DebugCalls[4] \/ name = DebugCalls[5] \/ name = DebugCalls[6]
        \/ name = DebugCalls[7] \/ name = DebugCalls[8] \/ name = DebugCalls[9]
        \/ name = DebugCalls[10] \/ name = DebugCalls[11]
    BY DEF DebugCalls, DebugNames
  <2>2. QED
    BY <2>1
<1>4. QED
  BY <1>1, <1>2, <1>3 DEF NumberedPart, Numbered

HugeCalls == <<"", "", "", "CLOSE", "TEST_HUGEPAGE", "MAKE_HUGEPAGE", "BREAK_HUGEPAGE">>

LEMMA HugePart == NumberedPart(HugeCalls, HugeNames)
<1>1. HugeCalls \in Seq(AllNames)
  BY DEF HugeCalls, AllNames, CommonNames, FileNames, QueueNames, DebugNames, HugeNames
<1>2. DOMAIN HugeCalls = 1 .. 7
  BY DEF HugeCalls
<1>3. ASSUME NEW name \in HugeNames PROVE \E i \in 1 .. 7 : name = HugeCalls[i]
  <2>1. \/ name = HugeCalls[1] \/ name = HugeCalls[2] \/ name = HugeCalls[3]
        \/ name = HugeCalls[4] \/ name = HugeCalls[5] \/ name = HugeCalls[6] \/ name = HugeCalls[7]
    BY DEF HugeCalls, HugeNames
  <2>2. QED
    BY <2>1
<1>4. QED
  BY <1>1, <1>2, <1>3 DEF NumberedPart, Numbered

\* entry.h and ulib.h give every call the same number, on each kernel.
LEMMA NumberingsAgree ==
    ASSUME kernel \in {"A2", "A3", "A4"} PROVE KernelNumbers = UserNumbers
<1>1. KernelCommon = UserCommon /\ KernelFiles = UserFiles
  BY DEF KernelCommon, UserCommon, KernelFiles, UserFiles
<1>2. KernelA2 = UserA2 /\ KernelA3 = UserA3 /\ KernelA4 = UserA4
  BY <1>1, Zenon DEF KernelA2, UserA2, KernelA3, UserA3, KernelA4, UserA4
<1>3. QED
  BY <1>2 DEF KernelNumbers, UserNumbers

StubNames == [A2 |-> CommonNames \cup FileNames \cup QueueNames,
              A3 |-> CommonNames \cup FileNames \cup DebugNames,
              A4 |-> CommonNames \cup HugeNames]

LEMMA StubsNumbered ==
    ASSUME kernel \in {"A2", "A3", "A4"}
    PROVE  UserNumbers \in Seq(AllNames) /\ Numbered(UserNumbers, StubNames[kernel])
<1>1. CASE kernel = "A2"
  <2>1. NumberedPart(UserCommon \o UserFiles \o QueueCalls,
                     (CommonNames \cup FileNames) \cup QueueNames)
    BY CommonPart, FilePart, QueuePart, NumberedConcat
  <2>2. UserNumbers = UserCommon \o UserFiles \o QueueCalls
    BY <1>1 DEF UserNumbers, UserA2, QueueCalls
  <2>3. QED
    BY <1>1, <2>1, <2>2 DEF NumberedPart, StubNames
<1>2. CASE kernel = "A3"
  <2>1. NumberedPart(UserCommon \o UserFiles \o DebugCalls,
                     (CommonNames \cup FileNames) \cup DebugNames)
    BY CommonPart, FilePart, DebugPart, NumberedConcat
  <2>2. UserNumbers = UserCommon \o UserFiles \o DebugCalls
    BY <1>2 DEF UserNumbers, UserA3, DebugCalls
  <2>3. QED
    BY <1>2, <2>1, <2>2 DEF NumberedPart, StubNames
<1>3. CASE kernel = "A4"
  <2>1. NumberedPart(UserCommon \o HugeCalls, CommonNames \cup HugeNames)
    BY CommonPart, HugePart, NumberedConcat
  <2>2. UserNumbers = UserCommon \o HugeCalls
    BY <1>3 DEF UserNumbers, UserA4, HugeCalls
  <2>3. QED
    BY <1>3, <2>1, <2>2 DEF NumberedPart, StubNames
<1>4. QED
  BY <1>1, <1>2, <1>3

\* The calls that have a stub and no case.
Unserved == {<<"A2", "DUP">>, <<"A3", "SENDFILE">>, <<"A4", "MPROTECT">>}

\* What a stub with n arguments leads to.
Fits(stubs, cases, names, missing) ==
    \A n \in 0 .. 4 :
        /\ stubs[n + 1] \subseteq names
        /\ stubs[n + 1] \subseteq cases[n + 1] \cup {missing}
        /\ \A m \in 1 .. 5 : m > n + 1 => stubs[n + 1] \cap cases[m] = {}
        /\ "OPEN" \in stubs[n + 1] => n = 2

LEMMA CommonStubNames ==
    ASSUME NEW n \in 0 .. 4 PROVE StubsCommon[n + 1] \subseteq CommonNames \cup {"CLOSE"}
<1>1. n = 0 => StubsCommon[n + 1] \subseteq CommonNames \cup {"CLOSE"}
  BY DEF StubsCommon, CommonNames
<1>2. n = 1 => StubsCommon[n + 1] \subseteq CommonNames \cup {"CLOSE"}
  BY DEF StubsCommon, CommonNames
<1>3. n = 2 => StubsCommon[n + 1] \subseteq CommonNames \cup {"CLOSE"}
  BY DEF StubsCommon, CommonNames
<1>4. n = 3 => StubsCommon[n + 1] \subseteq CommonNames \cup {"CLOSE"}
  BY DEF StubsCommon, CommonNames
<1>5. n = 4 => StubsCommon[n + 1] \subseteq CommonNames \cup {"CLOSE"}
  BY DEF StubsCommon, CommonNames
<1>6. QED
  BY <1>1, <1>2, <1>3, <1>4, <1>5

LEMMA FileStubNames ==
    ASSUME NEW n \in 0 .. 4 PROVE StubsOfFiles[n + 1] \subseteq CommonNames \cup FileNames \cup {"SENDFILE"}
<1>1. n = 0 => StubsOfFiles[n + 1] \subseteq CommonNames \cup FileNames \cup {"SENDFILE"}
  BY DEF StubsOfFiles, CommonNames, FileNames
<1>2. n = 1 => StubsOfFiles[n + 1] \subseteq CommonNames \cup FileNames \cup {"SENDFILE"}
  BY DEF StubsOfFiles, CommonNames, FileNames
<1>3. n = 2 => StubsOfFiles[n + 1] \subseteq CommonNames \cup FileNames \cup {"SENDFILE"}
  BY DEF StubsOfFiles, CommonNames, FileNames
<1>4. n = 3 => StubsOfFiles[n + 1] \subseteq CommonNames \cup FileNames \cup {"SENDFILE"}
  BY DEF StubsOfFiles, CommonNames, FileNames
<1>5. n = 4 => StubsOfFiles[n + 1] \subseteq CommonNames \cup FileNames \cup {"SENDFILE"}
  BY DEF StubsOfFiles, CommonNames, FileNames
<1>6. QED
  BY <1>1, <1>2, <1>3, <1>4, <1>5

LEMMA QueueStubNames ==
    ASSUME NEW n \in 0 .. 4 PROVE QueueStubs[n + 1] \subseteq QueueNames
<1>1. n = 0 => QueueStubs[n + 1] \subseteq QueueNames
  BY DEF QueueStubs, QueueNames
<1>2. n = 1 => QueueStubs[n + 1] \subseteq QueueNames
  BY DEF QueueStubs, QueueNames
<1>3. n = 2 => QueueStubs[n + 1] \subseteq QueueNames
  BY DEF QueueStubs, QueueNames
<1>4. n = 3 => QueueStubs[n + 1] \subseteq QueueNames
  BY DEF QueueStubs, QueueNames
<1>5. n = 4 => QueueStubs[n + 1] \subseteq QueueNames
  BY DEF QueueStubs, QueueNames
<1>6. QED
  BY <1>1, <1>2, <1>3, <1>4, <1>5

LEMMA DebugStubNames ==
    ASSUME NEW n \in 0 .. 4 PROVE DebugStubs[n + 1] \subseteq DebugNames
<1>1. n = 0 => DebugStubs[n + 1] \subseteq DebugNames
  BY DEF DebugStubs, DebugNames
<1>2. n = 1 => DebugStubs[n + 1] \subseteq DebugNames
  BY DEF DebugStubs, DebugNames
<1>3. n = 2 => DebugStubs[n + 1] \subseteq DebugNames
  BY DEF DebugStubs, DebugNames
<1>4. n = 3 => DebugStubs[n + 1] \subseteq DebugNames
  BY DEF DebugStubs, DebugNames
<1>5. n = 4 => DebugStubs[n + 1] \subseteq DebugNames
  BY DEF DebugStubs, DebugNames
<1>6. QED
  BY <1>1, <1>2, <1>3, <1>4, <1>5

LEMMA FitsA2 ==
    Fits(StubsA2, CasesA2, CommonNames \cup FileNames \cup QueueNames, "DUP")
<1> DEFINE names == CommonNames \cup FileNames \cup QueueNames
<1> SUFFICES ASSUME NEW n \in 0 .. 4
             PROVE  /\ StubsA2[n + 1] \subseteq names
                    /\ StubsA2[n + 1] \subseteq CasesA2[n + 1] \cup {"DUP"}
                    /\ \A m \in 1 .. 5 : m > n + 1 => StubsA2[n + 1] \cap CasesA2[m] = {}
                    /\ "OPEN" \in StubsA2[n + 1] => n = 2
  BY Zenon DEF Fits
<1>1. StubsA2[n + 1] \subseteq names
  <2>1. StubsA2[n + 1] = (StubsCommon[n + 1] \cup StubsOfFiles[n + 1]) \cup QueueStubs[n + 1]
    BY DEF StubsA2, With
  <2>2. "CLOSE" \in FileNames /\ "SENDFILE" \in QueueNames
    BY DEF FileNames, QueueNames
  <2>3. QED
    BY <2>1, <2>2, CommonStubNames, FileStubNames, QueueStubNames
<1>2. StubsA2[n + 1] \subseteq CasesA2[n + 1] \cup {"DUP"}
  BY DEF StubsA2, CasesA2, With, StubsCommon, StubsOfFiles, QueueStubs, CasesCommon,
     CasesOfFiles
<1>3. \A m \in 1 .. 5 : m > n + 1 => StubsA2[n + 1] \cap CasesA2[m] = {}
  BY DEF StubsA2, CasesA2, With, StubsCommon, StubsOfFiles, QueueStubs, CasesCommon,
     CasesOfFiles
<1>4. "OPEN" \in StubsA2[n + 1] => n = 2
  BY DEF StubsA2, With, StubsCommon, StubsOfFiles, QueueStubs
<1>5. QED
  BY <1>1, <1>2, <1>3, <1>4

LEMMA FitsA3 ==
    Fits(StubsA3, CasesA3, CommonNames \cup FileNames \cup DebugNames, "SENDFILE")
<1> DEFINE names == CommonNames \cup FileNames \cup DebugNames
<1> SUFFICES ASSUME NEW n \in 0 .. 4
             PROVE  /\ StubsA3[n + 1] \subseteq names
                    /\ StubsA3[n + 1] \subseteq CasesA3[n + 1] \cup {"SENDFILE"}
                    /\ \A m \in 1 .. 5 : m > n + 1 => StubsA3[n + 1] \cap CasesA3[m] = {}
                    /\ "OPEN" \in StubsA3[n + 1] => n = 2
  BY Zenon DEF Fits
<1>1. StubsA3[n + 1] \subseteq names
  <2>1. StubsA3[n + 1] = (StubsCommon[n + 1] \cup StubsOfFiles[n + 1]) \cup DebugStubs[n + 1]
    BY DEF StubsA3, With
  <2>2. "CLOSE" \in FileNames /\ "SENDFILE" \in DebugNames
    BY DEF FileNames, DebugNames
  <2>3. QED
    BY <2>1, <2>2, CommonStubNames, FileStubNames, DebugStubNames
<1>2. StubsA3[n + 1] \subseteq CasesA3[n + 1] \cup {"SENDFILE"}
  BY DEF StubsA3, CasesA3, With, StubsCommon, StubsOfFiles, DebugStubs, CasesCommon,
     CasesOfFiles
<1>3. \A m \in 1 .. 5 : m > n + 1 => StubsA3[n + 1] \cap CasesA3[m] = {}
  BY DEF StubsA3, CasesA3, With, StubsCommon, StubsOfFiles, DebugStubs, CasesCommon,
     CasesOfFiles
<1>4. "OPEN" \in StubsA3[n + 1] => n = 2
  BY DEF StubsA3, With, StubsCommon, StubsOfFiles, DebugStubs
<1>5. QED
  BY <1>1, <1>2, <1>3, <1>4

LEMMA FitsA4 == Fits(StubsA4, CasesA4, CommonNames \cup HugeNames, "MPROTECT")
<1> SUFFICES ASSUME NEW n \in 0 .. 4
             PROVE  /\ StubsA4[n + 1] \subseteq CommonNames \cup HugeNames
                    /\ StubsA4[n + 1] \subseteq CasesA4[n + 1] \cup {"MPROTECT"}
                    /\ \A m \in 1 .. 5 : m > n + 1 => StubsA4[n + 1] \cap CasesA4[m] = {}
                    /\ "OPEN" \in StubsA4[n + 1] => n = 2
  BY Zenon DEF Fits
<1>1. StubsA4[n + 1] \subseteq CommonNames \cup HugeNames
  <2>1. StubsA4[n + 1] \subseteq StubsCommon[n + 1] \cup {"BREAK_HUGEPAGE", "MAKE_HUGEPAGE"}
    BY DEF StubsA4, With
  <2>2. {"BREAK_HUGEPAGE", "MAKE_HUGEPAGE", "CLOSE"} \subseteq HugeNames
    BY DEF HugeNames
  <2>3. QED
    BY <2>1, <2>2, CommonStubNames
<1>2. StubsA4[n + 1] \subseteq CasesA4[n + 1] \cup {"MPROTECT"}
  BY DEF StubsA4, CasesA4, With, StubsCommon, CasesCommon
<1>3. \A m \in 1 .. 5 : m > n + 1 => StubsA4[n + 1] \cap CasesA4[m] = {}
  BY DEF StubsA4, CasesA4, With, StubsCommon, CasesCommon
<1>4. "OPEN" \in StubsA4[n + 1] => n = 2
  BY DEF StubsA4, With, StubsCommon
<1>5. QED
  BY <1>1, <1>2, <1>3, <1>4

LEMMA TablesFit ==
    ASSUME kernel \in {"A2", "A3", "A4"}
    PROVE  \E missing : /\ <<kernel, missing>> \in Unserved
                        /\ Fits(Stubs, Cases, StubNames[kernel], missing)
<1>1. CASE kernel = "A2"
  <2>1. Stubs = StubsA2 /\ Cases = CasesA2 /\ <<kernel, "DUP">> \in Unserved
        /\ StubNames[kernel] = CommonNames \cup FileNames \cup QueueNames
    BY <1>1 DEF Stubs, Cases, StubNames, Unserved
  <2>2. QED
    BY <2>1, FitsA2, Zenon
<1>2. CASE kernel = "A3"
  <2>1. Stubs = StubsA3 /\ Cases = CasesA3 /\ <<kernel, "SENDFILE">> \in Unserved
        /\ StubNames[kernel] = CommonNames \cup FileNames \cup DebugNames
    BY <1>2 DEF Stubs, Cases, StubNames, Unserved
  <2>2. QED
    BY <2>1, FitsA3, Zenon
<1>3. CASE kernel = "A4"
  <2>1. Stubs = StubsA4 /\ Cases = CasesA4 /\ <<kernel, "MPROTECT">> \in Unserved
        /\ StubNames[kernel] = CommonNames \cup HugeNames
    BY <1>3 DEF Stubs, Cases, StubNames, Unserved
  <2>2. QED
    BY <2>1, FitsA4, Zenon
<1>4. QED
  BY <1>1, <1>2, <1>3

-----------------------------------------------------------------------------
(***************************************************************************)
(* Calls and their handlers.  A process that is interrupted between the    *)
(* first register and the trap has in its saved registers, and has back on *)
(* the processor, what the stub it is in has set.                          *)
(***************************************************************************)
RegsMatch(r, name) ==
    r.at = "stub" =>
        \E n \in 0 .. 4 : /\ name \in Stubs[n + 1] /\ r.nr = Number(name)
                          /\ r.creat => name = "OPEN"
                          /\ r.set = IF r.creat THEN n + 1 ELSE n

RegTypes ==
    /\ kernel \in Kernels /\ halted \in BOOLEAN
    /\ cpu \in Registers /\ regs \in [Pid -> Registers]
    /\ calling \in [Pid -> Names \cup {""}]

CallsInv ==
    /\ RegTypes
    /\ ~ halted => RegsMatch(cpu, calling[current])
    /\ \A p \in Pid : p # current => RegsMatch(regs[p], calling[p])

\* The kernel that runs does not change, nor do its tables.
LEMMA TablesKept ==
    ASSUME UNCHANGED kernel
    PROVE  /\ Stubs' = Stubs /\ Names' = Names
           /\ \A r, name : RegsMatch(r, name)' <=> RegsMatch(r, name)
<1>1. Stubs' = Stubs /\ UserNumbers' = UserNumbers
  BY DEF Stubs, UserNumbers
<1>2. Names' = Names
  BY <1>1, Zenon DEF Names
<1>3. \A name : Number(name)' = Number(name)
  BY <1>1, Zenon DEF Number
<1>4. QED
  BY <1>1, <1>2, <1>3 DEF RegsMatch

LEMMA UserMatches ==
    ASSUME NEW rax \in {"zero", "result", "-1"}
    PROVE  InUser(rax) \in Registers /\ \A name : RegsMatch(InUser(rax), name)
  BY DEF InUser, Registers, RegsMatch

\* A stub of the kernel that runs has a number, and is one of Names.
LEMMA StubNumber ==
    ASSUME kernel \in Kernels, NEW n \in 0 .. 4, NEW name \in Stubs[n + 1]
    PROVE  /\ name \in Names /\ Number(name) \in Nat
           /\ Number(name) \in DOMAIN UserNumbers /\ UserNumbers[Number(name)] = name
<1>1. kernel \in {"A2", "A3", "A4"}
  BY SyscallsAssumption
<1>2. name \in StubNames[kernel]
  BY <1>1, TablesFit DEF Fits
<1>3. \E i \in DOMAIN UserNumbers : UserNumbers[i] = name
  BY <1>1, <1>2, StubsNumbered DEF Numbered
<1>4. Number(name) \in DOMAIN UserNumbers /\ UserNumbers[Number(name)] = name
  BY <1>3, Zenon DEF Number
<1>5. Number(name) \in Nat
  BY <1>1, <1>4, StubsNumbered, LenProperties
<1>6. DOMAIN Stubs = 1 .. 5
  BY <1>1 DEF Stubs, StubsA2, StubsA3, StubsA4, With
<1>7. name \in Names
  BY <1>6 DEF Names, Range
<1>8. QED
  BY <1>4, <1>5, <1>7

LEMMA CallsInit == Init => CallsInv
<1> SUFFICES ASSUME Init PROVE CallsInv
  OBVIOUS
<1>1. InUser("zero") \in Registers /\ \A name : RegsMatch(InUser("zero"), name)
  BY UserMatches
<1>2. QED
  BY <1>1 DEF Init, CallsInv, RegTypes

LEMMA CallsLoad ==
    ASSUME OneInv, CallsInv, NEW name, NEW n \in 0 .. 4, Load(name, n) PROVE CallsInv'
<1>1. current \in Pid /\ UNCHANGED <<kernel, current, regs, halted>>
      /\ calling' = [calling EXCEPT ![current] = name] /\ name \in Stubs[n + 1]
  BY DEF OneInv, Types, Load
<1>2. PICK creat \in IF name \in WithCreat THEN BOOLEAN ELSE {FALSE} :
         cpu' = [at |-> "stub", nr |-> Number(name), creat |-> creat, rax |-> cpu.rax,
                 set |-> IF creat THEN n + 1 ELSE n]
  BY DEF Load
<1>3. creat \in BOOLEAN /\ (creat => name = "OPEN")
  BY <1>2 DEF WithCreat
<1>4. name \in Names /\ Number(name) \in Nat
  BY <1>1, StubNumber DEF CallsInv, RegTypes
<1>5. name = "OPEN" => n = 2
  BY <1>1, TablesFit, SyscallsAssumption DEF Fits, CallsInv, RegTypes
<1>6. cpu' \in Registers
  <2>1. cpu.rax \in {"zero", "result", "-1"}
    BY DEF CallsInv, RegTypes, Registers
  <2>2. CASE creat = TRUE
    <3>1. cpu' = [at |-> "stub", nr |-> Number(name), creat |-> TRUE, rax |-> cpu.rax,
                  set |-> n + 1] /\ n + 1 \in 0 .. 4
      BY <1>2, <1>3, <1>5, <2>2
    <3>2. QED
      BY <1>4, <2>1, <3>1 DEF Registers
  <2>3. CASE creat = FALSE
    <3>1. cpu' = [at |-> "stub", nr |-> Number(name), creat |-> FALSE, rax |-> cpu.rax,
                  set |-> n]
      BY <1>2, <2>3
    <3>2. QED
      BY <1>4, <2>1, <3>1 DEF Registers
  <2>4. QED
    BY <1>3, <2>2, <2>3
<1>7. RegTypes'
  BY <1>1, <1>4, <1>6, TablesKept DEF CallsInv, RegTypes
<1>8. RegsMatch(cpu', name)
  <2>1. cpu'.nr = Number(name) /\ (cpu'.creat => name = "OPEN")
        /\ cpu'.set = IF cpu'.creat THEN n + 1 ELSE n
    BY <1>2, <1>3
  <2>2. QED
    BY <1>1, <2>1 DEF RegsMatch
<1>9. RegsMatch(cpu, calling[current])'
  BY <1>1, <1>8, TablesKept DEF CallsInv, RegTypes
<1>10. \A p \in Pid : p # current => RegsMatch(regs[p], calling[p])'
  BY <1>1, TablesKept DEF CallsInv, RegTypes
<1>11. QED
  BY <1>1, <1>7, <1>9, <1>10 DEF CallsInv

\* Saved, and what a call returns, are registers of a process outside its stubs.
LEMMA SavedMatches ==
    ASSUME CallsInv
    PROVE  Saved \in Registers /\ \A name : RegsMatch(Saved, name)
<1>1. cpu.rax \in {"zero", "result", "-1"}
  BY DEF CallsInv, RegTypes, Registers
<1>2. QED
  BY <1>1, UserMatches DEF Saved

LEMMA CallsReturn == ASSUME OneInv, CallsInv, Return PROVE CallsInv'
<1>1. current \in Pid /\ UNCHANGED <<kernel, current, halted>>
      /\ calling' = [calling EXCEPT ![current] = ""]
      /\ regs' = [regs EXCEPT ![current] = Saved]
  BY DEF OneInv, Types, Return, Left
<1>2. cpu' \in Registers /\ \A name : RegsMatch(cpu', name)
  BY UserMatches DEF Return
<1>3. RegTypes'
  BY <1>1, <1>2, SavedMatches, TablesKept DEF CallsInv, RegTypes
<1>4. RegsMatch(cpu, calling[current])'
  BY <1>1, <1>2, TablesKept
<1>5. \A p \in Pid : p # current => RegsMatch(regs[p], calling[p])'
  BY <1>1, TablesKept DEF CallsInv, RegTypes
<1>6. QED
  BY <1>1, <1>3, <1>4, <1>5 DEF CallsInv

LEMMA CallsFork == ASSUME OneInv, CallsInv, Fork PROVE CallsInv'
<1>1. current \in Pid /\ UNCHANGED <<kernel, current, halted>>
      /\ calling' = [calling EXCEPT ![current] = ""]
  BY DEF OneInv, Types, Fork, Left
<1>2. PICK child \in UserPid :
         regs' = [regs EXCEPT ![current] = Saved, ![child] = InUser("zero")]
  BY DEF Fork
<1>3. cpu' \in Registers /\ \A name : RegsMatch(cpu', name)
  BY UserMatches DEF Fork
<1>4. InUser("zero") \in Registers /\ \A name : RegsMatch(InUser("zero"), name)
  BY UserMatches
<1>5. RegTypes'
  BY <1>1, <1>2, <1>3, <1>4, SavedMatches, TablesKept DEF CallsInv, RegTypes
<1>6. RegsMatch(cpu, calling[current])'
  BY <1>1, <1>3, TablesKept
<1>7. ASSUME NEW p \in Pid, p # current PROVE RegsMatch(regs[p], calling[p])'
  <2>1. calling'[p] = calling[p] /\ regs'[p] = IF p = child THEN InUser("zero") ELSE regs[p]
    BY <1>1, <1>2, <1>7 DEF CallsInv, RegTypes
  <2>2. RegsMatch(regs[p], calling[p])
    BY <1>7 DEF CallsInv
  <2>3. RegsMatch(regs'[p], calling'[p])
    BY <1>4, <2>1, <2>2
  <2>4. QED
    BY <1>1, <2>3, TablesKept
<1>8. QED
  BY <1>1, <1>5, <1>6, <1>7 DEF CallsInv

\* What schedule puts on the processor is what is saved for its choice.
LEMMA CallsScheduled ==
    ASSUME CallsInv, current \in Pid, NEW st, NEW rs \in [Pid -> Registers],
           UNCHANGED kernel, halted' \in BOOLEAN,
           calling' \in [Pid -> Names \cup {""}],
           \A p \in Pid : RegsMatch(rs[p], calling'[p]),
           regs' = rs, Schedule(st, rs)
    PROVE  CallsInv'
<1>1. current' \in Pid /\ cpu' = rs[current']
  BY PickReady DEF Schedule
<1>2. RegTypes'
  BY <1>1, TablesKept DEF CallsInv, RegTypes
<1>3. \A p \in Pid : RegsMatch(regs[p], calling[p])'
  BY TablesKept
<1>4. RegsMatch(cpu, calling[current])'
  BY <1>1, TablesKept
<1>5. QED
  BY <1>2, <1>3, <1>4 DEF CallsInv

\* do_syscall saves the registers of the caller, who is out of its stub.
LEMMA CallerSaved ==
    ASSUME CallsInv, current \in Pid, Left,
           NEW rs, rs = [regs EXCEPT ![current] = Saved]
    PROVE  /\ rs \in [Pid -> Registers] /\ calling' \in [Pid -> Names \cup {""}]
           /\ \A p \in Pid : RegsMatch(rs[p], calling'[p])
<1>1. calling' = [calling EXCEPT ![current] = ""]
  BY DEF Left
<1>2. rs \in [Pid -> Registers] /\ calling' \in [Pid -> Names \cup {""}]
  BY <1>1, SavedMatches DEF CallsInv, RegTypes
<1>3. ASSUME NEW p \in Pid PROVE RegsMatch(rs[p], calling'[p])
  <2>1. CASE p = current
    <3>1. rs[p] = Saved
      BY <2>1 DEF CallsInv, RegTypes
    <3>2. QED
      BY <3>1, SavedMatches
  <2>2. CASE p # current
    <3>1. rs[p] = regs[p] /\ calling'[p] = calling[p]
      BY <1>1, <2>2 DEF CallsInv, RegTypes
    <3>2. QED
      BY <2>2, <3>1 DEF CallsInv
  <2>3. QED
    BY <2>1, <2>2
<1>4. QED
  BY <1>2, <1>3

LEMMA CallsSleep == ASSUME OneInv, CallsInv, Sleep PROVE CallsInv'
<1> DEFINE rs == [regs EXCEPT ![current] = Saved]
           st == [state EXCEPT ![current] = "WAITING"]
<1>1. current \in Pid /\ Left /\ UNCHANGED <<kernel, halted>> /\ regs' = rs /\ Schedule(st, rs)
  BY DEF OneInv, Types, Sleep
<1>2. halted' \in BOOLEAN
  BY <1>1 DEF CallsInv, RegTypes
<1>3. /\ rs \in [Pid -> Registers] /\ calling' \in [Pid -> Names \cup {""}]
      /\ \A p \in Pid : RegsMatch(rs[p], calling'[p])
  BY <1>1, CallerSaved
<1> HIDE DEF rs, st
<1>4. QED
  BY <1>1, <1>2, <1>3, CallsScheduled

LEMMA CallsExit == ASSUME OneInv, CallsInv, Exit PROVE CallsInv'
<1> DEFINE rs == [regs EXCEPT ![current] = Saved]
           st == [state EXCEPT ![current] = "UNUSED"]
<1>1. current \in Pid /\ Left /\ UNCHANGED kernel /\ regs' = rs
  BY DEF OneInv, Types, Exit
<1>2. /\ rs \in [Pid -> Registers] /\ calling' \in [Pid -> Names \cup {""}]
      /\ \A p \in Pid : RegsMatch(rs[p], calling'[p])
  BY <1>1, CallerSaved
<1>3. CASE Schedule(st, rs) /\ UNCHANGED halted
  <2>1. halted' \in BOOLEAN
    BY <1>3 DEF CallsInv, RegTypes
  <2> HIDE DEF rs, st
  <2>2. QED
    BY <1>1, <1>2, <1>3, <2>1, CallsScheduled
<1>4. CASE halted' = TRUE /\ UNCHANGED <<current, cpu>>
  <2>1. RegTypes'
    BY <1>1, <1>2, <1>4, TablesKept DEF CallsInv, RegTypes
  <2>2. \A p \in Pid : RegsMatch(regs[p], calling[p])'
    BY <1>1, <1>2, TablesKept
  <2>3. QED
    BY <1>4, <2>1, <2>2 DEF CallsInv
<1>5. QED
  BY <1>3, <1>4 DEF Exit

\* A tick saves the registers of the context that leaves, wherever it is.
LEMMA CallsTick == ASSUME OneInv, CallsInv, Tick PROVE CallsInv'
<1> DEFINE st == [WakeSleepers(state, ticks) EXCEPT ![current] = "READY"]
<1>1. current \in Pid /\ ~ halted /\ UNCHANGED <<kernel, calling, halted>>
  BY DEF OneInv, Types, Tick
<1>2. CASE UNCHANGED <<current, cpu, regs>>
  <2>1. RegTypes'
    BY <1>1, <1>2, TablesKept DEF CallsInv, RegTypes
  <2>2. QED
    BY <1>1, <1>2, <2>1, TablesKept DEF CallsInv
<1>3. CASE PickNext(st, current) # current
  <2>1. regs' = SavedAtTick /\ Schedule(st, regs)
    BY <1>3 DEF Tick
  <2>2. SavedAtTick[PickNext(st, current)] = regs[PickNext(st, current)]
    BY <1>3 DEF SavedAtTick
  <2>3. Schedule(st, SavedAtTick)
    BY <2>1, <2>2 DEF Schedule
  <2>4. SavedAtTick \in [Pid -> Registers]
    BY DEF SavedAtTick, CallsInv, RegTypes
  <2>5. ASSUME NEW p \in Pid PROVE RegsMatch(SavedAtTick[p], calling'[p])
    <3>1. SavedAtTick[p] = IF p = current THEN cpu ELSE regs[p]
      BY DEF SavedAtTick, CallsInv, RegTypes
    <3>2. QED
      BY <1>1, <3>1 DEF CallsInv
  <2>6. calling' \in [Pid -> Names \cup {""}] /\ halted' \in BOOLEAN
    BY <1>1 DEF CallsInv, RegTypes
  <2> HIDE DEF st
  <2>7. QED
    BY <1>1, <2>1, <2>3, <2>4, <2>5, <2>6, CallsScheduled
<1>4. QED
  BY <1>2, <1>3 DEF Tick

LEMMA CallsAlways == Spec => []CallsInv
<1>1. Init => CallsInv
  BY CallsInit
<1>2. OneInv /\ CallsInv /\ [Next]_vars => CallsInv'
  <2> SUFFICES ASSUME OneInv, CallsInv, [Next]_vars PROVE CallsInv'
    OBVIOUS
  <2>1. CASE \E name \in Names, n \in 0 .. 4 : Load(name, n)
    BY <2>1, CallsLoad
  <2>2. CASE Return
    BY <2>2, CallsReturn
  <2>3. CASE Fork
    BY <2>3, CallsFork
  <2>4. CASE Sleep
    BY <2>4, CallsSleep
  <2>5. CASE Exit
    BY <2>5, CallsExit
  <2>6. CASE Tick
    BY <2>6, CallsTick
  <2>7. CASE UNCHANGED vars
    BY <2>7, TablesKept DEF vars, CallsInv, RegTypes
  <2>8. QED
    BY <2>1, <2>2, <2>3, <2>4, <2>5, <2>6, <2>7 DEF Next
<1>3. QED
  BY <1>1, <1>2, OneAlways, PTL DEF Spec

\* On each kernel, and however calls, ticks, forks and sleeps of any number of
\* processes interleave, all variables keep their types: every saved register set
\* is one that a stub or a return has made.
THEOREM SyscallTypes == Spec => []TypeOK
<1>1. OneInv /\ CallsInv => TypeOK
  BY DEF OneInv, Types, CallsInv, RegTypes, TypeOK
<1>2. QED
  BY <1>1, OneAlways, CallsAlways, PTL

\* On each kernel a trap reaches the handler of the stub the process is in, and the
\* handler reads no register that the stub has not set, although any number of
\* other processes may have run between the first register and the trap; dup,
\* sendfile and mprotect have no case on one kernel each.
THEOREM CallsReachHandlers == Spec => []CallsArrive
<1>1. CallsInv => CallsArrive
  <2> SUFFICES ASSUME CallsInv, cpu.at = "stub", ~ halted PROVE CallsArrive
    BY DEF CallsArrive
  <2> DEFINE name == calling[current]
  <2>1. PICK n \in 0 .. 4 : /\ name \in Stubs[n + 1] /\ cpu.nr = Number(name)
                            /\ cpu.set = IF cpu.creat THEN n + 1 ELSE n
    BY DEF CallsInv, RegsMatch
  <2>2. kernel \in {"A2", "A3", "A4"}
    BY SyscallsAssumption DEF CallsInv, RegTypes
  <2>3. Number(name) \in DOMAIN UserNumbers /\ UserNumbers[Number(name)] = name
    BY <2>1, StubNumber DEF CallsInv, RegTypes
  <2>4. Handler = name
    BY <2>1, <2>2, <2>3, NumberingsAgree DEF Handler
  <2>5. PICK missing : <<kernel, missing>> \in Unserved
                       /\ Fits(Stubs, Cases, StubNames[kernel], missing)
    BY <2>2, TablesFit
  <2>6. ASSUME NEW m \in 1 .. 5, name \in Cases[m]
        PROVE  cpu.set >= IF cpu.creat THEN m ELSE m - 1
    <3>1. m <= n + 1
      BY <2>1, <2>5, <2>6 DEF Fits
    <3>2. QED
      BY <2>1, <3>1
  <2>7. ~ Served => name = missing
    <3>1. name \in Cases[n + 1] \cup {missing} /\ n + 1 \in 1 .. 5
      BY <2>1, <2>5 DEF Fits
    <3>2. QED
      BY <2>4, <3>1 DEF Served
  <2> HIDE DEF name
  <2>8. ~ Served => <<kernel, name>> \in {<<"A2", "DUP">>, <<"A3", "SENDFILE">>, <<"A4", "MPROTECT">>}
    BY <2>5, <2>7 DEF Unserved
  <2>9. QED
    BY <2>4, <2>6, <2>8 DEF CallsArrive, name
<1>2. QED
  BY <1>1, CallsAlways, PTL
=============================================================================
