------------------------------ MODULE Syscalls ------------------------------
(***************************************************************************)
(* The way into the kernels of Assignments 2, 3 and 4 and out again.  A    *)
(* stub of user/lib.c leaves the number of its call and its arguments in   *)
(* registers and traps; do_syscall saves the registers in the context and  *)
(* hands the arguments to a handler; sleep, exit and every timer tick may  *)
(* put another context on the processor, with the registers saved for it.  *)
(* Numbers are agreed on by two headers, ulib.h and entry.h, and nothing   *)
(* checks that the stub sets as many registers as the handler reads.       *)
(***************************************************************************)
EXTENDS Contexts, Sequences, SequencesExt, Functions

CONSTANTS Kernels,     \* of "A2", "A3" and "A4"
          SleepTicks,  \* arguments of sleep
          ByOthers     \* the calls of processes other than the first

ASSUME SyscallsAssumption ==
    Kernels \subseteq {"A2", "A3", "A4"} /\ SleepTicks \subseteq Nat \ {0}

VARIABLES
    kernel,   \* which of the three kernels runs
    state, ticks,   \* of each context: state and ticks_to_sleep
    current,  \* the context on the processor
    regs,     \* the registers saved in each context
    cpu,      \* the registers of the processor in user mode
    calling,  \* the stub each process is in
    halted    \* do_cleanup has stopped the machine

vars == <<kernel, state, ticks, current, regs, cpu, calling, halted>>

-----------------------------------------------------------------------------
(* The two numberings: the place of a name is its number.                   *)

UserCommon ==
    <<"EXIT", "GETPID", "", "EXPAND", "SHRINK", "ALARM", "SLEEP", "SIGNAL",
      "CLONE", "FORK", "STATS", "CONFIGURE", "PHYS_INFO", "DUMP_PTT", "CFORK",
      "MMAP", "MUNMAP", "MPROTECT", "PMAP", "VFORK", "GET_USER_P", "GET_COW_F",
      "OPEN", "READ", "WRITE">>
UserFiles == <<"PIPE", "DUP", "DUP2", "CLOSE", "LSEEK">>

\* Variant: SENDFILE has the number it has in the kernel of Assignment 3.
UserA2Collides == UserCommon \o UserFiles \o
    <<"SENDFILE", "GET_MEMBER_INFO", "GET_MSG_COUNT", "MSG_QUEUE_BLOCK",
      "MSG_QUEUE_RCV", "MSG_QUEUE_SEND", "MSG_QUEUE_CLOSE", "CREATE_MSG_QUEUE">>

UserA2 == UserCommon \o UserFiles \o
    <<"CREATE_MSG_QUEUE", "GET_MEMBER_INFO", "GET_MSG_COUNT", "MSG_QUEUE_BLOCK",
      "MSG_QUEUE_RCV", "MSG_QUEUE_SEND", "MSG_QUEUE_CLOSE", "SENDFILE">>

UserA3 == UserCommon \o UserFiles \o
    <<"SENDFILE", "BECOME_DEBUGGER", "SET_BREAKPOINT", "REMOVE_BREAKPOINT",
      "ENABLE_BREAKPOINT", "DISABLE_BREAKPOINT", "INFO_BREAKPOINTS",
      "INFO_REGISTERS", "BACKTRACE", "WAIT_AND_CONTINUE", "TEST_BREAKPOINTS">>
UserA4 == UserCommon \o
    <<"", "", "", "CLOSE", "TEST_HUGEPAGE", "MAKE_HUGEPAGE", "BREAK_HUGEPAGE">>

UserNumbers == [A2 |-> UserA2, A3 |-> UserA3, A4 |-> UserA4][kernel]
Number(name) == CHOOSE n \in DOMAIN UserNumbers : UserNumbers[n] = name

KernelCommon ==
    <<"EXIT", "GETPID", "", "EXPAND", "SHRINK", "ALARM", "SLEEP", "SIGNAL",
      "CLONE", "FORK", "STATS", "CONFIGURE", "PHYS_INFO", "DUMP_PTT", "CFORK",
      "MMAP", "MUNMAP", "MPROTECT", "PMAP", "VFORK", "GET_USER_P", "GET_COW_F",
      "OPEN", "READ", "WRITE">>
KernelFiles == <<"PIPE", "DUP", "DUP2", "CLOSE", "LSEEK">>
KernelA2 == KernelCommon \o KernelFiles \o
    <<"CREATE_MSG_QUEUE", "GET_MEMBER_INFO", "GET_MSG_COUNT", "MSG_QUEUE_BLOCK",
      "MSG_QUEUE_RCV", "MSG_QUEUE_SEND", "MSG_QUEUE_CLOSE", "SENDFILE">>
KernelA3 == KernelCommon \o KernelFiles \o
    <<"SENDFILE", "BECOME_DEBUGGER", "SET_BREAKPOINT", "REMOVE_BREAKPOINT",
      "ENABLE_BREAKPOINT", "DISABLE_BREAKPOINT", "INFO_BREAKPOINTS",
      "INFO_REGISTERS", "BACKTRACE", "WAIT_AND_CONTINUE", "TEST_BREAKPOINTS">>
KernelA4 == KernelCommon \o
    <<"", "", "", "CLOSE", "TEST_HUGEPAGE", "MAKE_HUGEPAGE", "BREAK_HUGEPAGE">>
KernelNumbers == [A2 |-> KernelA2, A3 |-> KernelA3, A4 |-> KernelA4][kernel]

-----------------------------------------------------------------------------
(* The stubs of lib.c and the cases of do_syscall: for each number of       *)
(* arguments, the calls that pass or read so many.  No stub calls ALARM or  *)
(* SHRINK.  open passes its mode, and do_file_open reads it, with O_CREAT.  *)

WithCreat == {"OPEN"}

StubsCommon ==
    <<{"GETPID", "FORK", "PHYS_INFO", "STATS", "GET_USER_P", "GET_COW_F"},
      {"EXIT", "CONFIGURE", "DUMP_PTT", "SLEEP", "PMAP", "CLOSE"},
      {"SIGNAL", "EXPAND", "CLONE", "MUNMAP", "OPEN"},
      {"MPROTECT", "READ", "WRITE"}, {"MMAP"}>>
With(table, more) == [n \in 1 .. 5 |-> table[n] \cup more[n]]
StubsOfFiles ==
    <<{"CFORK", "VFORK"}, {"PIPE", "DUP"}, {"DUP2"}, {"LSEEK"}, {"SENDFILE"}>>

QueueStubs ==
    <<{"CREATE_MSG_QUEUE"}, {"GET_MSG_COUNT", "MSG_QUEUE_CLOSE"},
      {"GET_MEMBER_INFO", "MSG_QUEUE_SEND", "MSG_QUEUE_RCV", "MSG_QUEUE_BLOCK"},
      {}, {}>>
DebugStubs ==
    <<{"BECOME_DEBUGGER", "WAIT_AND_CONTINUE", "TEST_BREAKPOINTS"},
      {"SET_BREAKPOINT", "REMOVE_BREAKPOINT", "ENABLE_BREAKPOINT",
       "DISABLE_BREAKPOINT", "INFO_BREAKPOINTS", "INFO_REGISTERS", "BACKTRACE"},
      {}, {}, {}>>
StubsA2 == With(With(StubsCommon, StubsOfFiles), QueueStubs)
StubsA3 == With(With(StubsCommon, StubsOfFiles), DebugStubs)
StubsA4 == With(StubsCommon, <<{}, {}, {"BREAK_HUGEPAGE"}, {}, {"MAKE_HUGEPAGE"}>>)
Stubs == [A2 |-> StubsA2, A3 |-> StubsA3, A4 |-> StubsA4][kernel]

CasesCommon ==
    <<{"GETPID", "FORK", "STATS", "GET_USER_P", "GET_COW_F", "PHYS_INFO"},
      {"EXIT", "ALARM", "SLEEP", "CONFIGURE", "DUMP_PTT", "PMAP", "CLOSE"},
      {"EXPAND", "SHRINK", "SIGNAL", "CLONE", "MUNMAP", "OPEN"},
      {"READ", "WRITE"}, {"MMAP"}>>
CasesOfFiles ==
    <<{"CFORK", "VFORK"}, {"PIPE"}, {"DUP2"}, {"MPROTECT", "LSEEK"}, {}>>
CasesA2 == With(With(With(CasesCommon, CasesOfFiles), QueueStubs),
                <<{}, {}, {}, {}, {"SENDFILE"}>>)
CasesA3 == With(With(With(CasesCommon, CasesOfFiles), DebugStubs),
                <<{}, {"DUP"}, {}, {}, {}>>)
CasesA4 == With(CasesCommon, <<{}, {}, {"BREAK_HUGEPAGE"}, {}, {"MAKE_HUGEPAGE"}>>)
Cases == [A2 |-> CasesA2, A3 |-> CasesA3, A4 |-> CasesA4][kernel]

-----------------------------------------------------------------------------
(* Registers: "user" or in a "stub", the number and how many arguments the  *)
(* stub has set, whether O_CREAT is among them, and the result.             *)

InUser(rax) == [at |-> "user", nr |-> 0, set |-> 0, creat |-> FALSE, rax |-> rax]

Init ==
    /\ kernel \in Kernels
    /\ state = [p \in Pid |-> IF p = 1 THEN "RUNNING" ELSE IF p = Swapper THEN "READY" ELSE "UNUSED"]
    /\ ticks = [p \in Pid |-> 0] /\ current = 1
    /\ regs = [p \in Pid |-> InUser("zero")] /\ cpu = InUser("zero")
    /\ calling = [p \in Pid |-> ""] /\ halted = FALSE

\* A stub sets its registers, up to the trap.  wait_and_continue is left to Debugger.
Load(name, n) ==
    /\ ~halted /\ current # Swapper /\ cpu.at = "user"
    /\ name \in Stubs[n + 1] \ {"WAIT_AND_CONTINUE"}
    /\ current = 1 \/ name \in ByOthers
    /\ \E creat \in IF name \in WithCreat THEN BOOLEAN ELSE {FALSE} :
         cpu' = [at |-> "stub", nr |-> Number(name), creat |-> creat, rax |-> cpu.rax,
                 set |-> IF creat THEN n + 1 ELSE n]
    /\ calling' = [calling EXCEPT ![current] = name]
    /\ UNCHANGED <<kernel, state, ticks, current, regs, halted>>

\* The registers do_syscall saves: the trap has stepped over the int.
Saved == InUser(cpu.rax)
InTrap == ~halted /\ cpu.at = "stub"
Handler == IF cpu.nr \in DOMAIN KernelNumbers THEN KernelNumbers[cpu.nr] ELSE ""
Served == \E n \in 1 .. 5 : Handler \in Cases[n]
Left == calling' = [calling EXCEPT ![current] = ""]

\* schedule, with the states st and the saved registers rs.
Schedule(st, rs) ==
    LET new == PickNext(st, current) IN
    /\ current' = new /\ state' = [st EXCEPT ![new] = "RUNNING"]
    /\ cpu' = rs[new]

\* A handler that returns, or the default case.  What the prebuilt handlers do
\* besides returning (cfork, vfork and clone make processes) is left out.
Return ==
    /\ InTrap /\ (Served => Handler \notin {"EXIT", "SLEEP", "FORK"})
    /\ regs' = [regs EXCEPT ![current] = Saved]
    /\ cpu' = InUser(IF Served THEN "result" ELSE "-1") /\ Left
    /\ UNCHANGED <<kernel, state, ticks, current, halted>>

\* do_fork copies the context that do_syscall has just saved.  In Assignment 3
\* debugger_on_fork leaves the child WAITING, until its debugger continues it.
Fork ==
    /\ InTrap /\ Handler = "FORK"
    /\ \E child \in UserPid :
         /\ state[child] = "UNUSED"
         /\ regs' = [regs EXCEPT ![current] = Saved, ![child] = InUser("zero")]
         /\ state' = [state EXCEPT ![child] = IF kernel = "A3" THEN "WAITING" ELSE "READY"]
         /\ ticks' = [ticks EXCEPT ![child] = ticks[current]]
    /\ cpu' = InUser("result") /\ Left
    /\ UNCHANGED <<kernel, current, halted>>

Sleep ==
    LET rs == [regs EXCEPT ![current] = Saved] IN
    /\ InTrap /\ Handler = "SLEEP"
    /\ \E n \in SleepTicks : ticks' = [ticks EXCEPT ![current] = n]
    /\ regs' = rs /\ Left
    /\ Schedule([state EXCEPT ![current] = "WAITING"], rs)
    /\ UNCHANGED <<kernel, halted>>

\* do_exit stops the machine when no context but the swapper's is left.  In
\* Assignment 3 the first process alone runs here, and debugger_on_exit makes its
\* parent, the swapper, READY, which it is.
Exit ==
    LET st == [state EXCEPT ![current] = "UNUSED"]
        rs == [regs EXCEPT ![current] = Saved] IN
    /\ InTrap /\ Handler = "EXIT"
    /\ regs' = rs /\ Left
    /\ IF \A p \in UserPid : st[p] = "UNUSED"
       THEN halted' = TRUE /\ state' = st /\ UNCHANGED <<current, cpu>>
       ELSE Schedule(st, rs) /\ UNCHANGED halted
    /\ UNCHANGED <<kernel, ticks>>

\* Variant: the registers at the interrupt are not saved.
NotSaved == regs
SavedAtTick == [regs EXCEPT ![current] = cpu]

\* handle_timer_tick: a context that stays on the processor stays READY.
Tick ==
    LET st == [WakeSleepers(state, ticks) EXCEPT ![current] = "READY"]
        new == PickNext(st, current) IN
    /\ ~halted
    /\ ticks' = TicksAfterTick(state, ticks)
    /\ IF new = current
       THEN state' = st /\ UNCHANGED <<current, cpu, regs>>
       ELSE regs' = SavedAtTick /\ Schedule(st, regs)
    /\ UNCHANGED <<kernel, calling, halted>>

Names == UNION Range(Stubs)

Next ==
    \/ \E name \in Names, n \in 0 .. 4 : Load(name, n)
    \/ Return \/ Fork \/ Sleep \/ Exit \/ Tick

\* The timer goes on.
Spec == Init /\ [][Next]_vars /\ WF_vars(Tick)
=============================================================================
