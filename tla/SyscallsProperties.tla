------------------------- MODULE SyscallsProperties -------------------------
(* What processes rely on when they call the kernel, over Syscalls.          *)
EXTENDS Syscalls

Registers == [at : {"user", "stub"}, nr : Nat, set : 0 .. 4, creat : BOOLEAN,
              rax : {"zero", "result", "-1"}]

\* Types of the variables.
TypeOK ==
    /\ kernel \in Kernels /\ halted \in BOOLEAN
    /\ state \in [Pid -> ProcessState] /\ ticks \in [Pid -> Nat]
    /\ current \in Pid /\ cpu \in Registers /\ regs \in [Pid -> Registers]
    /\ calling \in [Pid -> Names \cup {""}]

\* The states of the contexts stay those of one processor: only the current context
\* is RUNNING (alone on the processor it is READY), and who waits has ticks to wait, or is the
\* child of a debugger that has not continued it.
OneRuns ==
    ~halted => /\ state[current] \in {"RUNNING", "READY"}
               /\ \A p \in Pid : state[p] = "RUNNING" => p = current
               /\ \A p \in Pid : state[p] = "WAITING" =>
                    ticks[p] > 0 \/ (kernel = "A3" /\ p # 1)

\* However often a process is interrupted between the first register and the trap,
\* do_syscall takes the case of the stub it is in and no handler reads a register
\* the stub has not set; only dup, sendfile and mprotect each have a kernel without
\* a case for them.
CallsArrive ==
    cpu.at = "stub" /\ ~halted =>
        \/ /\ Handler = calling[current] /\ Served
           /\ \A n \in 1 .. 5 : Handler \in Cases[n] =>
                cpu.set >= IF cpu.creat THEN n ELSE n - 1
        \/ ~Served /\ <<kernel, calling[current]>> \in
                        {<<"A2", "DUP">>, <<"A3", "SENDFILE">>, <<"A4", "MPROTECT">>}

\* Every process sees registers of its own.
Alive == {p \in UserPid : state[p] # "UNUSED"}
View == [p \in UserPid |-> IF p \notin Alive THEN InUser("zero")
                           ELSE IF p = current THEN cpu ELSE regs[p]]
Processes == INSTANCE OwnRegisters WITH Pid <- UserPid, alive <- Alive, view <- View
ImplementsOwnRegisters == Processes!Spec

\* A context that is READY comes onto the processor, although every tick starts its
\* search afresh and processes come, go and sleep.
EveryoneRuns ==
    \A p \in UserPid : state[p] = "READY" ~> (current = p \/ halted)
=============================================================================
