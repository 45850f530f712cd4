------------------------- MODULE CommandsProperties -------------------------
(* What running commands should do, over Commands.                           *)
EXTENDS Commands, Functions

\* Types of the variables.
TypeOK ==
    /\ pc \in {"open", "fork", "collect", "wait", "ended", "crashed"}
    /\ lines \in Seq(Names) /\ Len(lines) <= LINES
    /\ next \in 1 .. Len(lines) + 1
    /\ child \in [Slots -> {"none", "searching", "running", "unable", "ended"}]
    /\ dir \in [Slots -> 0 .. Len(path) + 1] /\ code \in [Slots -> 0 .. 255]
    /\ \A j \in Slots : pipe[j] \in Seq(Bytes) /\ Len(pipe[j]) <= PIPE
    /\ made \subseteq Slots
    /\ reads \in [Slots -> Slots \cup {Closed, Input, Output}]
    /\ out \in [Slots -> Slots \cup {Closed, Input, Output}]
    /\ stdout \in Seq(Seq(Bytes)) /\ file \in Seq(Bytes) /\ pos \in 0 .. Len(file)
    /\ ret \in (0 .. 255) \cup {NULL}

\* What the assignment expects of a command: the writes and the exit code of the
\* program in the first directory of the path that has it.
HasIt(name) == {k \in DOMAIN path : Programs[path[k]][name] # NULL}
First(S) == CHOOSE k \in S : \A j \in S : k <= j
Expected(name) ==
    IF HasIt(name) = {} THEN [writes |-> <<Unable>>, code |-> 255]
    ELSE Programs[path[First(HasIt(name))]][name]

\* Inputs for which the program can do what it should: lines that fit, commands
\* that write once, something but not too much, and no byte 0.
Plain ==
    /\ \A k \in DOMAIN input :
         LET writes == Expected(input[k].name).writes IN
         /\ input[k].newline /\ ~input[k].long
         /\ Len(writes) = 1 /\ writes[1] # <<>>
         /\ Len(writes[1]) < BUFF /\ Len(writes[1]) <= PIPE
         /\ NUL \notin Range(writes[1])
    /\ Len(input) <= LINES

\* The pipe of command k was made, and where the pipe of another was not, the
\* memory does not happen to name the ends of this one.
Private(k) == k \in made /\ \A j \in Slots \ {k} : k \notin {reads[j], out[j]}

\* However the children run, and whatever is printed for commands whose pipe
\* could not be made, the output of a command that has a pipe is printed at its
\* place in the input, whole, and is that of the first program in the path.
OutputsInOrder ==
    Plain /\ program = "executeInParallel" =>
        \A k \in DOMAIN stdout :
            Private(k) => stdout[k] = Expected(input[k].name).writes[1]

\* Even for other inputs nothing but the beginning of a command's own output is
\* printed for it, if it has a pipe.
OwnOutput ==
    program = "executeInParallel" =>
        \A k \in DOMAIN stdout :
            Private(k) => IsPrefix(stdout[k], FlattenSeq(Expected(lines[k]).writes))

\* With such inputs, when no pipe fails unnoticed, the program comes to its end
\* with an exit code, and so does every child.
Ends ==
    Plain /\ [](\A j \in Slots : out[j] \in {0, j}) =>
        <>(pc = "ended" /\ ret # NULL /\ \A j \in Slots : child[j] \in {"none", "ended"})

\* Assignment_1.pdf 1.1, RETURN VALUE: "On success, return the status code of cmd.
\* On failure, return -1."
ReturnsStatus ==
    program = "executeCommand" /\ pc = "ended" => ret = Expected(input[1].name).code
=============================================================================
