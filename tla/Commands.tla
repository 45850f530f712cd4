------------------------------ MODULE Commands ------------------------------
(***************************************************************************)
(* executeCommand and executeInParallel of Assignment 1.  The first forks  *)
(* a child that looks a program up in CS330_PATH and waits for it; the     *)
(* second reads a file of commands, forks a child with a pipe for each,    *)
(* and then copies one read of every pipe, in order, to its output file.   *)
(***************************************************************************)
EXTENDS Integers, Sequences, SequencesExt, FiniteSets

CONSTANTS
    Names,      \* what a command may be called
    Bytes,      \* what a program may write
    Lines,      \* lines of an input file: [name, long, newline]
    MaxInput,   \* bounds the lines of an input file
    Paths,      \* values of CS330_PATH: sequences of directories
    Programs,   \* directory -> name -> program, or NULL
    NULL, NUL,  \* no program; the byte 0
    OldFiles,   \* contents of the output file before the run
    LINES,      \* room in the array lines (50)
    BUFF,       \* bytes a read takes (1024)
    PIPE,       \* bytes a pipe takes
    Garbage,    \* what the memory of pfds may hold before pipe stores in it
    Junk,       \* strings the memory of buff may hold before the first read
    Usage       \* faults that happen

\* Nothing but an unknown name: no directory holds it.
Mangled == "?"

\* What a program writes, in pieces that fit into a pipe.
Program == [writes : Seq(Seq(Bytes)), code : 0 .. 255]

\* A number in pfds is the end of the pipe of a command, or else: no open
\* descriptor, the input (0), the output (1), or less than 0.
Slots == 1 .. 2 * MaxInput
Closed == 0
Input == -1
Output == -2
Negative == -3

ASSUME CommandsAssumption ==
    /\ LINES \in Nat \ {0} /\ BUFF \in Nat \ {0} /\ PIPE \in Nat \ {0}
    /\ MaxInput \in Nat \ {0}
    /\ Mangled \in Names /\ {NUL, "U"} \subseteq Bytes
    /\ Lines \subseteq [name : Names, long : BOOLEAN, newline : BOOLEAN]
    /\ Paths \subseteq Seq(DOMAIN Programs)
    /\ \A d \in DOMAIN Programs : Programs[d] \in [Names -> Program \cup {NULL}]
    /\ OldFiles \subseteq Seq(Bytes) /\ Junk \subseteq Seq(Bytes)
    /\ Garbage \subseteq Slots \cup {Closed, Input, Output, Negative}
    /\ Usage \subseteq {"no_file", "no_fork", "no_pipe"}

VARIABLES
    program,  \* "executeCommand" or "executeInParallel"
    input,    \* the lines of the input file, or the one command
    path,     \* CS330_PATH
    pc,       \* what the parent does next
    lines,    \* the commands as the parent read them
    next,     \* the command the parent is at
    child,    \* what the child of each command does
    dir,      \* the directory a child is looking in
    code,     \* its exit code
    todo,     \* the writes its program has still to do
    made,     \* the commands whose pipe was made
    reads,    \* what the parent's end of each pipe, pfds[j][0], names
    out,      \* where the standard output of each child goes
    pipe,     \* the bytes in each pipe
    stdout,   \* what the parent has printed, one sequence for each command
    file,     \* the output file
    pos,      \* where the next write to it goes, for parent and children
    ret       \* what main returned

setting == <<program, input, path>>
parent == <<pc, lines, next, stdout, ret>>
children == <<child, dir, code, todo>>
ends == <<made, reads, out>>
output == <<file, pos>>
vars == <<setting, parent, children, ends, pipe, output>>

Idle == [j \in Slots |-> 0]

InitParallel ==
    /\ program = "executeInParallel" /\ pc = "open"
    /\ input \in SeqOf(Lines, MaxInput) /\ lines = <<>>
    /\ \A k \in 1 .. Len(input) - 1 : input[k].newline

InitSingle ==
    /\ program = "executeCommand" /\ pc = "fork"
    /\ \E line \in Lines : input = <<line>> /\ lines = <<line.name>>

Init ==
    /\ InitParallel \/ InitSingle
    /\ path \in Paths
    /\ next = 1 /\ stdout = <<>> /\ file \in OldFiles /\ pos = 0 /\ ret = NULL
    /\ made = {} /\ reads = Idle /\ out = Idle
    /\ child = [j \in Slots |-> "none"] /\ dir = Idle /\ code = Idle
    /\ todo = [j \in Slots |-> <<>>] /\ pipe = [j \in Slots |-> <<>>]

-----------------------------------------------------------------------------
(* The parent                                                               *)

Stop(how, value) == pc' = how /\ ret' = value

\* The UNABLE TO EXECUTE that is printed for what fails.
Unable == <<"U">>

\* The output file is not truncated.
Overwritten(old, at, new) ==
    SubSeq(old, 1, at) \o new \o SubSeq(old, at + Len(new) + 1, Len(old))

Put(bytes) ==
    file' = Overwritten(file, pos, bytes) /\ pos' = pos + Len(bytes)

\* A file cannot be opened.  What is printed is lost: descriptor 1 is closed, or
\* the output file has become 0.
OpenFails ==
    /\ "no_file" \in Usage
    /\ pc = "open"
    /\ Stop("ended", 255)
    /\ UNCHANGED <<setting, lines, next, stdout, children, ends, pipe, output>>

\* fork fails, or pipe did and left a number less than 0.  exit writes what was
\* printed.
ForkFails ==
    /\ \/ "no_fork" \in Usage
       \/ program = "executeInParallel" /\ "no_pipe" \in Usage /\ Negative \in Garbage
    /\ pc = "fork" /\ next <= Len(lines)
    /\ Stop("ended", 255)
    /\ IF program = "executeCommand" THEN stdout' = <<Unable>> /\ UNCHANGED output
       ELSE Put(Unable) /\ UNCHANGED stdout
    /\ UNCHANGED <<setting, lines, next, children, ends, pipe>>

\* fgets takes 63 bytes of a line at most, and the last byte of what it took is
\* dropped, newline or not.
Pieces(line) ==
    IF line.long THEN <<Mangled, Mangled>>
    ELSE IF line.newline THEN <<line.name>> ELSE <<Mangled>>

ReadLines ==
    LET read == FlattenSeq([k \in DOMAIN input |-> Pieces(input[k])]) IN
    /\ pc = "open"
    /\ IF Len(read) > LINES
       THEN Stop("crashed", NULL) /\ UNCHANGED lines
       ELSE lines' = read /\ pc' = "fork" /\ UNCHANGED ret
    /\ UNCHANGED <<setting, next, stdout, children, ends, pipe, output>>

PipeMade ==
    /\ made' = made \cup {next}
    /\ reads' = [reads EXCEPT ![next] = next]
    /\ out' = [out EXCEPT ![next] = next]

\* The standard output of a child after dup2(end, 1): that of the parent when the
\* number names no open descriptor.
Redirected(end) == IF end \in made \cup {Input} THEN end ELSE Output

\* pipe fails and nobody asks: pfds[next] is whatever the memory held.
PipeFailed ==
    /\ "no_pipe" \in Usage
    /\ \E r, w \in Garbage \ {Negative} :
          /\ reads' = [reads EXCEPT ![next] = r]
          /\ out' = [out EXCEPT ![next] = Redirected(w)]
    /\ UNCHANGED made

Fork ==
    /\ pc = "fork" /\ next <= Len(lines)
    /\ child' = [child EXCEPT ![next] = "searching"]
    /\ dir' = [dir EXCEPT ![next] = 1]
    /\ IF program = "executeCommand" THEN pc' = "wait" /\ UNCHANGED <<next, ends>>
       ELSE next' = next + 1 /\ UNCHANGED pc /\ (PipeMade \/ PipeFailed)
    /\ UNCHANGED <<setting, lines, stdout, ret, code, todo, pipe, output>>

AllForked ==
    /\ pc = "fork" /\ next > Len(lines)
    /\ pc' = "collect" /\ next' = 1
    /\ UNCHANGED <<setting, lines, stdout, ret, children, ends, pipe, output>>

\* printf("%s") prints up to the first byte 0.
UpToNul(s) == SelectInSeq(s, LAMBDA b : b = NUL)
AsString(s) == IF UpToNul(s) = 0 THEN s ELSE SubSeq(s, 1, UpToNul(s) - 1)

FirstBytes(s) == SubSeq(s, 1, IF Len(s) < BUFF THEN Len(s) ELSE BUFF)

\* One command's turn to be printed.
Shows(s) ==
    stdout' = Append(stdout, s) /\ next' = next + 1 /\ UNCHANGED <<pc, ret>>

\* A write that lies outside buff: nothing may happen, or anything.
Crashes == Stop("crashed", NULL) /\ UNCHANGED <<stdout, next>>

\* After BUFF bytes buff[len] lies past the buffer.
Takes(data) == Shows(AsString(data)) \/ (Len(data) = BUFF /\ Crashes)

\* The parent holds the other end of every pipe itself, so the read of an empty
\* pipe does not return.
ReadPipe(end) ==
    /\ end \in made /\ pipe[end] # <<>>
    /\ Takes(FirstBytes(pipe[end]))
    /\ pipe' = [pipe EXCEPT ![end] = SubSeq(@, BUFF + 1, Len(@))]
    /\ UNCHANGED output

\* The input was read to its end; the output is read from where it is written.
ReadFile(end) ==
    LET data == FirstBytes(SubSeq(file, pos + 1, Len(file))) IN
    /\ \/ end = Input /\ Takes(<<>>) /\ UNCHANGED pos
       \/ end = Output /\ Takes(data) /\ pos' = pos + Len(data)
    /\ UNCHANGED <<file, pipe>>

\* What buff holds before it is read into.
Stale == IF stdout = <<>> THEN Junk ELSE {Last(stdout)}

\* The read fails, and buff[-1] lies in front of the buffer, which is printed as
\* it was.
ReadFails(end) ==
    /\ end \notin made \cup {Input, Output}
    /\ (\E s \in Stale : Shows(s)) \/ Crashes
    /\ UNCHANGED <<pipe, output>>

\* Variant: the first pipe that has something is read.
CollectAny ==
    /\ pc = "collect" /\ next <= Len(lines)
    /\ \E j \in Slots : ReadPipe(j) \/ ReadFile(reads[next]) \/ ReadFails(reads[next])
    /\ UNCHANGED <<setting, lines, children, ends>>

\* One read of at most BUFF bytes for each command.
Collect ==
    /\ pc = "collect" /\ next <= Len(lines)
    /\ \/ ReadPipe(reads[next]) \/ ReadFile(reads[next]) \/ ReadFails(reads[next])
    /\ UNCHANGED <<setting, lines, children, ends>>

\* exit writes what was printed; the function has no return.
Finish ==
    /\ pc = "collect" /\ next > Len(lines)
    /\ Put(FlattenSeq(stdout))
    /\ \E garbage \in {0, 1} : Stop("ended", garbage)
    /\ UNCHANGED <<setting, lines, next, stdout, children, ends, pipe>>

-----------------------------------------------------------------------------
(* The children                                                             *)

\* Variant: the directories are tried from the last.
HereFromEnd(j) == Programs[path[Len(path) + 1 - dir[j]]][lines[j]]

Here(j) == Programs[path[dir[j]]][lines[j]]

\* Variant: nothing is printed for a program that is not found.
SearchSilent(j) ==
    /\ child[j] = "searching"
    /\ IF dir[j] > Len(path)
       THEN child' = [child EXCEPT ![j] = "unable"] /\ UNCHANGED <<todo, dir>>
       ELSE IF Here(j) # NULL
       THEN /\ child' = [child EXCEPT ![j] = "running"]
            /\ todo' = [todo EXCEPT ![j] = Here(j).writes] /\ UNCHANGED dir
       ELSE dir' = [dir EXCEPT ![j] = @ + 1] /\ UNCHANGED <<child, todo>>
    /\ UNCHANGED <<setting, parent, code, ends, pipe, output>>

\* execv of one directory after the other: it fails where there is no program,
\* or none the child may execute.
Search(j) ==
    /\ child[j] = "searching"
    /\ IF dir[j] > Len(path)
       THEN /\ child' = [child EXCEPT ![j] = "unable"]
            /\ todo' = [todo EXCEPT ![j] = <<Unable>>] /\ UNCHANGED dir
       ELSE IF Here(j) # NULL
       THEN /\ child' = [child EXCEPT ![j] = "running"]
            /\ todo' = [todo EXCEPT ![j] = Here(j).writes] /\ UNCHANGED dir
       ELSE dir' = [dir EXCEPT ![j] = @ + 1] /\ UNCHANGED <<child, todo>>
    /\ UNCHANGED <<setting, parent, code, ends, pipe, output>>

\* A write to a pipe waits for room: the child holds the pipe's other end too, so
\* it waits even when the parent is gone.  The input cannot be written to.
WriteTo(end, bytes) ==
    \/ /\ end \in made /\ Len(pipe[end]) + Len(bytes) <= PIPE
       /\ pipe' = [pipe EXCEPT ![end] = @ \o bytes]
       /\ UNCHANGED output
    \/ end = Output /\ Put(bytes) /\ UNCHANGED pipe
    \/ end = Input /\ UNCHANGED <<pipe, output>>

\* executeCommand leaves stdout alone.
Write(j) ==
    /\ child[j] \in {"running", "unable"} /\ todo[j] # <<>>
    /\ todo' = [todo EXCEPT ![j] = Tail(@)]
    /\ IF program = "executeCommand"
       THEN stdout' = Append(stdout, Head(todo[j])) /\ UNCHANGED <<pipe, output>>
       ELSE WriteTo(out[j], Head(todo[j])) /\ UNCHANGED stdout
    /\ UNCHANGED <<setting, pc, lines, next, ret, child, dir, code, ends>>

ExitCode(j) == IF child[j] = "unable" THEN 255 ELSE Here(j).code

Exit(j) ==
    /\ child[j] \in {"running", "unable"} /\ todo[j] = <<>>
    /\ child' = [child EXCEPT ![j] = "ended"]
    /\ code' = [code EXCEPT ![j] = ExitCode(j)]
    /\ UNCHANGED <<setting, parent, dir, todo, ends, pipe, output>>

\* Variant: main returns the whole status.
WaitWhole ==
    /\ pc = "wait" /\ child[1] = "ended"
    /\ Stop("ended", code[1] * 256)
    /\ UNCHANGED <<setting, lines, next, stdout, children, ends, pipe, output>>

\* wait gives the exit code in the second byte; main returns the first.
Wait ==
    LET status == code[1] * 256 IN
    /\ pc = "wait" /\ child[1] = "ended"
    /\ Stop("ended", (IF status = 255 THEN -1 ELSE status) % 256)
    /\ UNCHANGED <<setting, lines, next, stdout, children, ends, pipe, output>>

-----------------------------------------------------------------------------
ParentStep == ReadLines \/ Fork \/ AllForked \/ Collect \/ Finish \/ Wait
ChildStep(j) == Search(j) \/ Write(j) \/ Exit(j)

Next == ParentStep \/ OpenFails \/ ForkFails \/ \E j \in Slots : ChildStep(j)

\* The scheduler runs every process that can take a step.
Fairness == WF_vars(ParentStep) /\ \A j \in Slots : WF_vars(ChildStep(j))

Spec == Init /\ [][Next]_vars /\ Fairness
=============================================================================
