--------------------------- MODULE CommandsProofs ---------------------------
(* Proofs about Commands: what the children write reaches the parent in the  *)
(* order of the input, however they run.                                     *)
EXTENDS CommandsProperties, Orders

(***************************************************************************)
(* Programs and where they are found.                                      *)
(***************************************************************************)
SearchPath == Seq(DOMAIN Programs)

\* The directories of a path that have a program, and the program that execv finds.
Holders(p, name) == {k \in DOMAIN p : Programs[p[k]][name] # NULL}
Chosen(p, name) ==
    IF Holders(p, name) = {} THEN [writes |-> <<Unable>>, code |-> 255]
    ELSE Programs[p[First(Holders(p, name))]][name]

LEMMA ExpectedChosen ==
    ASSUME NEW name PROVE Expected(name) = Chosen(path, name)
  BY DEF Expected, Chosen, HasIt, Holders

LEMMA UnableFacts == <<Unable>> \in Seq(Seq(Bytes)) /\ Len(<<Unable>>) = 1
<1>1. "U" \in Bytes
  BY CommandsAssumption
<1>2. Unable \in Seq(Bytes)
  BY <1>1 DEF Unable
<1> DEFINE u == Unable
<1> HIDE DEF u
<1>3. u \in Seq(Bytes)
  BY <1>2 DEF u
<1>4. <<u>> \in Seq(Seq(Bytes)) /\ Len(<<u>>) = 1
  BY <1>3
<1>5. QED
  BY <1>4 DEF u

\* The first of a set of indices is there, and nothing stands before it.
LEMMA FirstFacts ==
    ASSUME NEW S \in SUBSET Nat, S # {}
    PROVE  First(S) \in S /\ \A j \in S : First(S) <= j
<1>1. \E k \in S : \A j \in S : k <= j
  BY MinInSet
<1>2. QED
  BY <1>1 DEF First

\* execv finds the program of the first directory that has it.
LEMMA ChosenFound ==
    ASSUME NEW p \in SearchPath, NEW name, NEW d \in 1 .. Len(p),
           Programs[p[d]][name] # NULL, \A e \in 1 .. d - 1 : Programs[p[e]][name] = NULL
    PROVE  Chosen(p, name) = Programs[p[d]][name]
<1> DEFINE S == Holders(p, name)
<1>1. DOMAIN p = 1 .. Len(p) /\ Len(p) \in Nat
  BY LenProperties DEF SearchPath
<1>2. d \in S /\ S \in SUBSET Nat /\ \A e \in S : e \in 1 .. Len(p) /\ Programs[p[e]][name] # NULL
  BY <1>1 DEF Holders
<1>3. First(S) \in S /\ First(S) <= d
  <2> HIDE DEF S
  <2>1. QED
    BY <1>2, FirstFacts
<1>4. First(S) \in 1 .. Len(p) /\ Programs[p[First(S)]][name] # NULL
  <2> HIDE DEF S
  <2>1. QED
    BY <1>2, <1>3
<1>5. First(S) = d
  <2> HIDE DEF S
  <2>1. QED
    BY <1>1, <1>3, <1>4
<1>6. S # {}
  BY <1>2
<1>7. QED
  BY <1>5, <1>6 DEF Chosen

LEMMA ChosenNowhere ==
    ASSUME NEW p \in SearchPath, NEW name, \A e \in 1 .. Len(p) : Programs[p[e]][name] = NULL
    PROVE  Chosen(p, name).writes = <<Unable>>
<1>1. DOMAIN p = 1 .. Len(p)
  BY LenProperties DEF SearchPath
<1>2. Holders(p, name) = {}
  BY <1>1 DEF Holders
<1>3. QED
  BY <1>2 DEF Chosen

LEMMA ProgramFacts ==
    ASSUME NEW p \in SearchPath, NEW d \in 1 .. Len(p), NEW name \in Names,
           Programs[p[d]][name] # NULL
    PROVE  /\ Programs[p[d]][name].writes \in Seq(Seq(Bytes))
           /\ Programs[p[d]][name].code \in 0 .. 255
<1>1. p[d] \in DOMAIN Programs
  BY ElementOfSeq DEF SearchPath
<1>2. Programs[p[d]] \in [Names -> Program \cup {NULL}]
  BY <1>1, CommandsAssumption
<1> DEFINE q == Programs[p[d]][name]
<1>3. q \in Program
  BY <1>2
<1> HIDE DEF q
<1>4. q.writes \in Seq(Seq(Bytes)) /\ q.code \in 0 .. 255
  BY <1>3 DEF Program
<1>5. QED
  BY <1>4 DEF q

LEMMA ChosenWrites ==
    ASSUME NEW p \in SearchPath, NEW name \in Names
    PROVE  Chosen(p, name).writes \in Seq(Seq(Bytes))
<1> DEFINE S == Holders(p, name)
<1>1. S \in SUBSET Nat /\ \A e \in S : e \in 1 .. Len(p) /\ Programs[p[e]][name] # NULL
  BY LenProperties DEF Holders, SearchPath
<1>2. CASE S = {}
  BY <1>2, UnableFacts DEF Chosen
<1>3. CASE S # {}
  <2>1. First(S) \in S
    <3> HIDE DEF S
    <3>1. QED
      BY <1>1, <1>3, FirstFacts
  <2>2. First(S) \in 1 .. Len(p) /\ Programs[p[First(S)]][name] # NULL
    BY <1>1, <2>1
  <2>3. Programs[p[First(S)]][name].writes \in Seq(Seq(Bytes))
    <3> HIDE DEF S
    <3>1. QED
      BY <2>2, ProgramFacts
  <2>4. QED
    BY <1>3, <2>3 DEF Chosen
<1>4. QED
  BY <1>2, <1>3

(***************************************************************************)
(* Bytes: what a read takes and printf prints.                             *)
(***************************************************************************)
LEMMA FlattenType ==
    ASSUME NEW T, NEW s \in Seq(Seq(T)) PROVE FlattenSeq(s) \in Seq(T)
<1>1. CASE s = << >>
  BY <1>1, FlattenEmpty, EmptySeq
<1>2. CASE s # << >>
  BY <1>2, FlattenHead
<1>3. QED
  BY <1>1, <1>2

LEMMA AsStringFacts ==
    ASSUME NEW T, NEW s \in Seq(T)
    PROVE  /\ AsString(s) \in Seq(T) /\ IsPrefix(AsString(s), s)
           /\ NUL \notin Range(s) => AsString(s) = s
<1> DEFINE I == {i \in 1 .. Len(s) : s[i] = NUL}
           n == UpToNul(s)
<1>1. Len(s) \in Nat /\ DOMAIN s = 1 .. Len(s)
  BY LenProperties
<1>2. n = IF I # {} THEN Min(I) ELSE 0
  BY DEF UpToNul, SelectInSeq
<1>3. I # {} => Min(I) \in I
  <2>1. I \in SUBSET Nat
    OBVIOUS
  <2> HIDE DEF I
  <2>2. QED
    BY <2>1, MinInSet
<1>4. I # {} => n \in 1 .. Len(s) /\ n # 0
  BY <1>2, <1>3
<1>5. CASE I = {}
  <2>1. n = 0
    BY <1>2, <1>5
  <2>2. AsString(s) = s
    BY <2>1 DEF AsString
  <2>3. IsPrefix(s, s)
    BY <1>1 DEF IsPrefix
  <2>4. QED
    BY <2>2, <2>3
<1>6. CASE I # {}
  <2>1. n \in 1 .. Len(s) /\ n # 0 /\ n - 1 \in 0 .. Len(s)
    BY <1>1, <1>4, <1>6
  <2>2. AsString(s) = SubSeq(s, 1, n - 1)
    BY <2>1 DEF AsString
  <2>3. NUL \in Range(s)
    <3>1. PICK i \in 1 .. Len(s) : s[i] = NUL
      BY <1>6
    <3>2. QED
      BY <1>1, <3>1 DEF Range
  <2> HIDE DEF n
  <2>4. SubSeq(s, 1, n - 1) \in Seq(T) /\ IsPrefix(SubSeq(s, 1, n - 1), s)
    BY <2>1, PrefixSub
  <2>5. QED
    BY <2>2, <2>3, <2>4
<1>7. QED
  BY <1>5, <1>6

LEMMA FirstBytesFacts ==
    ASSUME NEW T, NEW s \in Seq(T)
    PROVE  /\ FirstBytes(s) \in Seq(T) /\ IsPrefix(FirstBytes(s), s)
           /\ Len(s) < BUFF => FirstBytes(s) = s
           /\ SubSeq(s, BUFF + 1, Len(s)) \in Seq(T)
           /\ Len(SubSeq(s, BUFF + 1, Len(s))) <= Len(s)
<1> DEFINE m == IF Len(s) < BUFF THEN Len(s) ELSE BUFF
<1>1. BUFF \in Nat \ {0} /\ Len(s) \in Nat
  BY CommandsAssumption, LenProperties
<1>2. m \in 0 .. Len(s) /\ FirstBytes(s) = SubSeq(s, 1, m)
  BY <1>1 DEF FirstBytes
<1>3. Len(s) < BUFF => m = Len(s)
  OBVIOUS
<1> HIDE DEF m
<1>4. SubSeq(s, 1, m) \in Seq(T) /\ IsPrefix(SubSeq(s, 1, m), s)
  BY <1>2, PrefixSub
<1>5. Len(s) < BUFF => FirstBytes(s) = s
  BY <1>2, <1>3, SubSeqFull
<1>6. \A i \in BUFF + 1 .. Len(s) : s[i] \in T
  BY <1>1, ElementOfSeq
<1> DEFINE rest == SubSeq(s, BUFF + 1, Len(s))
<1>7. /\ rest \in Seq(T)
      /\ Len(rest) = IF BUFF + 1 <= Len(s) THEN Len(s) - (BUFF + 1) + 1 ELSE 0
  BY <1>1, <1>6, SubSeqProperties
<1> HIDE DEF rest
<1>8. Len(rest) <= Len(s)
  BY <1>1, <1>7
<1>9. QED
  BY <1>2, <1>4, <1>5, <1>7, <1>8 DEF rest

\* What is printed for a pipe is a beginning of what is in it.
LEMMA PrintedFacts ==
    ASSUME NEW s \in Seq(Bytes)
    PROVE  /\ AsString(FirstBytes(s)) \in Seq(Bytes)
           /\ IsPrefix(AsString(FirstBytes(s)), s)
           /\ Len(s) < BUFF /\ NUL \notin Range(s) => AsString(FirstBytes(s)) = s
<1> DEFINE t == FirstBytes(s)
<1>1. t \in Seq(Bytes) /\ IsPrefix(t, s) /\ (Len(s) < BUFF => t = s)
  BY FirstBytesFacts
<1> HIDE DEF t
<1>2. /\ AsString(t) \in Seq(Bytes) /\ IsPrefix(AsString(t), t)
      /\ NUL \notin Range(t) => AsString(t) = t
  BY <1>1, AsStringFacts
<1>3. IsPrefix(AsString(t), s)
  BY <1>1, <1>2, PrefixTransitive
<1>4. QED
  BY <1>1, <1>2, <1>3 DEF t

LEMMA RestFacts ==
    ASSUME NEW T, NEW s \in Seq(T), NEW n \in Nat
    PROVE  /\ SubSeq(s, n + 1, Len(s)) \in Seq(T)
           /\ Len(SubSeq(s, n + 1, Len(s))) = IF n < Len(s) THEN Len(s) - n ELSE 0
<1>1. Len(s) \in Nat /\ \A i \in n + 1 .. Len(s) : s[i] \in T
  BY LenProperties, ElementOfSeq
<1> DEFINE rest == SubSeq(s, n + 1, Len(s))
<1>2. /\ rest \in Seq(T)
      /\ Len(rest) = IF n + 1 <= Len(s) THEN Len(s) - (n + 1) + 1 ELSE 0
  BY <1>1, SubSeqProperties
<1> HIDE DEF rest
<1>3. Len(rest) = IF n < Len(s) THEN Len(s) - n ELSE 0
  BY <1>1, <1>2
<1>4. QED
  BY <1>2, <1>3 DEF rest

\* The file holds what was written to it, and the position is not past its end.
LEMMA OverwrittenFacts ==
    ASSUME NEW old \in Seq(Bytes), NEW at \in 0 .. Len(old), NEW new \in Seq(Bytes)
    PROVE  /\ Overwritten(old, at, new) \in Seq(Bytes)
           /\ at + Len(new) \in 0 .. Len(Overwritten(old, at, new))
<1> DEFINE front == SubSeq(old, 1, at)
           rest == SubSeq(old, at + Len(new) + 1, Len(old))
           all == (front \o new) \o rest
<1>1. Len(old) \in Nat /\ Len(new) \in Nat /\ at \in Nat /\ at <= Len(old)
  BY LenProperties
<1>2. front \in Seq(Bytes) /\ Len(front) = at
  <2>1. \A i \in 1 .. at : old[i] \in Bytes
    BY <1>1, ElementOfSeq
  <2>2. /\ front \in Seq(Bytes)
        /\ Len(front) = IF 1 <= at THEN at - 1 + 1 ELSE 0
    BY <1>1, <2>1, SubSeqProperties
  <2> HIDE DEF front
  <2>3. QED
    BY <1>1, <2>2
<1>3. rest \in Seq(Bytes) /\ Len(rest) \in Nat
  <2>1. at + Len(new) \in Nat
    BY <1>1
  <2>2. rest \in Seq(Bytes)
    BY <2>1, RestFacts
  <2> HIDE DEF rest
  <2>3. QED
    BY <2>2, LenProperties
<1> HIDE DEF front, rest
<1>4. front \o new \in Seq(Bytes) /\ Len(front \o new) = at + Len(new)
  BY <1>1, <1>2, ConcatProperties
<1>5. all \in Seq(Bytes) /\ Len(all) = at + Len(new) + Len(rest)
  <2> DEFINE both == front \o new
  <2> HIDE DEF both
  <2>1. both \in Seq(Bytes) /\ Len(both) = at + Len(new)
    BY <1>4 DEF both
  <2>2. both \o rest \in Seq(Bytes) /\ Len(both \o rest) = Len(both) + Len(rest)
    BY <1>3, <2>1, ConcatProperties
  <2>3. QED
    BY <2>1, <2>2 DEF both
<1>6. all = Overwritten(old, at, new)
  BY DEF Overwritten, front, rest
<1> HIDE DEF all
<1>7. at + Len(new) \in 0 .. Len(all)
  BY <1>1, <1>3, <1>5
<1>8. QED
  BY <1>5, <1>6, <1>7

(***************************************************************************)
(* The lines of the input.                                                 *)
(***************************************************************************)
AllPieces(inp) == FlattenSeq([k \in DOMAIN inp |-> Pieces(inp[k])])

LEMMA PiecesFacts ==
    ASSUME NEW line \in Lines
    PROVE  Pieces(line) \in Seq(Names) /\ Len(Pieces(line)) <= 2 /\ line.name \in Names
<1>1. Mangled \in Names /\ line \in [name : Names, long : BOOLEAN, newline : BOOLEAN]
  BY CommandsAssumption
<1> DEFINE m == Mangled
           n == line.name
<1>2. m \in Names /\ n \in Names
  BY <1>1
<1> HIDE DEF m, n
<1>3. Pieces(line) \in {<<m, m>>, <<n>>, <<m>>}
  BY DEF Pieces, m, n
<1>4. \A s \in {<<m, m>>, <<n>>, <<m>>} : s \in Seq(Names) /\ Len(s) <= 2
  <2>1. <<m, m>> \in Seq(Names) /\ Len(<<m, m>>) <= 2
    BY <1>2
  <2>2. <<m>> \in Seq(Names) /\ Len(<<m>>) <= 2
    BY <1>2
  <2>3. <<n>> \in Seq(Names) /\ Len(<<n>>) <= 2
    BY <1>2
  <2>4. QED
    BY <2>1, <2>2, <2>3, Zenon
<1>5. QED
  BY <1>2, <1>3, <1>4 DEF n

LEMMA AllPiecesFacts ==
    ASSUME NEW inp \in Seq(Lines), Len(inp) <= MaxInput
    PROVE  AllPieces(inp) \in Seq(Names) /\ Len(AllPieces(inp)) <= 2 * MaxInput
<1> DEFINE u == [k \in DOMAIN inp |-> Pieces(inp[k])]
<1>1. Len(inp) \in Nat /\ DOMAIN inp = 1 .. Len(inp) /\ \A k \in 1 .. Len(inp) : inp[k] \in Lines
  BY LenProperties, ElementOfSeq
<1>2. \A k \in DOMAIN inp : Pieces(inp[k]) \in Seq(Names) /\ Len(Pieces(inp[k])) <= 2
  BY <1>1, PiecesFacts
<1>3. u \in Seq(Seq(Names)) /\ Len(u) = Len(inp)
  BY <1>1, <1>2
<1>4. \A k \in DOMAIN u : Len(u[k]) <= 2
  BY <1>2
<1> HIDE DEF u
<1>5. FlattenSeq(u) \in Seq(Names) /\ Len(FlattenSeq(u)) <= 2 * Len(u)
  BY <1>3, <1>4, FlattenPairs
<1>6. Len(FlattenSeq(u)) \in Nat
  BY <1>5, LenProperties
<1>7. MaxInput \in Nat
  BY CommandsAssumption
<1>8. QED
  BY <1>1, <1>3, <1>5, <1>6, <1>7 DEF AllPieces, u

\* Plain for a given path and input.
PlainIn(p, inp) ==
    \A k \in DOMAIN inp :
        LET writes == Chosen(p, inp[k].name).writes IN
        /\ inp[k].newline /\ ~inp[k].long
        /\ Len(writes) = 1 /\ writes[1] # << >>
        /\ Len(writes[1]) < BUFF /\ NUL \notin Range(writes[1])

LEMMA PlainInFacts == Plain => PlainIn(path, input)
  BY ExpectedChosen DEF Plain, PlainIn

\* The lines of a plain input are read as they are.
LEMMA PlainLines ==
    ASSUME NEW p, NEW inp \in Seq(Lines), PlainIn(p, inp)
    PROVE  AllPieces(inp) = [k \in DOMAIN inp |-> inp[k].name]
<1> DEFINE names == [k \in DOMAIN inp |-> inp[k].name]
<1>1. Len(inp) \in Nat /\ DOMAIN inp = 1 .. Len(inp) /\ \A k \in DOMAIN inp : inp[k] \in Lines
  BY LenProperties, ElementOfSeq
<1>2. \A k \in DOMAIN inp : inp[k].name \in Names
  BY <1>1, PiecesFacts
<1>3. names \in Seq(Names) /\ DOMAIN names = DOMAIN inp
  BY <1>1, <1>2
<1>4. \A k \in DOMAIN inp : Pieces(inp[k]) = << names[k] >>
  BY DEF PlainIn, Pieces
<1> HIDE DEF names
<1>5. [k \in DOMAIN inp |-> Pieces(inp[k])] = [k \in DOMAIN names |-> << names[k] >>]
  BY <1>3, <1>4
<1>6. AllPieces(inp) = names
  BY <1>3, <1>5, FlattenSingles DEF AllPieces
<1>7. QED
  BY <1>6 DEF names

(***************************************************************************)
(* The inductive invariant.                                                *)
(***************************************************************************)
Parallel == program = "executeInParallel"

Setting ==
    /\ program \in {"executeCommand", "executeInParallel"}
    /\ input \in Seq(Lines) /\ Len(input) <= MaxInput /\ path \in SearchPath

ParentTypes ==
    /\ pc \in {"open", "fork", "collect", "wait", "ended", "crashed"}
    /\ lines \in Seq(Names) /\ Len(lines) <= LINES /\ Len(lines) <= 2 * MaxInput
    /\ next \in 1 .. Len(lines) + 1
    /\ stdout \in Seq(Seq(Bytes)) /\ ret \in (0 .. 255) \cup {NULL}

ChildTypes ==
    /\ child \in [Slots -> {"none", "searching", "running", "unable", "ended"}]
    /\ dir \in [Slots -> 0 .. Len(path) + 1] /\ code \in [Slots -> 0 .. 255]
    /\ todo \in [Slots -> Seq(Seq(Bytes))]

Named == Slots \cup {Closed, Input, Output}

EndTypes ==
    /\ made \subseteq Slots /\ reads \in [Slots -> Named] /\ out \in [Slots -> Named]
    /\ pipe \in [Slots -> Seq(Bytes)] /\ \A j \in Slots : Len(pipe[j]) <= PIPE

FileTypes == file \in Seq(Bytes) /\ pos \in 0 .. Len(file)

\* How far the parent is: it prints once for each command it is done with.
Progress ==
    /\ pc = "open" => lines = << >>
    /\ Parallel =>
         /\ lines = << >> \/ lines = AllPieces(input)
         /\ Len(stdout) <= Len(lines)
         /\ pc \in {"open", "fork"} => stdout = << >>
         /\ pc = "collect" => Len(stdout) = next - 1

\* A child that searches has not found its program yet, one that runs has.
Looked(p, name, c, d) ==
    /\ c = "searching" => /\ d \in 1 .. Len(p) + 1
                          /\ \A e \in 1 .. d - 1 : Programs[p[e]][name] = NULL
    /\ c = "running" => d \in 1 .. Len(p) /\ Programs[p[d]][name] # NULL

\* Only the children of commands the parent has reached exist.
Started(j) ==
    /\ child[j] # "none" => j <= Len(lines) /\ pc # "open"
    /\ pc = "fork" /\ next <= j => child[j] = "none"
    /\ child[j] # "none" => Looked(path, lines[j], child[j], dir[j])
    /\ child[j] \in {"none", "searching"} => todo[j] = << >>

\* A pipe belongs to a child that was forked, and the numbers of the ends of a
\* pipe that was made are its own.
Held(j) ==
    /\ j \in made => child[j] # "none" /\ reads[j] = j /\ out[j] = j
    /\ j \notin made => pipe[j] = << >>
    /\ child[j] = "none" => reads[j] = Closed /\ out[j] = Closed

\* What a program is to write is in its pipe or still to do.
Begun(c, w, t, p) ==
    IF c \in {"none", "searching"} THEN t = << >> /\ p = << >>
    ELSE /\ p \o FlattenSeq(t) = FlattenSeq(w)
         /\ (p = << >> /\ t = w) \/ Len(t) < Len(w)

\* The parent has not read the pipe.
Unread(at, n, j) == at \in {"open", "fork"} \/ (at = "collect" /\ n <= j)

Piped(j) ==
    Parallel /\ Private(j) /\ Unread(pc, next, j) =>
        Begun(child[j], Chosen(path, lines[j]).writes, todo[j], pipe[j])

\* What was printed for a command is its own.
Own(p, inp, name, s) ==
    /\ IsPrefix(s, FlattenSeq(Chosen(p, name).writes))
    /\ PlainIn(p, inp) => s = Chosen(p, name).writes[1]

Printed ==
    Parallel => \A k \in DOMAIN stdout :
        Private(k) => Own(path, input, lines[k], stdout[k])

CommandsInv ==
    /\ Setting /\ ParentTypes /\ ChildTypes /\ EndTypes /\ FileTypes /\ Progress /\ Printed
    /\ \A j \in Slots : Started(j) /\ Held(j) /\ Piped(j)

LEMMA InitInv == Init => CommandsInv
<1> SUFFICES ASSUME Init PROVE CommandsInv
  OBVIOUS
<1>1. MaxInput \in Nat \ {0} /\ LINES \in Nat \ {0} /\ PIPE \in Nat
  BY CommandsAssumption
<1>2. path \in SearchPath /\ file \in Seq(Bytes) /\ Len(path) \in Nat
  <2>1. path \in Paths /\ file \in OldFiles
    BY DEF Init
  <2>2. path \in SearchPath /\ file \in Seq(Bytes)
    BY <2>1, CommandsAssumption DEF SearchPath
  <2>3. QED
    BY <2>2, LenProperties DEF SearchPath
<1>3. << >> \in Seq(Names) /\ << >> \in Seq(Bytes) /\ << >> \in Seq(Seq(Bytes)) /\ Len(<< >>) = 0
  BY EmptySeq
<1>4. /\ next = 1 /\ stdout = << >> /\ ret = NULL
      /\ child = [j \in Slots |-> "none"] /\ dir = [j \in Slots |-> 0] /\ code = [j \in Slots |-> 0]
      /\ todo = [j \in Slots |-> << >>] /\ pipe = [j \in Slots |-> << >>]
      /\ pos = 0 /\ made = {} /\ reads = [j \in Slots |-> 0] /\ out = [j \in Slots |-> 0]
  BY DEF Init, Idle
<1>5. ChildTypes /\ EndTypes /\ FileTypes
  <2>1. dir \in [Slots -> 0 .. Len(path) + 1] /\ code \in [Slots -> 0 .. 255]
    BY <1>2, <1>4
  <2>2. todo \in [Slots -> Seq(Seq(Bytes))] /\ pipe \in [Slots -> Seq(Bytes)]
    BY <1>3, <1>4
  <2>3. \A j \in Slots : pipe[j] = << >>
    BY <1>4
  <2>4. \A j \in Slots : Len(pipe[j]) <= PIPE
    BY <1>1, <1>3, <2>3
  <2>5. ChildTypes
    BY <1>4, <2>1, <2>2 DEF ChildTypes
  <2>6. EndTypes
    BY <1>4, <2>2, <2>4 DEF EndTypes, Named, Closed
  <2>7. FileTypes
    BY <1>2, <1>4, LenProperties DEF FileTypes
  <2>8. QED
    BY <2>5, <2>6, <2>7
<1>6. \A j \in Slots : Started(j) /\ Held(j) /\ Piped(j)
  <2> TAKE j \in Slots
  <2>1. /\ child[j] = "none" /\ todo[j] = << >> /\ pipe[j] = << >>
        /\ j \notin made /\ reads[j] = 0 /\ out[j] = 0
    BY <1>4
  <2>2. QED
    BY <2>1 DEF Started, Held, Closed, Piped, Begun
<1>7. Printed
  <2>1. DOMAIN stdout = {}
    BY <1>4
  <2>2. QED
    BY <2>1 DEF Printed
<1>8. Setting /\ Progress /\ lines \in Seq(Names) /\ Len(lines) \in {0, 1}
      /\ pc \in {"open", "fork"}
  <2>1. CASE InitParallel
    <3>1. input \in Seq(Lines) /\ Len(input) <= MaxInput
      <4>1. PICK m \in 0 .. MaxInput : input \in [1 .. m -> Lines]
        BY <2>1 DEF InitParallel, SeqOf
      <4>2. m \in Nat
        BY <1>1
      <4>3. QED
        BY <1>1, <4>1, <4>2
    <3>2. Setting
      BY <1>2, <2>1, <3>1 DEF Setting, InitParallel
    <3>3. lines = << >> /\ pc = "open"
      BY <2>1 DEF InitParallel
    <3>4. QED
      BY <1>3, <1>4, <3>2, <3>3 DEF Progress
  <2>2. CASE InitSingle
    <3>1. PICK line \in Lines : input = <<line>> /\ lines = <<line.name>>
      BY <2>2 DEF InitSingle
    <3> DEFINE n == line.name
    <3>2. n \in Names
      BY PiecesFacts
    <3>3. input \in Seq(Lines) /\ Len(input) = 1
      BY <3>1
    <3>4. Setting
      BY <1>1, <1>2, <2>2, <3>3 DEF Setting, InitSingle
    <3> HIDE DEF n
    <3>5. lines \in Seq(Names) /\ Len(lines) = 1
      BY <3>1, <3>2 DEF n
    <3>6. pc = "fork" /\ ~ Parallel
      BY <2>2 DEF InitSingle, Parallel
    <3>7. QED
      BY <3>4, <3>5, <3>6 DEF Progress
  <2>3. QED
    BY <2>1, <2>2 DEF Init
<1>9. ParentTypes
  <2>1. stdout \in Seq(Seq(Bytes))
    BY <1>3, <1>4, Zenon
  <2>2. Len(lines) <= LINES /\ Len(lines) <= 2 * MaxInput
    BY <1>1, <1>8
  <2>3. next \in 1 .. Len(lines) + 1
    BY <1>4, <1>8
  <2>4. ret = NULL
    BY <1>4
  <2>5. QED
    BY <1>8, <2>1, <2>2, <2>3, <2>4 DEF ParentTypes
<1>10. QED
  BY <1>5, <1>6, <1>7, <1>8, <1>9 DEF CommandsInv

(***************************************************************************)
(* The parent.                                                             *)
(***************************************************************************)
LEMMA SlotFacts ==
    ASSUME ParentTypes, NEW j \in 1 .. Len(lines)
    PROVE  j \in Slots /\ lines[j] \in Names /\ Len(lines) \in Nat
<1>1. Len(lines) \in Nat /\ Len(lines) <= 2 * MaxInput /\ lines \in Seq(Names)
  BY LenProperties DEF ParentTypes
<1>2. MaxInput \in Nat
  BY CommandsAssumption
<1>3. lines[j] \in Names
  BY <1>1, ElementOfSeq
<1>4. QED
  BY <1>1, <1>2, <1>3 DEF Slots

\* When the parent ends, whatever it has read last, nothing more is asked of it.
LEMMA StopStep ==
    ASSUME CommandsInv, pc' \in {"ended", "crashed"}, ret' \in (0 .. 255) \cup {NULL},
           stdout' \in Seq(Seq(Bytes)), Parallel => stdout' = stdout,
           UNCHANGED <<setting, lines, next, children, ends>>, FileTypes',
           pipe' \in [Slots -> Seq(Bytes)], \A j \in Slots : Len(pipe'[j]) <= PIPE,
           \A j \in Slots : j \notin made => pipe'[j] = << >>
    PROVE  CommandsInv'
<1>1. UNCHANGED <<program, input, path, lines, next, child, dir, code, todo, made, reads, out>>
  BY DEF setting, children, ends
<1>2. Setting' /\ ParentTypes' /\ ChildTypes' /\ EndTypes'
  BY <1>1 DEF CommandsInv, Setting, ParentTypes, ChildTypes, EndTypes
<1>3. Printed'
  <2> SUFFICES ASSUME Parallel, NEW k \in DOMAIN stdout, Private(k)
               PROVE  Own(path, input, lines[k], stdout[k])
    BY <1>1 DEF Printed, Parallel, Private
  <2>1. QED
    BY DEF CommandsInv, Printed
<1>4. Progress'
  BY <1>1 DEF CommandsInv, Progress, Parallel
<1>5. ASSUME NEW j \in Slots PROVE (Started(j) /\ Held(j) /\ Piped(j))'
  <2>1. Started(j) /\ Held(j)
    BY DEF CommandsInv
  <2>2. ~ Unread(pc', next', j)
    BY DEF Unread
  <2>3. Piped(j)'
    BY <2>2 DEF Piped
  <2>4. Started(j)' /\ Held(j)'
    BY <1>1, <2>1 DEF Started, Held
  <2>5. QED
    BY <2>3, <2>4
<1>6. QED
  BY <1>2, <1>3, <1>4, <1>5 DEF CommandsInv

LEMMA PipesKept ==
    ASSUME CommandsInv
    PROVE  /\ pipe \in [Slots -> Seq(Bytes)] /\ \A j \in Slots : Len(pipe[j]) <= PIPE
           /\ \A j \in Slots : j \notin made => pipe[j] = << >>
           /\ stdout \in Seq(Seq(Bytes)) /\ FileTypes
  BY DEF CommandsInv, EndTypes, Held, ParentTypes

LEMMA PutType ==
    ASSUME FileTypes, NEW bytes \in Seq(Bytes), Put(bytes) PROVE FileTypes'
  BY OverwrittenFacts DEF FileTypes, Put

LEMMA OpenFailsStep == ASSUME CommandsInv, OpenFails PROVE CommandsInv'
<1>1. /\ pc' = "ended" /\ ret' = 255
      /\ UNCHANGED <<setting, lines, next, stdout, children, ends, pipe, file, pos>>
  BY DEF OpenFails, Stop, output
<1>2. FileTypes'
  BY <1>1, PipesKept DEF FileTypes
<1>3. QED
  BY <1>1, <1>2, PipesKept, StopStep

LEMMA ForkFailsStep == ASSUME CommandsInv, ForkFails PROVE CommandsInv'
<1>1. /\ pc' = "ended" /\ ret' = 255
      /\ IF program = "executeCommand" THEN stdout' = <<Unable>> /\ UNCHANGED <<file, pos>>
         ELSE Put(Unable) /\ UNCHANGED stdout
      /\ UNCHANGED <<setting, lines, next, children, ends, pipe>>
  BY DEF ForkFails, Stop, output
<1>2. stdout' \in Seq(Seq(Bytes)) /\ (Parallel => stdout' = stdout)
  BY <1>1, PipesKept, UnableFacts DEF Parallel
<1>3. FileTypes'
  <2>1. CASE program = "executeCommand"
    BY <1>1, <2>1, PipesKept DEF FileTypes
  <2>2. CASE program # "executeCommand"
    BY <1>1, <2>2, PipesKept, UnableFacts, PutType
  <2>3. QED
    BY <2>1, <2>2
<1>4. QED
  BY <1>1, <1>2, <1>3, PipesKept, StopStep

LEMMA FinishStep == ASSUME CommandsInv, Finish PROVE CommandsInv'
<1>1. /\ pc' = "ended" /\ ret' \in {0, 1} /\ Put(FlattenSeq(stdout))
      /\ UNCHANGED <<setting, lines, next, stdout, children, ends, pipe>>
  BY DEF Finish, Stop
<1>2. FlattenSeq(stdout) \in Seq(Bytes)
  BY PipesKept, FlattenType
<1>3. FileTypes'
  BY <1>1, <1>2, PipesKept, PutType
<1>4. QED
  BY <1>1, <1>3, PipesKept, StopStep

LEMMA WaitStep == ASSUME CommandsInv, Wait PROVE CommandsInv'
<1> DEFINE status == code[1] * 256
<1>1. /\ pc' = "ended" /\ ret' = (IF status = 255 THEN -1 ELSE status) % 256
      /\ UNCHANGED <<setting, lines, next, stdout, children, ends, pipe, file, pos>>
  BY DEF Wait, Stop, output
<1>2. FileTypes'
  BY <1>1, PipesKept DEF FileTypes
<1>3. 1 \in Slots
  BY CommandsAssumption DEF Slots
<1>4. code[1] \in 0 .. 255
  BY <1>3 DEF CommandsInv, ChildTypes
<1>5. ret' \in 0 .. 255
  <2> DEFINE s == IF status = 255 THEN -1 ELSE status
  <2>1. s \in Int
    BY <1>4
  <2> HIDE DEF s
  <2>2. s % 256 \in 0 .. 255
    BY <2>1
  <2>3. QED
    BY <1>1, <2>2 DEF s
<1>6. QED
  BY <1>1, <1>2, <1>5, PipesKept, StopStep

LEMMA ReadStep == ASSUME CommandsInv, ReadLines PROVE CommandsInv'
<1> DEFINE read == AllPieces(input)
<1>1. /\ pc = "open" /\ UNCHANGED <<setting, next, stdout, children, ends, pipe, file, pos>>
      /\ IF Len(read) > LINES THEN pc' = "crashed" /\ ret' = NULL /\ UNCHANGED lines
         ELSE lines' = read /\ pc' = "fork" /\ UNCHANGED ret
  BY DEF ReadLines, Stop, AllPieces, output
<1>2. read \in Seq(Names) /\ Len(read) <= 2 * MaxInput
  BY AllPiecesFacts DEF CommandsInv, Setting
<1> HIDE DEF read
<1>3. FileTypes'
  BY <1>1, PipesKept DEF FileTypes
<1>4. CASE Len(read) > LINES
  BY <1>1, <1>3, <1>4, PipesKept, StopStep
<1>5. CASE ~ (Len(read) > LINES)
  <2>1. /\ lines' = read /\ pc' = "fork"
        /\ UNCHANGED <<program, input, path, next, stdout, ret, child, dir, code, todo, pipe,
                        made, reads, out>>
    BY <1>1, <1>5 DEF setting, children, ends
  <2>2. lines = << >> /\ Len(<< >>) = 0
    BY <1>1, EmptySeq DEF CommandsInv, Progress
  <2>3. next = 1
    <3>1. Len(lines) = 0
      BY <2>2, Zenon
    <3>2. next \in 1 .. Len(lines) + 1
      BY DEF CommandsInv, ParentTypes
    <3>3. QED
      BY <3>1, <3>2
  <2>4. Len(read) <= LINES /\ Len(read) \in Nat
    BY <1>2, <1>5, LenProperties, CommandsAssumption
  <2>5. ParentTypes'
    <3>1. next' \in 1 .. Len(lines') + 1
      BY <2>1, <2>3, <2>4
    <3>2. QED
      BY <1>2, <2>1, <2>4, <3>1 DEF CommandsInv, ParentTypes
  <2>6. ASSUME NEW j \in Slots PROVE (Started(j) /\ Held(j) /\ Piped(j))'
    <3>1. Started(j) /\ Held(j) /\ child[j] = "none"
      BY <1>1 DEF CommandsInv, Started
    <3>2. todo[j] = << >> /\ j \notin made
      BY <3>1 DEF Started, Held
    <3>3. ~ Private(j)'
      BY <2>1, <3>2 DEF Private
    <3>4. QED
      BY <2>1, <3>1, <3>2, <3>3 DEF Started, Held, Piped
  <2>7. Parallel => stdout = << >>
    BY <1>1 DEF CommandsInv, Progress
  <2>8. Progress'
    <3>1. Parallel => Len(stdout) = 0
      BY <2>2, <2>7, Zenon
    <3>2. QED
      BY <2>1, <2>4, <2>7, <3>1 DEF Progress, Parallel, read
  <2>9. Printed'
    <3>1. Parallel => DOMAIN stdout = {}
      BY <2>7
    <3>2. QED
      BY <2>1, <3>1 DEF Printed, Parallel
  <2>10. Setting' /\ ChildTypes' /\ EndTypes'
    BY <2>1 DEF CommandsInv, Setting, ChildTypes, EndTypes
  <2>11. QED
    BY <1>3, <2>5, <2>6, <2>8, <2>9, <2>10 DEF CommandsInv
<1>6. QED
  BY <1>4, <1>5

\* A fork gives one command the ends of its pipe; no other becomes private by it.
EndsGiven ==
    /\ made' \subseteq Slots /\ reads' \in [Slots -> Named] /\ out' \in [Slots -> Named]
    /\ \A j \in Slots : j # next =>
          /\ reads'[j] = reads[j] /\ out'[j] = out[j] /\ (j \in made' <=> j \in made)
          /\ Private(j)' => Private(j)
    /\ next \in made' => reads'[next] = next /\ out'[next] = next

LEMMA ForkEnds ==
    ASSUME CommandsInv, next \in Slots, child[next] = "none",
           PipeMade \/ PipeFailed \/ UNCHANGED ends
    PROVE  EndsGiven
<1>1. made \subseteq Slots /\ reads \in [Slots -> Named] /\ out \in [Slots -> Named]
  BY DEF CommandsInv, EndTypes
<1>2. next \notin made /\ reads[next] = 0 /\ out[next] = 0
  BY DEF CommandsInv, Held, Closed
<1>3. \A k \in Slots : k # 0
  BY DEF Slots
<1>4. CASE PipeMade
  <2>1. /\ made' = made \cup {next} /\ reads' = [reads EXCEPT ![next] = next]
        /\ out' = [out EXCEPT ![next] = next]
    BY <1>4 DEF PipeMade
  <2>2. reads' \in [Slots -> Named] /\ out' \in [Slots -> Named] /\ made' \subseteq Slots
    BY <1>1, <2>1 DEF Named
  <2>3. reads'[next] = next /\ out'[next] = next
    BY <1>1, <2>1
  <2>4. \A j \in Slots : j # next =>
            reads'[j] = reads[j] /\ out'[j] = out[j] /\ (j \in made' <=> j \in made)
    BY <1>1, <2>1
  <2>5. ASSUME NEW k \in Slots, k # next, Private(k)' PROVE Private(k)
    BY <1>2, <1>3, <2>4, <2>5 DEF Private
  <2>6. QED
    BY <2>2, <2>3, <2>4, <2>5 DEF EndsGiven
<1>5. CASE PipeFailed
  <2>1. PICK r, w \in Garbage \ {Negative} :
           /\ reads' = [reads EXCEPT ![next] = r] /\ out' = [out EXCEPT ![next] = Redirected(w)]
           /\ made' = made
    BY <1>5 DEF PipeFailed
  <2>2. r \in Named /\ Redirected(w) \in Named
    BY <1>1, CommandsAssumption DEF Named, Redirected
  <2>3. reads' \in [Slots -> Named] /\ out' \in [Slots -> Named]
    BY <1>1, <2>1, <2>2
  <2>4. \A j \in Slots : j # next =>
            reads'[j] = reads[j] /\ out'[j] = out[j] /\ (j \in made' <=> j \in made)
    BY <1>1, <2>1
  <2>5. ASSUME NEW k \in Slots, k # next, Private(k)' PROVE Private(k)
    BY <1>2, <1>3, <2>4, <2>5 DEF Private
  <2>6. QED
    BY <1>1, <1>2, <2>1, <2>3, <2>4, <2>5 DEF EndsGiven
<1>6. CASE UNCHANGED ends
  <2>1. made' = made /\ reads' = reads /\ out' = out
    BY <1>6 DEF ends
  <2>2. QED
    BY <1>1, <1>2, <2>1 DEF EndsGiven, Private
<1>7. QED
  BY <1>4, <1>5, <1>6

LEMMA ForkStep == ASSUME CommandsInv, Fork PROVE CommandsInv'
<1>1. /\ pc = "fork" /\ next <= Len(lines)
      /\ child' = [child EXCEPT ![next] = "searching"]
      /\ dir' = [dir EXCEPT ![next] = 1]
      /\ IF program = "executeCommand" THEN pc' = "wait" /\ next' = next /\ UNCHANGED ends
         ELSE next' = next + 1 /\ pc' = pc /\ (PipeMade \/ PipeFailed)
      /\ UNCHANGED <<program, input, path, lines, stdout, file, pos, ret, code, todo, pipe>>
  BY DEF Fork, setting, output
<1>2. next \in Nat \ {0} /\ next \in 1 .. Len(lines) /\ Len(lines) \in Nat
  <2>1. next \in 1 .. Len(lines) + 1 /\ Len(lines) \in Nat
    BY LenProperties DEF CommandsInv, ParentTypes
  <2>2. QED
    BY <1>1, <2>1
<1>3. next \in Slots
  BY <1>2, SlotFacts DEF CommandsInv
<1>4. Len(path) \in Nat
  BY LenProperties DEF CommandsInv, Setting, SearchPath
<1>5. /\ child \in [Slots -> {"none", "searching", "running", "unable", "ended"}]
      /\ dir \in [Slots -> 0 .. Len(path) + 1]
  BY DEF CommandsInv, ChildTypes
<1>6. child[next] = "none" /\ todo[next] = << >> /\ pipe[next] = << >>
  BY <1>1, <1>2, <1>3 DEF CommandsInv, Started, Held
<1>7. EndsGiven
  BY <1>1, <1>3, <1>6, ForkEnds
<1>8. ChildTypes' /\ EndTypes' /\ FileTypes'
  <2>1. ChildTypes'
    BY <1>1, <1>3, <1>4, <1>5 DEF CommandsInv, ChildTypes
  <2>2. EndTypes'
    BY <1>1, <1>7, PipesKept DEF EndTypes, EndsGiven
  <2>3. FileTypes'
    BY <1>1, PipesKept DEF FileTypes
  <2>4. QED
    BY <2>1, <2>2, <2>3
<1>9. ParentTypes'
  <2>1. next' \in 1 .. Len(lines) + 1 /\ pc' \in {"fork", "wait"}
    BY <1>1, <1>2
  <2>2. QED
    BY <1>1, <2>1 DEF CommandsInv, ParentTypes
<1>10. ASSUME NEW j \in Slots PROVE Started(j)'
  <2>1. Started(j) /\ j \in Nat
    BY DEF CommandsInv, Slots
  <2>2. CASE j = next
    <3>1. child'[j] = "searching" /\ dir'[j] = 1 /\ lines' = lines /\ path' = path
      BY <1>1, <1>5, <2>2
    <3>2. Looked(path, lines[j], "searching", 1)
      BY <1>4 DEF Looked
    <3>3. ~ (pc' = "fork" /\ next' <= j) /\ pc' # "open"
      BY <1>1, <1>2, <2>2
    <3>4. QED
      BY <1>1, <1>2, <1>6, <2>2, <3>1, <3>2, <3>3 DEF Started
  <2>3. CASE j # next
    <3>1. child'[j] = child[j] /\ dir'[j] = dir[j] /\ lines' = lines /\ path' = path
      BY <1>1, <1>5, <2>3
    <3>2. pc' = "fork" /\ next' <= j => next <= j
      BY <1>1, <1>2, <2>1
    <3>3. pc' # "open"
      BY <1>1
    <3>4. QED
      BY <1>1, <2>1, <3>1, <3>2, <3>3 DEF Started
  <2>4. QED
    BY <2>2, <2>3
<1>11. ASSUME NEW j \in Slots PROVE Held(j)' /\ Piped(j)'
  <2>1. CASE j = next
    <3>1. child'[j] = "searching" /\ todo'[j] = << >> /\ pipe'[j] = << >>
      BY <1>1, <1>3, <1>5, <1>6, <2>1
    <3>2. Held(j)'
      BY <1>7, <2>1, <3>1 DEF EndsGiven, Held
    <3>3. QED
      BY <3>1, <3>2 DEF Piped, Begun
  <2>2. CASE j # next
    <3>1. child'[j] = child[j] /\ Held(j) /\ Piped(j)
      BY <1>1, <1>5, <2>2 DEF CommandsInv
    <3>2. Held(j)'
      BY <1>1, <1>7, <2>2, <3>1 DEF EndsGiven, Held
    <3>3. Private(j)' => Private(j)
      BY <1>7, <2>2 DEF EndsGiven
    <3>4. Piped(j)'
      BY <1>1, <3>1, <3>3 DEF Piped, Unread, Parallel
    <3>5. QED
      BY <3>2, <3>4
  <2>3. QED
    BY <2>1, <2>2
<1>12. Progress'
  BY <1>1 DEF CommandsInv, Progress, Parallel
<1>13. Setting' /\ Printed'
  <2>1. Setting'
    BY <1>1 DEF CommandsInv, Setting
  <2>2. Parallel => DOMAIN stdout = {}
    BY <1>1 DEF CommandsInv, Progress
  <2>3. QED
    BY <1>1, <2>1, <2>2 DEF Printed, Parallel
<1>14. QED
  BY <1>8, <1>9, <1>10, <1>11, <1>12, <1>13 DEF CommandsInv

LEMMA AllForkedStep == ASSUME CommandsInv, AllForked PROVE CommandsInv'
<1>1. /\ pc = "fork" /\ pc' = "collect" /\ next' = 1
      /\ UNCHANGED <<program, input, path, lines, stdout, file, pos, ret, child, dir, code, todo,
                      pipe, made, reads, out>>
  BY DEF AllForked, setting, children, ends, output
<1>2. Len(lines) \in Nat
  BY LenProperties DEF CommandsInv, ParentTypes
<1>3. ParentTypes'
  <2>1. next' \in 1 .. Len(lines) + 1
    BY <1>1, <1>2
  <2>2. QED
    BY <1>1, <2>1 DEF CommandsInv, ParentTypes
<1>4. Setting' /\ ChildTypes' /\ EndTypes' /\ FileTypes' /\ Printed'
  <2>1. Setting' /\ ChildTypes' /\ EndTypes' /\ FileTypes'
    BY <1>1 DEF CommandsInv, Setting, ChildTypes, EndTypes, FileTypes
  <2>2. Parallel => DOMAIN stdout = {}
    BY <1>1 DEF CommandsInv, Progress
  <2>3. QED
    BY <1>1, <2>1, <2>2 DEF Printed, Parallel
<1>5. Progress'
  <2>1. Parallel => Len(stdout) = 0
    <3>1. Parallel => stdout = << >>
      BY <1>1 DEF CommandsInv, Progress
    <3>2. QED
      BY <3>1, EmptySeq, Zenon
  <2>2. QED
    BY <1>1, <2>1 DEF CommandsInv, Progress, Parallel
<1>6. ASSUME NEW j \in Slots PROVE (Started(j) /\ Held(j) /\ Piped(j))'
  <2>1. Started(j) /\ Held(j) /\ Piped(j)
    BY DEF CommandsInv
  <2>2. Started(j)' /\ Held(j)'
    BY <1>1, <2>1 DEF Started, Held
  <2>3. Piped(j)'
    BY <1>1, <2>1 DEF Piped, Unread, Parallel, Private
  <2>4. QED
    BY <2>2, <2>3
<1>7. QED
  BY <1>3, <1>4, <1>5, <1>6 DEF CommandsInv

\* What a read of a pipe takes is a beginning of what its command writes, and
\* all of it if the input is plain.
LEMMA ReadOwn ==
    ASSUME CommandsInv, Parallel, pc = "collect", NEW j \in 1 .. Len(lines), j = next,
           Private(j), pipe[j] # << >>
    PROVE  Own(path, input, lines[j], AsString(FirstBytes(pipe[j])))
<1> DEFINE w == Chosen(path, lines[j]).writes
           p == pipe[j]
           t == todo[j]
           s == AsString(FirstBytes(p))
<1>1. j \in Slots /\ lines[j] \in Names /\ path \in SearchPath
  BY SlotFacts DEF CommandsInv, Setting
<1>2. p \in Seq(Bytes) /\ t \in Seq(Seq(Bytes)) /\ w \in Seq(Seq(Bytes))
  BY <1>1, ChosenWrites DEF CommandsInv, ChildTypes, EndTypes
<1>3. Begun(child[j], w, t, p)
  <2>1. Unread(pc, next, j)
    BY <1>1 DEF Unread, Slots
  <2>2. QED
    BY <1>1, <2>1 DEF CommandsInv, Piped
<1> DEFINE named(n) == /\ Len(Chosen(path, n).writes) = 1
                       /\ Len(Chosen(path, n).writes[1]) < BUFF
                       /\ NUL \notin Range(Chosen(path, n).writes[1])
<1>4. PlainIn(path, input) => Len(w) = 1 /\ Len(w[1]) < BUFF /\ NUL \notin Range(w[1])
  <2> SUFFICES ASSUME PlainIn(path, input) PROVE named(lines[j])
    OBVIOUS
  <2>1. lines = << >> \/ lines = AllPieces(input)
    BY DEF CommandsInv, Progress
  <2>2. lines # << >>
    <3>1. Len(<< >>) = 0 /\ j \in Nat \ {0}
      BY EmptySeq
    <3>2. Len(lines) # 0
      BY <1>1, SlotFacts DEF CommandsInv
    <3>3. QED
      BY <3>1, <3>2, Zenon
  <2>3. lines = [k \in DOMAIN input |-> input[k].name]
    BY <2>1, <2>2, PlainLines DEF CommandsInv, Setting
  <2>4. j \in DOMAIN lines
    BY LenProperties DEF CommandsInv, ParentTypes
  <2>5. j \in DOMAIN input /\ lines[j] = input[j].name
    BY <2>3, <2>4
  <2>6. named(input[j].name)
    BY <2>5 DEF PlainIn
  <2> HIDE DEF named
  <2>7. QED
    BY <2>5, <2>6
<1> HIDE DEF w, p, t
<1>5. p # << >> /\ p \o FlattenSeq(t) = FlattenSeq(w) /\ Len(t) < Len(w)
  BY <1>3 DEF Begun, p
<1>6. s \in Seq(Bytes) /\ IsPrefix(s, p) /\ (Len(p) < BUFF /\ NUL \notin Range(p) => s = p)
  BY <1>2, PrintedFacts
<1>7. FlattenSeq(t) \in Seq(Bytes) /\ FlattenSeq(w) \in Seq(Bytes)
  BY <1>2, FlattenType
<1>8. IsPrefix(p, FlattenSeq(w))
  BY <1>2, <1>5, <1>7, PrefixConcat
<1> HIDE DEF s
<1>9. IsPrefix(s, FlattenSeq(w))
  BY <1>2, <1>6, <1>7, <1>8, PrefixTransitive
<1>10. PlainIn(path, input) => s = w[1]
  <2> SUFFICES ASSUME PlainIn(path, input) PROVE s = w[1]
    OBVIOUS
  <2>1. Len(w) = 1 /\ Len(w[1]) < BUFF /\ NUL \notin Range(w[1])
    BY <1>4
  <2>2. Len(t) = 0
    BY <1>2, <1>5, <2>1, LenProperties
  <2>3. t = << >>
    BY <1>2, <2>2, EmptySeq
  <2>4. FlattenSeq(t) = << >>
    BY <2>3, FlattenEmpty
  <2>5. FlattenSeq(w) = w[1]
    BY <1>2, <2>1, FlattenOne
  <2>6. p \o << >> = p
    BY <1>2, ConcatEmptySeq
  <2>7. p = w[1]
    BY <1>5, <2>4, <2>5, <2>6
  <2>8. QED
    BY <1>6, <2>1, <2>7
<1>11. Own(path, input, lines[j], s)
  BY <1>9, <1>10 DEF Own, w
<1>12. QED
  BY <1>11 DEF s, p

\* A turn that comes to its end: the pipes of the commands still to come are as
\* they were, and what is printed for this one is its own.
LEMMA ShowStep ==
    ASSUME CommandsInv, pc = "collect", next \in 1 .. Len(lines), NEW s \in Seq(Bytes),
           Shows(s), UNCHANGED <<setting, lines, children, ends>>, FileTypes', EndTypes',
           \A j \in Slots : j \notin made => pipe'[j] = << >>,
           \A j \in Slots : Private(j) /\ j # next => pipe'[j] = pipe[j],
           Parallel /\ Private(next) => Own(path, input, lines[next], s)
    PROVE  CommandsInv'
<1>1. /\ stdout' = Append(stdout, s) /\ next' = next + 1
      /\ UNCHANGED <<pc, ret, program, input, path, lines, child, dir, code, todo, made, reads, out>>
  BY DEF Shows, setting, children, ends
<1>2. Len(lines) \in Nat /\ stdout \in Seq(Seq(Bytes))
  BY LenProperties DEF CommandsInv, ParentTypes
<1>3. /\ stdout' \in Seq(Seq(Bytes)) /\ Len(stdout') = Len(stdout) + 1
      /\ \A k \in 1 .. Len(stdout) : stdout'[k] = stdout[k]
      /\ stdout'[Len(stdout) + 1] = s
      /\ Len(stdout) \in Nat /\ DOMAIN stdout = 1 .. Len(stdout)
      /\ DOMAIN stdout' = 1 .. Len(stdout) + 1
  <2>1. /\ stdout' \in Seq(Seq(Bytes)) /\ Len(stdout') = Len(stdout) + 1
        /\ \A k \in 1 .. Len(stdout) : stdout'[k] = stdout[k]
        /\ stdout'[Len(stdout) + 1] = s
    BY <1>1, <1>2, AppendProperties
  <2>2. Len(stdout) \in Nat /\ DOMAIN stdout = 1 .. Len(stdout)
    BY <1>2, LenProperties
  <2>3. DOMAIN stdout' = 1 .. Len(stdout')
    BY <2>1, LenProperties
  <2>4. QED
    BY <2>1, <2>2, <2>3
<1>4. Parallel => Len(stdout) = next - 1
  BY DEF CommandsInv, Progress
<1>5. ParentTypes'
  <2>1. next' \in 1 .. Len(lines) + 1
    BY <1>1, <1>2
  <2>2. QED
    BY <1>1, <1>3, <2>1 DEF CommandsInv, ParentTypes
<1>6. Setting' /\ ChildTypes'
  BY <1>1 DEF CommandsInv, Setting, ChildTypes
<1>7. Progress'
  <2>1. Parallel => Len(stdout') = next' - 1 /\ Len(stdout') <= Len(lines)
    BY <1>1, <1>2, <1>3, <1>4
  <2>2. QED
    BY <1>1, <2>1 DEF CommandsInv, Progress, Parallel
<1>8. Printed'
  <2> SUFFICES ASSUME Parallel, NEW k \in 1 .. Len(stdout) + 1, Private(k)
               PROVE  Own(path, input, lines[k], stdout'[k])
    BY <1>1, <1>3 DEF Printed, Parallel, Private
  <2>1. CASE k = Len(stdout) + 1
    <3>1. k = next /\ stdout'[k] = s
      BY <1>2, <1>3, <1>4, <2>1
    <3>2. QED
      BY <3>1
  <2>2. CASE k # Len(stdout) + 1
    <3>1. k \in 1 .. Len(stdout) /\ stdout'[k] = stdout[k]
      BY <1>3, <2>2
    <3>2. QED
      BY <1>3, <3>1 DEF CommandsInv, Printed
  <2>3. QED
    BY <2>1, <2>2
<1>9. ASSUME NEW j \in Slots PROVE (Started(j) /\ Held(j) /\ Piped(j))'
  <2>1. Started(j) /\ Held(j) /\ Piped(j) /\ j \in Nat
    BY DEF CommandsInv, Slots
  <2>2. Started(j)' /\ Held(j)'
    BY <1>1, <2>1 DEF Started, Held
  <2>3. Piped(j)'
    <3> SUFFICES ASSUME Parallel, Private(j), next + 1 <= j
                 PROVE  Begun(child[j], Chosen(path, lines[j]).writes, todo[j], pipe'[j])
      BY <1>1 DEF Piped, Parallel, Private, Unread
    <3>1. j # next /\ Unread(pc, next, j)
      BY <1>2, <2>1 DEF Unread
    <3>2. pipe'[j] = pipe[j]
      BY <3>1
    <3>3. QED
      BY <2>1, <3>1, <3>2 DEF Piped
  <2>4. QED
    BY <2>2, <2>3
<1>10. QED
  BY <1>5, <1>6, <1>7, <1>8, <1>9 DEF CommandsInv

LEMMA SlotsAreNoFiles == \A j \in Slots : j \notin {Closed, Input, Output}
  BY DEF Slots, Closed, Input, Output

\* A command that is private reads its own pipe, in its turn.
LEMMA OwnEnd ==
    ASSUME CommandsInv, next \in Slots, Private(next)
    PROVE  reads[next] = next /\ next \in made
  BY DEF CommandsInv, Held, Private

\* A turn may also end with a write outside buff.
LEMMA TurnStep ==
    ASSUME CommandsInv, pc = "collect", next \in 1 .. Len(lines), NEW s \in Seq(Bytes),
           Shows(s) \/ Crashes, UNCHANGED <<setting, lines, children, ends>>, FileTypes', EndTypes',
           \A j \in Slots : j \notin made => pipe'[j] = << >>,
           \A j \in Slots : Private(j) /\ j # next => pipe'[j] = pipe[j],
           Parallel /\ Private(next) => Own(path, input, lines[next], s)
    PROVE  CommandsInv'
<1>1. CASE Shows(s)
  BY <1>1, ShowStep
<1>2. CASE Crashes
  <2>1. pc' = "crashed" /\ ret' = NULL /\ UNCHANGED <<stdout, next>>
    BY <1>2 DEF Crashes, Stop
  <2>2. pipe' \in [Slots -> Seq(Bytes)] /\ \A j \in Slots : Len(pipe'[j]) <= PIPE
    BY DEF EndTypes
  <2>3. QED
    BY <2>1, <2>2, PipesKept, StopStep
<1>3. QED
  BY <1>1, <1>2

LEMMA CollectStep == ASSUME CommandsInv, Collect PROVE CommandsInv'
<1> DEFINE end == reads[next]
<1>1. /\ pc = "collect" /\ next <= Len(lines) /\ UNCHANGED <<setting, lines, children, ends>>
      /\ ReadPipe(end) \/ ReadFile(end) \/ ReadFails(end)
  BY DEF Collect
<1>2. next \in Nat \ {0} /\ next \in 1 .. Len(lines) /\ Len(lines) \in Nat
  <2>1. next \in 1 .. Len(lines) + 1 /\ Len(lines) \in Nat
    BY LenProperties DEF CommandsInv, ParentTypes
  <2>2. QED
    BY <1>1, <2>1
<1>3. next \in Slots
  BY <1>2, SlotFacts DEF CommandsInv
<1>4. /\ pipe \in [Slots -> Seq(Bytes)] /\ \A j \in Slots : Len(pipe[j]) <= PIPE
      /\ \A j \in Slots : j \notin made => pipe[j] = << >>
      /\ stdout \in Seq(Seq(Bytes)) /\ FileTypes /\ EndTypes
  BY PipesKept DEF CommandsInv
<1>5. UNCHANGED <<made, reads, out>>
  BY <1>1 DEF ends
<1>6. CASE ReadPipe(end)
  <2> DEFINE q == pipe[end]
             s == AsString(FirstBytes(q))
             rest == SubSeq(q, BUFF + 1, Len(q))
  <2>1. /\ end \in made /\ end \in Slots /\ q # << >> /\ (Shows(s) \/ Crashes)
        /\ pipe' = [pipe EXCEPT ![end] = rest] /\ UNCHANGED <<file, pos>>
    BY <1>4, <1>6 DEF ReadPipe, Takes, output, EndTypes
  <2>2. q \in Seq(Bytes) /\ Len(q) <= PIPE
    BY <1>4, <2>1
  <2>3. rest \in Seq(Bytes) /\ Len(rest) <= PIPE
    <3> HIDE DEF q
    <3>1. BUFF \in Nat /\ PIPE \in Nat /\ Len(q) \in Nat
      BY <2>2, CommandsAssumption, LenProperties
    <3>2. rest \in Seq(Bytes) /\ Len(rest) = IF BUFF < Len(q) THEN Len(q) - BUFF ELSE 0
      BY <2>2, <3>1, RestFacts
    <3> HIDE DEF rest
    <3>3. QED
      BY <2>2, <3>1, <3>2
  <2>4. s \in Seq(Bytes)
    <3> HIDE DEF q
    <3>1. QED
      BY <2>2, PrintedFacts
  <2>5. Parallel /\ Private(next) => Own(path, input, lines[next], s)
    <3> SUFFICES ASSUME Parallel, Private(next) PROVE Own(path, input, lines[next], s)
      OBVIOUS
    <3>1. end = next
      BY <1>3, OwnEnd
    <3>2. pipe[next] # << >> /\ s = AsString(FirstBytes(pipe[next]))
      BY <2>1, <3>1
    <3>3. Own(path, input, lines[next], AsString(FirstBytes(pipe[next])))
      BY <1>1, <1>2, <3>2, ReadOwn
    <3>4. QED
      BY <3>2, <3>3
  <2> HIDE DEF s, rest, q
  <2>6. /\ pipe' \in [Slots -> Seq(Bytes)] /\ \A j \in Slots : Len(pipe'[j]) <= PIPE
        /\ \A j \in Slots : j # end => pipe'[j] = pipe[j]
    BY <1>4, <2>1, <2>3
  <2>7. EndTypes' /\ FileTypes'
    BY <1>4, <1>5, <2>1, <2>6 DEF EndTypes, FileTypes
  <2>8. \A j \in Slots : j \notin made => pipe'[j] = << >>
    BY <1>4, <2>1, <2>6
  <2>9. \A j \in Slots : Private(j) /\ j # next => pipe'[j] = pipe[j]
    BY <1>3, <2>6 DEF Private
  <2>10. QED
    BY <1>1, <1>2, <2>1, <2>4, <2>5, <2>7, <2>8, <2>9, TurnStep
\* Where nothing is read from a pipe, the command has none of its own.
<1>7. ASSUME NEW s \in Seq(Bytes), Shows(s) \/ Crashes, UNCHANGED pipe, FileTypes', ~ Private(next)
      PROVE  CommandsInv'
  <2>1. EndTypes'
    BY <1>4, <1>5, <1>7 DEF EndTypes
  <2>2. QED
    BY <1>1, <1>2, <1>4, <1>7, <2>1, TurnStep
<1>8. CASE ReadFile(end)
  <2> DEFINE data == FirstBytes(SubSeq(file, pos + 1, Len(file)))
  <2>1. /\ end \in {Input, Output} /\ UNCHANGED <<file, pipe>>
        /\ \/ Takes(<< >>) /\ UNCHANGED pos
           \/ Takes(data) /\ pos' = pos + Len(data)
    BY <1>8 DEF ReadFile
  <2>2. ~ Private(next)
    BY <1>3, <2>1, OwnEnd, SlotsAreNoFiles
  <2>3. file \in Seq(Bytes) /\ pos \in Nat /\ pos <= Len(file) /\ Len(file) \in Nat
    BY <1>4, LenProperties DEF FileTypes
  <2>4. data \in Seq(Bytes) /\ pos + Len(data) \in 0 .. Len(file)
    <3> DEFINE tail == SubSeq(file, pos + 1, Len(file))
    <3>1. tail \in Seq(Bytes) /\ Len(tail) = IF pos < Len(file) THEN Len(file) - pos ELSE 0
      BY <2>3, RestFacts
    <3> HIDE DEF tail
    <3>2. /\ FirstBytes(tail) \in Seq(Bytes) /\ Len(FirstBytes(tail)) \in Nat
          /\ Len(FirstBytes(tail)) <= Len(tail) /\ Len(tail) \in Nat
      <4>1. FirstBytes(tail) \in Seq(Bytes) /\ IsPrefix(FirstBytes(tail), tail)
        BY <3>1, FirstBytesFacts
      <4>2. Len(FirstBytes(tail)) <= Len(tail)
        BY <4>1 DEF IsPrefix
      <4>3. QED
        BY <3>1, <4>1, <4>2, LenProperties
    <3>3. pos + Len(FirstBytes(tail)) \in 0 .. Len(file)
      BY <2>3, <3>1, <3>2
    <3>4. QED
      BY <3>2, <3>3 DEF tail
  <2> HIDE DEF data
  <2>5. << >> \in Seq(Bytes)
    BY EmptySeq
  <2>6. CASE Takes(<< >>) /\ UNCHANGED pos
    <3>1. FileTypes'
      BY <1>4, <2>1, <2>6 DEF FileTypes
    <3>2. AsString(<< >>) \in Seq(Bytes)
      BY <2>5, AsStringFacts
    <3>3. Shows(AsString(<< >>)) \/ Crashes
      BY <2>6 DEF Takes
    <3>4. QED
      BY <1>7, <2>1, <2>2, <3>1, <3>2, <3>3
  <2>7. CASE Takes(data) /\ pos' = pos + Len(data)
    <3>1. FileTypes'
      BY <2>1, <2>3, <2>4, <2>7 DEF FileTypes
    <3>2. AsString(data) \in Seq(Bytes)
      BY <2>4, AsStringFacts
    <3>3. Shows(AsString(data)) \/ Crashes
      BY <2>7 DEF Takes
    <3>4. QED
      BY <1>7, <2>1, <2>2, <3>1, <3>2, <3>3
  <2>8. QED
    BY <2>1, <2>6, <2>7
<1>9. CASE ReadFails(end)
  <2>1. end \notin made /\ UNCHANGED <<pipe, file, pos>> /\ ((\E s \in Stale : Shows(s)) \/ Crashes)
    BY <1>9 DEF ReadFails, output
  <2>2. ~ Private(next) /\ FileTypes'
    BY <1>3, <1>4, <2>1, OwnEnd DEF FileTypes
  <2>3. << >> \in Seq(Bytes) /\ Stale \subseteq Seq(Bytes)
    <3>1. stdout # << >> => Last(stdout) \in Seq(Bytes)
      <4>1. Len(stdout) \in Nat /\ (stdout # << >> => Len(stdout) # 0)
        BY <1>4, LenProperties, EmptySeq
      <4>2. stdout # << >> => Len(stdout) \in 1 .. Len(stdout)
        BY <4>1
      <4>3. QED
        BY <1>4, <4>2, ElementOfSeq DEF Last
    <3>2. QED
      BY <3>1, EmptySeq, CommandsAssumption DEF Stale
  <2>4. ASSUME NEW s \in Stale, Shows(s) PROVE CommandsInv'
    <3>1. s \in Seq(Bytes)
      BY <2>3
    <3>2. QED
      BY <1>7, <2>1, <2>2, <2>4, <3>1
  <2>5. CASE Crashes
    BY <1>7, <2>1, <2>2, <2>3, <2>5
  <2>6. QED
    BY <2>1, <2>4, <2>5
<1>10. QED
  BY <1>1, <1>6, <1>8, <1>9

(***************************************************************************)
(* The children.                                                           *)
(***************************************************************************)
\* A child's step leaves the parent alone, the other children, and the pipes that
\* are private to them.
LEMMA ChildFrame ==
    ASSUME CommandsInv, NEW j \in Slots, UNCHANGED <<setting, parent, ends>>,
           ChildTypes', EndTypes', FileTypes',
           \A i \in Slots : i # j =>
               /\ child'[i] = child[i] /\ dir'[i] = dir[i] /\ todo'[i] = todo[i]
               /\ Private(i) => pipe'[i] = pipe[i],
           \A i \in Slots : i \notin made => pipe'[i] = << >>,
           child[j] # "none", Started(j)', child'[j] # "none", Piped(j)'
    PROVE  CommandsInv'
<1>1. UNCHANGED <<program, input, path, pc, lines, next, stdout, ret, made, reads, out>>
  BY DEF setting, parent, ends
<1>2. \A k : Private(k)' <=> Private(k)
  BY <1>1 DEF Private
<1>3. Setting' /\ ParentTypes' /\ Progress' /\ Printed'
  BY <1>1, <1>2 DEF CommandsInv, Setting, ParentTypes, Progress, Printed, Parallel
<1>4. Held(j)'
  <2>1. Held(j)
    BY DEF CommandsInv
  <2>2. QED
    BY <1>1, <2>1 DEF Held
<1>5. ASSUME NEW i \in Slots, i # j PROVE (Started(i) /\ Held(i) /\ Piped(i))'
  <2>1. Started(i) /\ Held(i) /\ Piped(i)
    BY DEF CommandsInv
  <2>2. /\ child'[i] = child[i] /\ dir'[i] = dir[i] /\ todo'[i] = todo[i]
        /\ Private(i) => pipe'[i] = pipe[i]
        /\ i \notin made => pipe'[i] = << >>
    BY <1>5
  <2>3. Started(i)' /\ Held(i)'
    BY <1>1, <2>1, <2>2 DEF Started, Held
  <2>4. Piped(i)'
    BY <1>1, <1>2, <2>1, <2>2 DEF Piped, Parallel
  <2>5. QED
    BY <2>3, <2>4
<1>6. QED
  BY <1>3, <1>4, <1>5 DEF CommandsInv

\* A step of a child that leaves every pipe and the file alone.
LEMMA QuietFrame ==
    ASSUME CommandsInv, NEW j \in Slots, UNCHANGED <<setting, parent, ends, pipe, file, pos>>,
           ChildTypes',
           \A i \in Slots : i # j => child'[i] = child[i] /\ dir'[i] = dir[i] /\ todo'[i] = todo[i],
           child[j] # "none", Started(j)', child'[j] # "none", Piped(j)'
    PROVE  CommandsInv'
<1>1. EndTypes' /\ FileTypes'
  BY DEF CommandsInv, EndTypes, FileTypes, ends
<1>2. \A i \in Slots : i \notin made => pipe'[i] = << >>
  BY DEF CommandsInv, Held
<1>3. QED
  BY <1>1, <1>2, ChildFrame

LEMMA SearchStep == ASSUME CommandsInv, NEW j \in Slots, Search(j) PROVE CommandsInv'
<1> DEFINE w == Chosen(path, lines[j]).writes
           here == Programs[path[dir[j]]][lines[j]]
<1>1. /\ child[j] = "searching"
      /\ IF dir[j] > Len(path)
         THEN /\ child' = [child EXCEPT ![j] = "unable"]
              /\ todo' = [todo EXCEPT ![j] = <<Unable>>] /\ dir' = dir
         ELSE IF here # NULL
         THEN /\ child' = [child EXCEPT ![j] = "running"]
              /\ todo' = [todo EXCEPT ![j] = here.writes] /\ dir' = dir
         ELSE dir' = [dir EXCEPT ![j] = dir[j] + 1] /\ child' = child /\ todo' = todo
      /\ UNCHANGED <<setting, parent, ends, code, pipe, file, pos>>
  BY DEF Search, Here, output
<1>2. UNCHANGED <<program, input, path, pc, lines, next, stdout, ret, code, pipe, made, reads, out>>
  BY <1>1 DEF setting, parent, ends
<1>3. /\ j \in 1 .. Len(lines) /\ pc # "open" /\ ~ (pc = "fork" /\ next <= j)
      /\ Looked(path, lines[j], "searching", dir[j])
  BY <1>1 DEF CommandsInv, Started, Slots
<1>4. lines[j] \in Names /\ path \in SearchPath /\ Len(path) \in Nat
  BY <1>3, SlotFacts, LenProperties DEF CommandsInv, Setting, SearchPath
<1>5. dir[j] \in 1 .. Len(path) + 1 /\ \A e \in 1 .. dir[j] - 1 : Programs[path[e]][lines[j]] = NULL
  BY <1>3 DEF Looked
<1>6. ChildTypes
  BY DEF CommandsInv
<1>7. /\ todo[j] = << >>
      /\ Parallel /\ Private(j) /\ Unread(pc, next, j) => pipe[j] = << >>
  BY <1>1 DEF CommandsInv, Started, Piped, Begun
<1>8. w \in Seq(Seq(Bytes))
  BY <1>4, ChosenWrites
<1>9. << >> \in Seq(Bytes) /\ << >> \o FlattenSeq(w) = FlattenSeq(w)
  <2>1. FlattenSeq(w) \in Seq(Bytes)
    BY <1>8, FlattenType
  <2>2. QED
    BY <2>1, ConcatEmptySeq, EmptySeq
\* A child whose program has been looked up is about to write all of it.
<1>10. ASSUME NEW c \in {"unable", "running"}, child' = [child EXCEPT ![j] = c],
              todo' = [todo EXCEPT ![j] = w], dir' = dir, Looked(path, lines[j], c, dir[j])
       PROVE  CommandsInv'
  <2>1. ChildTypes'
    <3> HIDE DEF w
    <3>1. child' \in [Slots -> {"none", "searching", "running", "unable", "ended"}]
      BY <1>6, <1>10 DEF ChildTypes
    <3>2. todo' \in [Slots -> Seq(Seq(Bytes))]
      BY <1>6, <1>8, <1>10 DEF ChildTypes
    <3>3. QED
      BY <1>2, <1>6, <1>10, <3>1, <3>2 DEF ChildTypes
  <2>2. child'[j] = c /\ todo'[j] = w
    BY <1>6, <1>10 DEF ChildTypes
  <2>3. Started(j)'
    BY <1>2, <1>3, <1>10, <2>2 DEF Started
  <2>4. Piped(j)'
    <3> SUFFICES ASSUME Parallel', Private(j)', Unread(pc', next', j)
                 PROVE  Begun(child'[j], Chosen(path', lines'[j]).writes, todo'[j], pipe'[j])
      BY DEF Piped
    <3>1. pipe'[j] = << >>
      BY <1>2, <1>7 DEF Parallel, Private
    <3>2. Begun(c, w, w, << >>)
      BY <1>9, <1>10 DEF Begun
    <3>3. QED
      BY <1>2, <2>2, <3>1, <3>2
  <2>5. \A i \in Slots : i # j =>
            child'[i] = child[i] /\ dir'[i] = dir[i] /\ todo'[i] = todo[i]
    BY <1>2, <1>6, <1>10 DEF ChildTypes
  <2>6. child[j] # "none" /\ child'[j] # "none"
    BY <1>1, <2>2
  <2>7. QED
    BY <1>1, <2>1, <2>3, <2>4, <2>5, <2>6, QuietFrame
<1>11. CASE dir[j] > Len(path)
  <2>1. dir[j] = Len(path) + 1
    BY <1>4, <1>5, <1>11
  <2>2. w = <<Unable>>
    BY <1>4, <1>5, <2>1, ChosenNowhere
  <2>3. Looked(path, lines[j], "unable", dir[j])
    BY DEF Looked
  <2>4. child' = [child EXCEPT ![j] = "unable"] /\ todo' = [todo EXCEPT ![j] = w] /\ dir' = dir
    BY <1>1, <1>11, <2>2
  <2>5. QED
    BY <1>10, <2>3, <2>4
<1>12. CASE ~ (dir[j] > Len(path)) /\ here # NULL
  <2>1. dir[j] \in 1 .. Len(path)
    BY <1>4, <1>5, <1>12
  <2>2. w = here.writes
    BY <1>4, <1>5, <1>12, <2>1, ChosenFound
  <2>3. Looked(path, lines[j], "running", dir[j])
    BY <1>12, <2>1 DEF Looked
  <2>4. child' = [child EXCEPT ![j] = "running"] /\ todo' = [todo EXCEPT ![j] = w] /\ dir' = dir
    BY <1>1, <1>12, <2>2
  <2>5. QED
    BY <1>10, <2>3, <2>4
<1>13. CASE ~ (dir[j] > Len(path)) /\ here = NULL
  <2>1. dir' = [dir EXCEPT ![j] = dir[j] + 1] /\ child' = child /\ todo' = todo
    BY <1>1, <1>13
  <2>2. dir[j] \in 1 .. Len(path) /\ dir[j] + 1 \in 1 .. Len(path) + 1
    BY <1>4, <1>5, <1>13
  <2>3. dir \in [Slots -> 0 .. Len(path) + 1]
    BY <1>6 DEF ChildTypes
  <2>4. dir'[j] = dir[j] + 1 /\ dir' \in [Slots -> 0 .. Len(path) + 1]
    BY <1>4, <2>1, <2>2, <2>3
  <2>5. ChildTypes'
    BY <1>2, <1>6, <2>1, <2>4 DEF ChildTypes
  <2>6. Started(j)'
    <3>1. \A e \in 1 .. dir[j] : Programs[path[e]][lines[j]] = NULL
      <4> TAKE e \in 1 .. dir[j]
      <4>1. e = dir[j] \/ e \in 1 .. dir[j] - 1
        BY <1>5
      <4>2. QED
        BY <1>5, <1>13, <4>1
    <3>2. (dir[j] + 1) - 1 = dir[j]
      BY <1>5
    <3>3. Looked(path, lines[j], "searching", dir[j] + 1)
      BY <2>2, <3>1, <3>2 DEF Looked
    <3>4. QED
      BY <1>1, <1>2, <1>3, <1>7, <2>1, <2>4, <3>3 DEF Started
  <2>7. Piped(j)'
    BY <1>2, <2>1 DEF CommandsInv, Piped, Parallel, Private
  <2>8. \A i \in Slots : i # j =>
            child'[i] = child[i] /\ dir'[i] = dir[i] /\ todo'[i] = todo[i]
    BY <1>2, <2>1, <2>3
  <2>9. child[j] # "none" /\ child'[j] # "none"
    BY <1>1, <2>1
  <2>10. QED
    BY <1>1, <2>5, <2>6, <2>7, <2>8, <2>9, QuietFrame
<1>14. QED
  BY <1>11, <1>12, <1>13

\* A write to a pipe is to one that was made, and a write to the file keeps it one.
WrittenTo(end, bytes) ==
    /\ EndTypes' /\ FileTypes'
    /\ \A i \in Slots : (i # end \/ i \notin made) => pipe'[i] = pipe[i]
    /\ end \in made => pipe'[end] = pipe[end] \o bytes

LEMMA WriteToFacts ==
    ASSUME CommandsInv, NEW end, NEW bytes \in Seq(Bytes), WriteTo(end, bytes), UNCHANGED ends
    PROVE  WrittenTo(end, bytes)
<1>1. EndTypes /\ FileTypes /\ made' = made /\ reads' = reads /\ out' = out
  BY DEF CommandsInv, ends
<1>2. \A i \in made : i \notin {Input, Output}
  BY <1>1, SlotsAreNoFiles DEF EndTypes
<1>3. CASE /\ end \in made /\ Len(pipe[end]) + Len(bytes) <= PIPE
           /\ pipe' = [pipe EXCEPT ![end] = @ \o bytes] /\ UNCHANGED output
  <2> DEFINE q == pipe[end]
             all == q \o bytes
  <2>1. end \in Slots /\ pipe \in [Slots -> Seq(Bytes)] /\ \A i \in Slots : Len(pipe[i]) <= PIPE
    BY <1>1, <1>3 DEF EndTypes
  <2>2. q \in Seq(Bytes) /\ Len(q) + Len(bytes) <= PIPE /\ pipe' = [pipe EXCEPT ![end] = all]
    BY <1>3, <2>1
  <2>3. all \in Seq(Bytes) /\ Len(all) <= PIPE
    <3> HIDE DEF q
    <3>1. all \in Seq(Bytes) /\ Len(all) = Len(q) + Len(bytes)
      BY <2>2, ConcatProperties
    <3>2. QED
      BY <2>2, <3>1
  <2> HIDE DEF all, q
  <2>4. /\ pipe' \in [Slots -> Seq(Bytes)] /\ \A i \in Slots : Len(pipe'[i]) <= PIPE
        /\ \A i \in Slots : i # end => pipe'[i] = pipe[i]
        /\ pipe'[end] = all
    BY <2>1, <2>2, <2>3
  <2>5. EndTypes' /\ FileTypes'
    BY <1>1, <1>3, <2>4 DEF EndTypes, FileTypes, output
  <2>6. QED
    BY <1>3, <2>4, <2>5 DEF WrittenTo, all, q
<1>4. CASE end = Output /\ Put(bytes) /\ UNCHANGED pipe
  <2>1. FileTypes'
    BY <1>1, <1>4, PutType
  <2>2. EndTypes' /\ end \notin made
    BY <1>1, <1>2, <1>4 DEF EndTypes
  <2>3. QED
    BY <1>4, <2>1, <2>2 DEF WrittenTo
<1>5. CASE end = Input /\ UNCHANGED <<pipe, output>>
  <2>1. EndTypes' /\ FileTypes' /\ end \notin made
    BY <1>1, <1>2, <1>5 DEF EndTypes, FileTypes, output
  <2>2. QED
    BY <1>5, <2>1 DEF WrittenTo
<1>6. QED
  BY <1>3, <1>4, <1>5 DEF WriteTo

LEMMA WriteStep == ASSUME CommandsInv, NEW j \in Slots, Write(j) PROVE CommandsInv'
<1> DEFINE w == Chosen(path, lines[j]).writes
           t == todo[j]
           p == pipe[j]
<1>1. /\ child[j] \in {"running", "unable"} /\ t # << >>
      /\ todo' = [todo EXCEPT ![j] = Tail(t)]
      /\ IF program = "executeCommand"
         THEN stdout' = Append(stdout, Head(t)) /\ UNCHANGED <<pipe, file, pos>>
         ELSE WriteTo(out[j], Head(t)) /\ stdout' = stdout
      /\ UNCHANGED <<program, input, path, pc, lines, next, ret, child, dir, code, ends>>
  BY DEF Write, setting, output
<1>2. ChildTypes /\ Started(j) /\ j <= Len(lines)
  BY <1>1 DEF CommandsInv, Started
<1>3. j \in 1 .. Len(lines) /\ lines[j] \in Names /\ path \in SearchPath
  <2>1. Len(lines) \in Nat
    BY LenProperties DEF CommandsInv, ParentTypes
  <2>2. j \in 1 .. Len(lines)
    BY <1>2, <2>1 DEF Slots
  <2>3. QED
    BY <2>2, SlotFacts DEF CommandsInv, Setting
<1>4. t \in Seq(Seq(Bytes)) /\ p \in Seq(Bytes) /\ w \in Seq(Seq(Bytes))
  BY <1>3, ChosenWrites DEF CommandsInv, ChildTypes, EndTypes
<1> HIDE DEF w, t, p
<1>5. /\ Head(t) \in Seq(Bytes) /\ Tail(t) \in Seq(Seq(Bytes))
      /\ FlattenSeq(Tail(t)) \in Seq(Bytes)
      /\ FlattenSeq(t) = Head(t) \o FlattenSeq(Tail(t))
  BY <1>1, <1>4, FlattenHead
<1>6. Len(Tail(t)) = Len(t) - 1 /\ Len(t) \in Nat /\ Len(w) \in Nat
  BY <1>1, <1>4, HeadTailProperties, LenProperties
<1>7. todo \in [Slots -> Seq(Seq(Bytes))]
  BY <1>2 DEF ChildTypes
<1>8. /\ todo' \in [Slots -> Seq(Seq(Bytes))] /\ \A i \in Slots : i # j => todo'[i] = todo[i]
      /\ todo'[j] = Tail(t)
  BY <1>1, <1>5, <1>7
<1>9. ChildTypes'
  BY <1>1, <1>2, <1>8 DEF ChildTypes
<1>10. Started(j)'
  BY <1>1, <1>2 DEF Started
<1>11. UNCHANGED <<made, reads, out>>
  BY <1>1 DEF ends
\* executeCommand leaves the pipes alone.
<1>12. CASE program = "executeCommand"
  <2>1. ~ Parallel /\ ~ Parallel' /\ UNCHANGED <<pipe, file, pos>>
    BY <1>1, <1>12 DEF Parallel
  <2>2. stdout' \in Seq(Seq(Bytes))
    <3>1. stdout \in Seq(Seq(Bytes)) /\ stdout' = Append(stdout, Head(t))
      BY <1>1, <1>12 DEF CommandsInv, ParentTypes
    <3> DEFINE h == Head(t)
    <3> HIDE DEF h
    <3>2. h \in Seq(Bytes) /\ stdout' = Append(stdout, h)
      BY <1>5, <3>1 DEF h
    <3>3. QED
      BY <3>1, <3>2, AppendProperties
  <2>3. ParentTypes'
    BY <1>1, <2>2 DEF CommandsInv, ParentTypes
  <2>4. EndTypes' /\ FileTypes'
    BY <1>11, <2>1 DEF CommandsInv, EndTypes, FileTypes
  <2>5. Setting' /\ Progress'
    BY <1>1, <2>1 DEF CommandsInv, Setting, Progress
  <2>6. ASSUME NEW i \in Slots PROVE Started(i)' /\ Held(i)'
    <3>1. Started(i) /\ Held(i) /\ (i = j \/ todo'[i] = todo[i])
      BY <1>8 DEF CommandsInv
    <3>2. QED
      BY <1>1, <1>10, <1>11, <2>1, <3>1 DEF Started, Held
  <2>7. Printed' /\ \A i \in Slots : Piped(i)'
    BY <2>1 DEF Printed, Piped
  <2>8. QED
    BY <1>9, <2>3, <2>4, <2>5, <2>6, <2>7 DEF CommandsInv
<1>13. CASE program # "executeCommand"
  <2>1. WrittenTo(out[j], Head(t)) /\ UNCHANGED <<setting, parent, ends>>
    <3>1. WriteTo(out[j], Head(t))
      BY <1>1, <1>13
    <3> DEFINE h == Head(t)
    <3> HIDE DEF h
    <3>2. h \in Seq(Bytes) /\ WriteTo(out[j], h) /\ UNCHANGED ends
      BY <1>1, <1>5, <3>1 DEF h
    <3>3. WrittenTo(out[j], h)
      BY <3>2, WriteToFacts
    <3>4. QED
      BY <1>1, <1>13, <3>3 DEF h, setting, parent
  <2>2. \A i \in Slots : i # j =>
            /\ child'[i] = child[i] /\ dir'[i] = dir[i] /\ todo'[i] = todo[i]
            /\ Private(i) => pipe'[i] = pipe[i]
    BY <1>1, <1>8, <2>1 DEF WrittenTo, Private
  <2>3. \A i \in Slots : i \notin made => pipe'[i] = << >>
    BY <2>1, PipesKept DEF WrittenTo
  <2>4. Piped(j)'
    <3> SUFFICES ASSUME Parallel', Private(j)', Unread(pc', next', j)
                 PROVE  Begun(child'[j], Chosen(path', lines'[j]).writes, todo'[j], pipe'[j])
      BY DEF Piped
    <3>1. Parallel /\ Private(j) /\ Unread(pc, next, j)
      BY <1>1, <1>11 DEF Parallel, Private
    <3>2. Begun(child[j], w, t, p)
      BY <3>1 DEF CommandsInv, Piped, w, t, p
    <3>3. /\ p \o FlattenSeq(t) = FlattenSeq(w)
          /\ (p = << >> /\ t = w) \/ Len(t) < Len(w)
      BY <1>1, <3>2 DEF Begun
    <3>4. (p \o Head(t)) \o FlattenSeq(Tail(t)) = FlattenSeq(w)
      <4>1. Regroups(p, Head(t), FlattenSeq(Tail(t)))
        BY <1>4, <1>5, ThreeConcat
      <4>2. QED
        BY <1>5, <3>3, <4>1 DEF Regroups
    <3>5. Len(Tail(t)) < Len(w)
      <4>1. t = w => Len(t) = Len(w)
        OBVIOUS
      <4>2. QED
        BY <1>6, <3>3, <4>1
    <3>6. Begun(child[j], w, Tail(t), p \o Head(t))
      BY <1>1, <3>4, <3>5 DEF Begun
    <3>7. pipe'[j] = p \o Head(t)
      <4>1. j \in made /\ out[j] = j
        BY <3>1 DEF CommandsInv, Held, Private
      <4>2. QED
        BY <2>1, <4>1 DEF WrittenTo, p
    <3>8. QED
      BY <1>1, <1>8, <3>6, <3>7 DEF w
  <2>5. child[j] # "none" /\ child'[j] # "none" /\ EndTypes' /\ FileTypes'
    BY <1>1, <2>1 DEF WrittenTo
  <2>6. QED
    BY <1>9, <1>10, <2>1, <2>2, <2>3, <2>4, <2>5, ChildFrame
<1>14. QED
  BY <1>12, <1>13

LEMMA ExitStep == ASSUME CommandsInv, NEW j \in Slots, Exit(j) PROVE CommandsInv'
<1>1. /\ child[j] \in {"running", "unable"} /\ todo[j] = << >>
      /\ child' = [child EXCEPT ![j] = "ended"] /\ code' = [code EXCEPT ![j] = ExitCode(j)]
      /\ UNCHANGED <<setting, parent, dir, todo, ends, pipe, file, pos>>
  BY DEF Exit, output
<1>2. UNCHANGED <<program, input, path, pc, lines, next, stdout, ret, dir, todo, pipe,
                  made, reads, out>>
  BY <1>1 DEF setting, parent, ends
<1>3. ChildTypes /\ Started(j) /\ j <= Len(lines)
  BY <1>1 DEF CommandsInv, Started
<1>4. lines[j] \in Names /\ path \in SearchPath
  <2>1. Len(lines) \in Nat
    BY LenProperties DEF CommandsInv, ParentTypes
  <2>2. j \in 1 .. Len(lines)
    BY <1>3, <2>1 DEF Slots
  <2>3. QED
    BY <2>2, SlotFacts DEF CommandsInv, Setting
<1>5. ExitCode(j) \in 0 .. 255
  <2>1. CASE child[j] = "unable"
    BY <2>1 DEF ExitCode
  <2>2. CASE child[j] = "running"
    <3>1. dir[j] \in 1 .. Len(path) /\ Programs[path[dir[j]]][lines[j]] # NULL
      BY <1>3, <2>2 DEF Started, Looked
    <3>2. Programs[path[dir[j]]][lines[j]].code \in 0 .. 255
      BY <1>4, <3>1, ProgramFacts
    <3>3. QED
      BY <2>2, <3>2 DEF ExitCode, Here
  <2>3. QED
    BY <1>1, <2>1, <2>2
<1>6. /\ child' \in [Slots -> {"none", "searching", "running", "unable", "ended"}]
      /\ child'[j] = "ended" /\ \A i \in Slots : i # j => child'[i] = child[i]
      /\ code' \in [Slots -> 0 .. 255]
  BY <1>1, <1>3, <1>5 DEF ChildTypes
<1>7. ChildTypes'
  BY <1>2, <1>3, <1>6 DEF ChildTypes
<1>8. Started(j)'
  BY <1>1, <1>2, <1>3, <1>6 DEF Started, Looked
<1>9. Piped(j)'
  <2>1. Piped(j)
    BY DEF CommandsInv
  <2>2. QED
    BY <1>1, <1>2, <1>6, <2>1 DEF Piped, Begun, Parallel, Private
<1>10. QED
  BY <1>1, <1>2, <1>6, <1>7, <1>8, <1>9, QuietFrame

LEMMA StepInv == CommandsInv /\ [Next]_vars => CommandsInv'
<1> SUFFICES ASSUME CommandsInv, [Next]_vars PROVE CommandsInv'
  OBVIOUS
<1>1. CASE ParentStep
  BY <1>1, ReadStep, ForkStep, AllForkedStep, CollectStep, FinishStep, WaitStep DEF ParentStep
<1>2. CASE OpenFails \/ ForkFails
  BY <1>2, OpenFailsStep, ForkFailsStep
<1>3. ASSUME NEW j \in Slots, ChildStep(j) PROVE CommandsInv'
  BY <1>3, SearchStep, WriteStep, ExitStep DEF ChildStep
<1>4. CASE UNCHANGED vars
  <2>1. UNCHANGED <<program, input, path, pc, lines, next, child, dir, code, todo, pipe,
                    stdout, file, pos, ret, made, reads, out>>
    BY <1>4 DEF vars, setting, parent, children, ends, output
  <2>2. /\ Setting' /\ ParentTypes' /\ ChildTypes' /\ EndTypes' /\ FileTypes'
        /\ Progress' /\ Printed'
    BY <2>1 DEF CommandsInv, Setting, ParentTypes, ChildTypes, EndTypes, FileTypes, Progress,
                Printed, Parallel, Private
  <2>3. ASSUME NEW j \in Slots PROVE (Started(j) /\ Held(j) /\ Piped(j))'
    <3>1. Started(j) /\ Held(j) /\ Piped(j)
      BY DEF CommandsInv
    <3>2. QED
      BY <2>1, <3>1 DEF Started, Held, Piped, Parallel, Private
  <2>4. QED
    BY <2>2, <2>3 DEF CommandsInv
<1>5. QED
  BY <1>1, <1>2, <1>3, <1>4 DEF Next

LEMMA InvHolds == Spec => []CommandsInv
  BY InitInv, StepInv, PTL DEF Spec

\* For every input, path, set of programs and sizes of the buffer and the pipes, and
\* whatever the memory held: no pipe takes more than it has room for, however
\* many children a stray number lets write into it, no directory past the end of
\* the path is tried, the parent never turns to a command past the last, the
\* position in the output file never passes its end and what main returns is an
\* exit code.  Of an input with more lines than the array has room for nothing is
\* claimed: the program writes past the array and its model stops there.
THEOREM CommandsTyped == Spec => []TypeOK
<1>1. CommandsInv => TypeOK
  BY DEF CommandsInv, TypeOK, ParentTypes, ChildTypes, EndTypes, FileTypes, Named
<1>2. QED
  BY <1>1, InvHolds, PTL

\* However many children executeInParallel has forked, however they run and
\* whichever pipes could not be made: what it prints for a command whose pipe was
\* made, and which no stray number names, is a beginning of what the program found
\* for that command writes, never a byte of another's.
THEOREM OutputsOwned == Spec => []OwnOutput
<1>1. CommandsInv => OwnOutput
  <2> SUFFICES ASSUME CommandsInv, program = "executeInParallel", NEW k \in DOMAIN stdout,
                      Private(k)
               PROVE  IsPrefix(stdout[k], FlattenSeq(Expected(lines[k]).writes))
    BY DEF OwnOutput
  <2>1. Own(path, input, lines[k], stdout[k])
    BY DEF CommandsInv, Printed, Parallel
  <2>2. Expected(lines[k]) = Chosen(path, lines[k])
    BY ExpectedChosen
  <2>3. QED
    BY <2>1, <2>2 DEF Own
<1>2. QED
  BY <1>1, InvHolds, PTL

\* With a plain input of any number of commands the output of each command that has
\* a pipe of its own is printed whole and at its place in the input, in whatever
\* order the children end and whichever of the other pipes could not be made.
THEOREM OutputsKeepOrder == Spec => []OutputsInOrder
<1>1. CommandsInv => OutputsInOrder
  <2> SUFFICES ASSUME CommandsInv, Plain, program = "executeInParallel",
                      NEW k \in DOMAIN stdout, Private(k)
               PROVE  stdout[k] = Expected(input[k].name).writes[1]
    BY DEF OutputsInOrder
  <2>1. PlainIn(path, input)
    BY PlainInFacts
  <2>2. /\ DOMAIN stdout = 1 .. Len(stdout) /\ Len(stdout) \in Nat
        /\ DOMAIN lines = 1 .. Len(lines) /\ Len(lines) \in Nat
    BY LenProperties DEF CommandsInv, ParentTypes
  <2>3. Len(stdout) <= Len(lines) /\ (lines = << >> \/ lines = AllPieces(input))
    BY DEF CommandsInv, Progress, Parallel
  <2>4. AllPieces(input) = [i \in DOMAIN input |-> input[i].name]
    BY <2>1, PlainLines DEF CommandsInv, Setting
  <2>5. k \in DOMAIN lines
    BY <2>2, <2>3
  <2>6. lines # << >>
    BY <2>5
  <2>7. lines[k] = input[k].name
    BY <2>3, <2>4, <2>5, <2>6
  <2>8. Own(path, input, lines[k], stdout[k])
    BY DEF CommandsInv, Printed, Parallel
  <2>9. stdout[k] = Chosen(path, lines[k]).writes[1]
    BY <2>1, <2>8 DEF Own
  <2>10. Expected(input[k].name) = Chosen(path, input[k].name)
    BY ExpectedChosen
  <2>11. QED
    BY <2>7, <2>9, <2>10
<1>2. QED
  BY <1>1, InvHolds, PTL
=============================================================================
