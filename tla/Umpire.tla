------------------------------- MODULE Umpire -------------------------------
(***************************************************************************)
(* The rock-paper-scissors umpires of Assignment 1: umpire.c referees one  *)
(* match of two players, umpire2.c a knockout tournament.  Both fork their *)
(* players, talk to each over two pipes and alternate the rounds of the    *)
(* matches of a level.  What makes them hard is which process holds which  *)
(* pipe end: a read returns at the end of the stream, and a write raises   *)
(* SIGPIPE, only when nobody holds the other end.                          *)
(***************************************************************************)
EXTENDS Integers, Sequences, Ranks

CONSTANTS
    Counts,       \* numbers of players a players file of umpire2 may name
    MAX_PLAYERS,  \* bounds the players, and so Counts
    ROUNDS,       \* rounds of a match (n)
    StackValues,  \* what the uninitialised points[j][1] may hold
    WalkOvers,    \* what getWalkOver may return
    Usage         \* faults of the players and of the file that happen

\* np = atoi(&p) sees one digit of the first line.
LeadingDigit(n) == IF n < 10 THEN n ELSE IF n < 100 THEN n \div 10 ELSE n \div 100

ASSUME UmpireAssumption ==
    /\ MAX_PLAYERS \in Nat /\ MAX_PLAYERS >= 2 /\ ROUNDS \in Nat \ {0}
    /\ Counts \subseteq 1 .. 999
    /\ \A n \in Counts : LeadingDigit(n) \in 1 .. MAX_PLAYERS
    /\ StackValues \subseteq Int /\ WalkOvers \subseteq Nat \ {0}
    /\ Usage \subseteq {"exec_fails", "quit", "no_newline", "no_resources"}

UMPIRE == -1
Ids == 0 .. MAX_PLAYERS - 1
Procs == Ids \cup {UMPIRE}
Moves == {"0", "1", "2"}
Chars == Moves \cup {"other"}
\* <<"writes", i, 0>> is the end player i reads its GO messages from.
Ends == {"writes", "reads"} \X Ids \X {0, 1}

VARIABLES
    program,  \* "umpire" or "umpire2"
    np,       \* the players the program forks
    pc,       \* what the umpire does next
    turn,     \* the child, round, match and side it does it for
    status,   \* how the umpire ended
    held,     \* the pipe ends each process holds
    go,       \* the GO messages in a player's input pipe
    mv,       \* the moves in a player's output pipe
    player,   \* what each player does
    active, rem, pairs, points, out

umpire == <<pc, turn, status, active, rem, pairs, points, out>>
pipes == <<held, go, mv>>
setting == <<program, np>>
vars == <<setting, umpire, pipes, player>>

-----------------------------------------------------------------------------
Init ==
    /\ \/ program = "umpire" /\ np = 2
       \/ program = "umpire2" /\ np \in {LeadingDigit(n) : n \in Counts}
    /\ pc = "fork" /\ status = "running"
    /\ turn = [child |-> 0, round |-> 0, pair |-> 1, side |-> 1]
    /\ held = [p \in Procs |->
                IF p = UMPIRE THEN {e \in Ends : e[2] < np} ELSE {}]
    /\ go = [i \in Ids |-> 0] /\ mv = [i \in Ids |-> <<>>]
    /\ player = [i \in Ids |-> "none"]
    /\ active = 0 .. np - 1 /\ rem = np
    /\ pairs = <<>> /\ points = <<>> /\ out = <<"other", "other">>

IsOpen(e) == \E p \in Procs : e \in held[p]

\* The kernel closes what an ending umpire still holds.
Exit(how) ==
    /\ pc' = "ended" /\ status' = how
    /\ held' = [held EXCEPT ![UMPIRE] = {}]

-----------------------------------------------------------------------------
(* Setting up                                                               *)

\* umpire2 closes a child's two ends after forking it, so a later child does
\* not inherit them; umpire closes after both forks, and only two of the four.
ClosedByFork(i) ==
    IF program = "umpire2" THEN {<<"writes", i, 0>>, <<"reads", i, 1>>}
    ELSE IF i = 1 THEN {<<"reads", 0, 1>>, <<"reads", 1, 1>>} ELSE {}

\* Variant: the loop runs once too often.
ForkPast ==
    LET i == turn.child IN
    /\ pc = "fork" /\ i <= np
    /\ held' = [held EXCEPT ![i] = held[UMPIRE], ![UMPIRE] = @ \ ClosedByFork(i)]
    /\ player' = [player EXCEPT ![i] = "forked"]
    /\ turn' = [turn EXCEPT !.child = i + 1]
    /\ pc' = IF i < np THEN "fork" ELSE "level"
    /\ UNCHANGED <<setting, status, active, rem, pairs, points, out, go, mv>>

Fork ==
    LET i == turn.child IN
    /\ pc = "fork" /\ i < np
    /\ held' = [held EXCEPT ![i] = held[UMPIRE], ![UMPIRE] = @ \ ClosedByFork(i)]
    /\ player' = [player EXCEPT ![i] = "forked"]
    /\ turn' = [turn EXCEPT !.child = i + 1]
    /\ pc' = IF i + 1 < np THEN "fork" ELSE "level"
    /\ UNCHANGED <<setting, status, active, rem, pairs, points, out, go, mv>>

\* The last line of the file without a newline: read keeps returning 0 and the
\* loop runs over the end of path.
PathOverrun ==
    /\ program = "umpire2" /\ "no_newline" \in Usage
    /\ pc = "fork" /\ turn.child = np - 1
    /\ Exit("crash")
    /\ UNCHANGED <<setting, turn, active, rem, pairs, points, out, go, mv, player>>

\* open, pipe or fork failed.
SetupFails ==
    /\ "no_resources" \in Usage
    /\ pc = "fork"
    /\ Exit("error")
    /\ UNCHANGED <<setting, turn, active, rem, pairs, points, out, go, mv, player>>

-----------------------------------------------------------------------------
(* A level                                                                  *)

\* The active players in increasing order without the walk-th of them, two
\* at a time.
Paired(walk) ==
    LET left == IF rem % 2 = 1 THEN active \ {Nth(active, walk)} ELSE active
    IN  [k \in 1 .. rem \div 2 |-> <<Nth(left, 2 * k - 1), Nth(left, 2 * k)>>]

StartLevel ==
    /\ pc = "level" /\ program = "umpire2" /\ rem # 1
    /\ \E walk \in WalkOvers : pairs' = Paired(walk)
    /\ \E stack \in [1 .. rem \div 2 -> StackValues] :
         points' = [k \in 1 .. rem \div 2 |-> <<0, stack[k]>>]
    /\ pc' = "go" /\ turn' = [turn EXCEPT !.round = 1, !.pair = 1, !.side = 1]
    /\ UNCHANGED <<setting, status, active, rem, out, pipes, player>>

StartMatch ==
    /\ pc = "level" /\ program = "umpire"
    /\ pairs' = << <<0, 1>> >> /\ points' = << <<0, 0>> >>
    /\ pc' = "go" /\ turn' = [turn EXCEPT !.round = 1]
    /\ UNCHANGED <<setting, status, active, rem, out, pipes, player>>

Opponent == pairs[turn.pair][turn.side]

\* Variant: the GO of the next round is sent along.
SendGoAhead ==
    /\ pc = "go"
    /\ go' = [go EXCEPT ![Opponent] = @ + 2]
    /\ turn' = [turn EXCEPT !.side = 3 - @]
    /\ pc' = IF turn.side = 1 THEN "go" ELSE "read"
    /\ UNCHANGED <<setting, status, held, active, rem, pairs, points, out, mv, player>>

SendGo ==
    /\ pc = "go"
    /\ IF IsOpen(<<"writes", Opponent, 0>>)
       THEN /\ go' = [go EXCEPT ![Opponent] = @ + 1]
            /\ turn' = [turn EXCEPT !.side = 3 - @]
            /\ pc' = IF turn.side = 1 THEN "go" ELSE "read"
            /\ UNCHANGED <<status, held>>
       ELSE Exit("sigpipe") /\ UNCHANGED <<go, turn>>
    /\ UNCHANGED <<setting, active, rem, pairs, points, out, mv, player>>

\* What firstWin may return: it has no return for a move it does not know.
firstWin(a, b) ==
    CASE <<a, b>> \in {<<"0", "2">>, <<"1", "0">>, <<"2", "1">>} -> {TRUE}
      [] <<a, b>> \in {<<"0", "1">>, <<"1", "2">>, <<"2", "0">>} -> {FALSE}
      [] OTHER -> BOOLEAN

\* The points after a round; umpire gives none for a move it does not know.
Scores(pt, a, b) ==
    IF a = b \/ (program = "umpire" /\ {a, b} \cap {"other"} # {}) THEN {pt}
    ELSE {IF win THEN <<pt[1] + 1, pt[2]>> ELSE <<pt[1], pt[2] + 1>> :
            win \in firstWin(a, b)}

NextRound ==
    LET lastPair == turn.pair = Len(pairs) IN
    /\ turn' = [turn EXCEPT !.side = 1, !.pair = IF lastPair THEN 1 ELSE @ + 1,
                            !.round = IF lastPair THEN @ + 1 ELSE @]
    /\ pc' = IF lastPair /\ turn.round = ROUNDS THEN "decide" ELSE "go"

\* The characters a read of two bytes leaves first in the buffer: the move, or
\* at the end of the stream whatever the buffer held.
ReadChars(i) ==
    IF mv[i] # <<>> THEN {Head(mv[i])}
    ELSE IF IsOpen(<<"reads", i, 1>>) THEN {} ELSE Chars

ReadMove ==
    /\ pc = "read"
    /\ \E c \in ReadChars(Opponent) :
         IF turn.side = 1
         THEN /\ out' = <<c, out[2]>> /\ turn' = [turn EXCEPT !.side = 2]
              /\ UNCHANGED <<pc, points>>
         ELSE /\ out' = <<out[1], c>>
              /\ \E pt \in Scores(points[turn.pair], out[1], c) :
                   points' = [points EXCEPT ![turn.pair] = pt]
              /\ NextRound
    /\ mv' = [mv EXCEPT ![Opponent] = SubSeq(@, 3, Len(@))]
    /\ UNCHANGED <<setting, status, active, rem, pairs, held, go, player>>

\* Variant: a tie is the second player's.
LosersOfTies == {IF points[k][1] > points[k][2] THEN pairs[k][2] ELSE pairs[k][1] :
                  k \in 1 .. Len(pairs)}

\* A tie is the first player's.
Losers == {IF points[k][1] >= points[k][2] THEN pairs[k][2] ELSE pairs[k][1] :
            k \in 1 .. Len(pairs)}

Decide ==
    /\ pc = "decide" /\ program = "umpire2"
    /\ active' = active \ Losers /\ rem' = rem - rem \div 2
    /\ pairs' = <<>> /\ points' = <<>>   \* they end with the level
    /\ pc' = "level"
    /\ UNCHANGED <<setting, turn, status, out, pipes, player>>

\* umpire ends after its match, umpire2 when one player is left.
Finish ==
    /\ \/ pc = "decide" /\ program = "umpire"
       \/ pc = "level" /\ program = "umpire2" /\ rem = 1
    /\ Exit("ok")
    /\ UNCHANGED <<setting, turn, active, rem, pairs, points, out, go, mv, player>>

UmpireStep == Fork \/ StartLevel \/ StartMatch \/ SendGo \/ ReadMove \/ Decide \/ Finish

-----------------------------------------------------------------------------
(* The players                                                              *)

\* Variant: the ends the other players' GO messages are written to stay open.
ClosedButWriting(i) ==
    {<<"writes", i, 1>>, <<"reads", i, 0>>} \cup {<<"writes", j, 0>> : j \in Ids \ {i}}

\* The ends child i of umpire2 closes: for another player j it closes
\* writes[j] twice and leaves reads[j] open.
ClosedByTournamentChild(i) ==
    {<<"writes", i, 1>>, <<"reads", i, 0>>}
        \cup {<<"writes", j, k>> : j \in Ids \ {i}, k \in {0, 1}}

\* Variant: the other player's output pipe stays open, as in umpire2.
ClosedButReading(i) ==
    {<<"writes", i, 1>>, <<"reads", i, 0>>} \cup {<<"writes", 1 - i, k>> : k \in {0, 1}}

ClosedByMatchChild(i) ==
    {<<"writes", i, 1>>, <<"reads", i, 0>>}
        \cup {<<pipe, 1 - i, k>> : pipe \in {"writes", "reads"}, k \in {0, 1}}

ClosedByChild(i) ==
    IF program = "umpire" THEN ClosedByMatchChild(i) ELSE ClosedByTournamentChild(i)

Play(i, state) == player' = [player EXCEPT ![i] = state]
Die(i) == Play(i, "dead") /\ held' = [held EXCEPT ![i] = {}]

Exec(i) ==
    /\ player[i] = "forked"
    /\ Play(i, "ready") /\ held' = [held EXCEPT ![i] = @ \ ClosedByChild(i)]
    /\ UNCHANGED <<setting, umpire, go, mv>>

ExecFails(i) ==
    /\ "exec_fails" \in Usage
    /\ player[i] = "forked" /\ Die(i)
    /\ UNCHANGED <<setting, umpire, go, mv>>

ReadGo(i) ==
    /\ player[i] = "ready" /\ go[i] > 0
    /\ go' = [go EXCEPT ![i] = @ - 1] /\ Play(i, "moving")
    /\ UNCHANGED <<setting, umpire, held, mv>>

EndOfGame(i) ==
    /\ player[i] = "ready" /\ go[i] = 0 /\ ~IsOpen(<<"writes", i, 1>>)
    /\ Play(i, "ended") /\ held' = [held EXCEPT ![i] = {}]
    /\ UNCHANGED <<setting, umpire, go, mv>>

MakeMove(i) ==
    /\ player[i] = "moving"
    /\ IF IsOpen(<<"reads", i, 0>>)
       THEN /\ \E m \in Moves : mv' = [mv EXCEPT ![i] = Append(@, m)]
            /\ Play(i, "ready") /\ UNCHANGED held
       ELSE Die(i) /\ UNCHANGED mv
    /\ UNCHANGED <<setting, umpire, go>>

\* A player that ends in the middle of the game.
Quit(i) ==
    /\ "quit" \in Usage
    /\ player[i] \in {"ready", "moving"} /\ Die(i)
    /\ UNCHANGED <<setting, umpire, go, mv>>

PlayerStep(i) == Exec(i) \/ ReadGo(i) \/ EndOfGame(i) \/ MakeMove(i)

-----------------------------------------------------------------------------
Next ==
    \/ UmpireStep \/ PathOverrun \/ SetupFails
    \/ \E i \in Ids : PlayerStep(i) \/ ExecFails(i) \/ Quit(i)

\* The scheduler runs every process that can take a step.
Fairness == WF_vars(UmpireStep) /\ \A i \in Ids : WF_vars(PlayerStep(i))

Spec == Init /\ [][Next]_vars /\ Fairness
=============================================================================
