-------------------------- MODULE UmpireProperties --------------------------
(* What a referee should do, over Umpire.                                    *)
EXTENDS Umpire, FiniteSets, Functions

\* Types of the variables.
TypeOK ==
    /\ program \in {"umpire", "umpire2"} /\ np \in Nat
    /\ pc \in {"fork", "level", "go", "read", "decide", "ended"}
    /\ turn \in [child : 0 .. MAX_PLAYERS, round : Nat, pair : Nat, side : {1, 2}]
    /\ status \in {"running", "ok", "error", "sigpipe", "crash"}
    /\ held \in [Procs -> SUBSET Ends]
    /\ go \in [Ids -> Nat] /\ mv \in [Ids -> Seq(Moves)]
    /\ player \in [Ids -> {"none", "forked", "ready", "moving", "ended", "dead"}]
    /\ active \subseteq Ids /\ rem \in Nat
    /\ pairs \in Seq(Ids \X Ids) /\ points \in Seq(Int \X Int)
    /\ out \in Chars \X Chars

\* A move never answers the GO of an earlier round: a move waits in a pipe only
\* while the umpire is about to read it, and a player that plays has had all its GO
\* messages answered whenever the umpire is not in a round of its match.
Awaited(i) ==
    /\ pc \in {"go", "read"} /\ pairs # <<>>
    /\ \E side \in {1, 2} :
         /\ pairs[turn.pair][side] = i
         /\ IF pc = "go" THEN side < turn.side ELSE side >= turn.side
FreshMoves ==
    status = "running" =>
        \A i \in Ids :
            IF Awaited(i) THEN mv[i] = <<>> \/ go[i] = 0 \/ player[i] = "dead"
            ELSE mv[i] = <<>> /\ (player[i] = "ready" => go[i] = 0) /\ player[i] # "moving"

\* The umpires referee as the assignment says: pairing, alternation, points, ties
\* and losers.
Games ==
    [m \in Range(pairs) |->
        LET k == CHOOSE k \in DOMAIN pairs : pairs[k] = m IN
        [played |-> turn.round - (IF k < turn.pair THEN 0 ELSE 1),
         lead |-> points[k][1] - points[k][2]]]
Over == CASE status = "running" -> "no" [] status = "ok" -> "yes" [] OTHER -> "failed"

Rules == INSTANCE Knockout WITH games <- Games, shown <- out, over <- Over

ImplementsKnockout == Rules!Spec

\* The umpire ends.  Only in a tournament may it wait for ever, and only for a
\* player that died: players forked before it still hold the end it writes to.
Finishes == <>(pc = "ended" \/ (program = "umpire2" /\ \E i \in Ids : player[i] = "dead"))

\* However the umpire ends, every player comes to the end of its input: no player
\* keeps another's GO pipe open for writing.
PlayersEnd ==
    pc = "ended" ~> \A i \in Ids : player[i] \in {"none", "ended", "dead"}

\* Assignment_1.pdf 2.2, ERROR: "In case of any errors like a player is not able to
\* participate i.e. exec fails, tournament will not take place and umpire should
\* exit by returning -1"; runTests.sh tests it as exit_test.
NoGameWithoutPlayers ==
    pc = "ended" /\ (\E i \in Ids : player[i] = "dead") => status = "error"
=============================================================================
