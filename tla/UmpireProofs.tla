---------------------------- MODULE UmpireProofs ----------------------------
(***************************************************************************)
(* Proofs about the umpires, for every number of players and rounds and    *)
(* for players that fail to start or quit whenever they like.              *)
(***************************************************************************)
EXTENDS UmpireProperties, Orders, TLAPS

-----------------------------------------------------------------------------
(* Types.                                                                   *)

Setting ==
    /\ np \in 1 .. MAX_PLAYERS
    /\ program = "umpire" => np = 2

Typed == TypeOK /\ Setting

LEMMA SeqOfPairs ==
    ASSUME NEW A, NEW n \in Nat, NEW f(_), NEW g(_),
           \A k \in 1 .. n : f(k) \in A /\ g(k) \in A
    PROVE  [k \in 1 .. n |-> <<f(k), g(k)>>] \in Seq(A \X A)
OBVIOUS

LEMMA TypedInit == Init => Typed
<1> SUFFICES ASSUME Init PROVE Typed
  OBVIOUS
<1>1. Setting
  BY UmpireAssumption DEF Init, Setting
<1>2. held \in [Procs -> SUBSET Ends]
  BY DEF Init
<1>3. active \subseteq Ids /\ rem \in Nat
  BY <1>1, UmpireAssumption DEF Init, Ids, Setting
<1>4. turn \in [child : 0 .. MAX_PLAYERS, round : Nat, pair : Nat, side : {1, 2}]
  BY UmpireAssumption DEF Init
<1>5. go \in [Ids -> Nat] /\ mv \in [Ids -> Seq(Moves)]
  BY DEF Init
<1>6. pairs \in Seq(Ids \X Ids) /\ points \in Seq(Int \X Int) /\ out \in Chars \X Chars
  BY DEF Init, Chars
<1>7. QED
  BY <1>1, <1>2, <1>3, <1>4, <1>5, <1>6 DEF Init, Typed, TypeOK, Setting


\* What a step of the players may do to the pipes.
PlayerTypes ==
    /\ held \in [Procs -> SUBSET Ends]
    /\ go \in [Ids -> Nat] /\ mv \in [Ids -> Seq(Moves)]
    /\ player \in [Ids -> {"none", "forked", "ready", "moving", "ended", "dead"}]

LEMMA TypedPlayer ==
    ASSUME Typed, NEW i \in Ids, PlayerStep(i) \/ ExecFails(i) \/ Quit(i) PROVE Typed'
<1>1. UNCHANGED umpire /\ UNCHANGED setting
  BY DEF PlayerStep, ExecFails, Quit, Exec, ReadGo, EndOfGame, MakeMove
<1>2. PlayerTypes
  BY DEF Typed, TypeOK, PlayerTypes
<1>3. \E s \in {"none", "forked", "ready", "moving", "ended", "dead"} :
         player' = [player EXCEPT ![i] = s]
  BY DEF PlayerStep, ExecFails, Quit, Exec, ReadGo, EndOfGame, MakeMove, Play, Die
<1>4. \/ held' = held
      \/ held' = [held EXCEPT ![i] = {}]
      \/ held' = [held EXCEPT ![i] = @ \ ClosedByChild(i)]
  BY DEF PlayerStep, ExecFails, Quit, Exec, ReadGo, EndOfGame, MakeMove, Die
<1>5. \/ go' = go
      \/ go[i] > 0 /\ go' = [go EXCEPT ![i] = @ - 1]
  BY DEF PlayerStep, ExecFails, Quit, Exec, ReadGo, EndOfGame, MakeMove
<1>6. \/ mv' = mv
      \/ \E m \in Moves : mv' = [mv EXCEPT ![i] = Append(@, m)]
  BY DEF PlayerStep, ExecFails, Quit, Exec, ReadGo, EndOfGame, MakeMove
<1>7. PlayerTypes'
  <2>1. player' \in [Ids -> {"none", "forked", "ready", "moving", "ended", "dead"}]
    BY <1>2, <1>3 DEF PlayerTypes
  <2>2. held' \in [Procs -> SUBSET Ends]
    <3>1. i \in Procs /\ held[i] \in SUBSET Ends
      BY <1>2 DEF PlayerTypes, Procs
    <3>2. \/ held' = held
          \/ \E S \in SUBSET Ends : held' = [held EXCEPT ![i] = S]
      <4>1. held[i] \ ClosedByChild(i) \in SUBSET Ends /\ {} \in SUBSET Ends
        BY <3>1
      <4>2. QED
        BY <1>4, <4>1
    <3>3. QED
      BY <1>2, <3>1, <3>2 DEF PlayerTypes
  <2>3. go' \in [Ids -> Nat]
    BY <1>2, <1>5 DEF PlayerTypes
  <2>4. mv' \in [Ids -> Seq(Moves)]
    <3>1. \A m \in Moves : Append(mv[i], m) \in Seq(Moves)
      BY <1>2 DEF PlayerTypes
    <3>2. mv \in [Ids -> Seq(Moves)]
      BY <1>2 DEF PlayerTypes
    <3>3. QED
      BY <1>6, <3>1, <3>2
  <2>5. QED
    BY <2>1, <2>2, <2>3, <2>4 DEF PlayerTypes
<1>8. QED
  BY <1>1, <1>7 DEF umpire, setting, Typed, TypeOK, Setting, PlayerTypes

-----------------------------------------------------------------------------
(* Matches.                                                                 *)

\* The umpire's count of the active players is right.
Counted == IsFiniteSet(active) /\ Cardinality(active) = rem /\ rem >= 1

\* A match is between two players, and nobody is in two matches of a level.
Opposed ==
    /\ Len(points) = Len(pairs)
    /\ \A k \in 1 .. Len(pairs) : pairs[k][1] # pairs[k][2]
    /\ pc \in {"go", "read"} => turn.pair \in 1 .. Len(pairs)
    /\ pc \in {"fork", "level", "decide"} => turn.side = 1 /\ turn.pair = 1

Members(k) == {pairs[k][1], pairs[k][2]}
Level ==
    program = "umpire2" /\ pc \in {"go", "read", "decide"} =>
        /\ Len(pairs) = rem \div 2
        /\ \A k \in 1 .. Len(pairs) : Members(k) \subseteq active
        /\ \A k, l \in 1 .. Len(pairs) : k # l => Members(k) \cap Members(l) = {}

MatchInv == Typed /\ Counted /\ Opposed /\ Level

LEMMA PairedMatches ==
    ASSUME MatchInv, NEW walk, rem > 1
    PROVE  /\ DOMAIN Paired(walk) = 1 .. rem \div 2 /\ rem \div 2 \in Nat /\ rem \div 2 >= 1
           /\ Paired(walk) \in Seq(active \X active)
           /\ \A k \in 1 .. rem \div 2 : Paired(walk)[k][1] # Paired(walk)[k][2]
           /\ \A k, l \in 1 .. rem \div 2 : k # l =>
                {Paired(walk)[k][1], Paired(walk)[k][2]}
                    \cap {Paired(walk)[l][1], Paired(walk)[l][2]} = {}
<1> DEFINE left == IF rem % 2 = 1 THEN active \ {Nth(active, walk)} ELSE active
           n == Cardinality(left)
           h == rem \div 2
<1>1. active \in SUBSET Int /\ rem \in Nat /\ IsFiniteSet(active) /\ Cardinality(active) = rem
  BY UmpireAssumption DEF MatchInv, Typed, TypeOK, Counted, Ids
<1>2. h \in Nat /\ h >= 1 /\ 2 * h <= rem /\ (rem % 2 = 1 => 2 * h <= rem - 1)
  BY <1>1
<1>3. left \in SUBSET active /\ IsFiniteSet(left) /\ left \in SUBSET Int
  BY <1>1, FS_Subset
<1>4. n \in Nat /\ n >= 2 * h
  <2>1. n \in Nat
    BY <1>3, FS_CardinalityType
  <2>2. CASE rem % 2 = 1 /\ Nth(active, walk) \in active
    <3>1. n = rem - 1
      BY <1>1, <2>2, FS_RemoveElement
    <3>2. QED
      BY <1>1, <1>2, <2>1, <2>2, <3>1
  <2>3. CASE ~ (rem % 2 = 1 /\ Nth(active, walk) \in active)
    <3>1. left = active
      BY <2>3
    <3>2. QED
      BY <1>1, <1>2, <3>1
  <2>4. QED
    BY <2>2, <2>3
<1> HIDE DEF left, n, h
<1>5. \A k \in 1 .. h : 2 * k - 1 \in 1 .. n /\ 2 * k \in 1 .. n
  BY <1>2, <1>4
<1>6. \A j \in 1 .. n : Nth(left, j) \in left
  BY <1>3, NthInSet DEF n
<1>7. \A i, j \in 1 .. n : i # j => Nth(left, i) # Nth(left, j)
  BY <1>3, NthDistinct DEF n
<1>8. Paired(walk) = [k \in 1 .. h |-> <<Nth(left, 2 * k - 1), Nth(left, 2 * k)>>]
  BY DEF Paired, left, h
<1>9. \A k \in 1 .. h : Nth(left, 2 * k - 1) \in active /\ Nth(left, 2 * k) \in active
  BY <1>3, <1>5, <1>6
<1>10. Paired(walk) \in Seq(active \X active)
  BY <1>2, <1>8, <1>9
<1>11. \A k \in 1 .. h : Paired(walk)[k][1] # Paired(walk)[k][2]
  <2> TAKE k \in 1 .. h
  <2>1. 2 * k - 1 # 2 * k
    BY <1>2
  <2>2. QED
    BY <1>5, <1>7, <1>8, <2>1
<1>12. ASSUME NEW k \in 1 .. h, NEW l \in 1 .. h, k # l
       PROVE  {Paired(walk)[k][1], Paired(walk)[k][2]}
                 \cap {Paired(walk)[l][1], Paired(walk)[l][2]} = {}
  <2>1. /\ 2 * k # 2 * l /\ 2 * k - 1 # 2 * l - 1
        /\ 2 * k # 2 * l - 1 /\ 2 * k - 1 # 2 * l
    BY <1>2, <1>12
  <2>2. /\ Nth(left, 2 * k) # Nth(left, 2 * l)
        /\ Nth(left, 2 * k - 1) # Nth(left, 2 * l - 1)
        /\ Nth(left, 2 * k) # Nth(left, 2 * l - 1)
        /\ Nth(left, 2 * k - 1) # Nth(left, 2 * l)
    BY <1>5, <1>7, <2>1
  <2>3. QED
    BY <1>8, <2>2
<1>13. DOMAIN Paired(walk) = 1 .. h
  BY <1>8
<1>14. QED
  BY <1>2, <1>10, <1>11, <1>12, <1>13 DEF h

-----------------------------------------------------------------------------
(* The steps of the umpire, as far as types and matches go.                 *)

UmpireTypes ==
    /\ pc \in {"fork", "level", "go", "read", "decide", "ended"}
    /\ turn \in [child : 0 .. MAX_PLAYERS, round : Nat, pair : Nat, side : {1, 2}]
    /\ status \in {"running", "ok", "error", "sigpipe", "crash"}
    /\ active \subseteq Ids /\ rem \in Nat
    /\ pairs \in Seq(Ids \X Ids) /\ points \in Seq(Int \X Int)
    /\ out \in Chars \X Chars

LEMMA TypesSplit ==
    Typed <=> /\ program \in {"umpire", "umpire2"} /\ np \in Nat
              /\ Setting /\ UmpireTypes /\ PlayerTypes
BY DEF Typed, TypeOK, Setting, UmpireTypes, PlayerTypes

LEMMA ForkMatches == ASSUME MatchInv, Fork PROVE MatchInv'
<1>1. /\ turn.child \in Nat /\ turn.child < np /\ np \in 1 .. MAX_PLAYERS
      /\ turn \in [child : 0 .. MAX_PLAYERS, round : Nat, pair : Nat, side : {1, 2}]
      /\ UmpireTypes /\ PlayerTypes
  BY TypesSplit DEF MatchInv, Fork, Setting, UmpireTypes
<1>2. turn.child \in Ids
  BY <1>1, UmpireAssumption DEF Ids
<1>3. turn' \in [child : 0 .. MAX_PLAYERS, round : Nat, pair : Nat, side : {1, 2}]
      /\ turn'.side = turn.side /\ turn'.pair = turn.pair
  BY <1>1, UmpireAssumption DEF Fork
<1>4. held' \in [Procs -> SUBSET Ends]
  <2>1. held \in [Procs -> SUBSET Ends] /\ UMPIRE \in Procs /\ turn.child \in Procs
    BY <1>1, <1>2 DEF PlayerTypes, Procs
  <2>2. held[UMPIRE] \in SUBSET Ends
    BY <2>1
  <2>3. \E S \in SUBSET Ends :
           held' = [held EXCEPT ![turn.child] = held[UMPIRE], ![UMPIRE] = S]
    <3>1. \E S \in SUBSET Ends :
             held' = [[held EXCEPT ![turn.child] = held[UMPIRE]] EXCEPT ![UMPIRE] = S]
      BY <2>1, <2>2 DEF Fork
    <3>2. QED
      BY <3>1
  <2>4. QED
    BY <2>1, <2>2, <2>3
<1>5. player' \in [Ids -> {"none", "forked", "ready", "moving", "ended", "dead"}]
  BY <1>1, <1>2 DEF Fork, PlayerTypes
<1>6. UmpireTypes' /\ PlayerTypes'
  BY <1>1, <1>3, <1>4, <1>5 DEF Fork, UmpireTypes, PlayerTypes
<1>7. Typed'
  BY <1>6, TypesSplit
     DEF MatchInv, Fork, setting, Setting, Typed, TypeOK, UmpireTypes, PlayerTypes
<1>8. pc = "fork" /\ pc' \in {"fork", "level"} /\ turn.side = 1 /\ turn.pair = 1
  BY DEF Fork, MatchInv, Opposed
<1>9. Counted' /\ Opposed' /\ Level'
  BY <1>3, <1>8 DEF MatchInv, Fork, Counted, Opposed, Level
<1>10. QED
  BY <1>7, <1>9 DEF MatchInv

\* An end of the program, whichever.
LEMMA ExitMatches ==
    ASSUME MatchInv, NEW how \in {"ok", "error", "sigpipe", "crash"}, Exit(how),
           UNCHANGED <<setting, turn, active, rem, pairs, points, out, go, mv, player>>
    PROVE  MatchInv'
<1>1. UmpireTypes /\ PlayerTypes
  BY TypesSplit DEF MatchInv
<1>2. held' \in [Procs -> SUBSET Ends]
  BY <1>1 DEF Exit, PlayerTypes
<1>3. UmpireTypes' /\ PlayerTypes'
  BY <1>1, <1>2 DEF Exit, UmpireTypes, PlayerTypes
<1>4. Typed'
  BY <1>3, TypesSplit
     DEF MatchInv, setting, Setting, Typed, TypeOK, UmpireTypes, PlayerTypes
<1>5. Counted' /\ Opposed' /\ Level'
  BY DEF MatchInv, Exit, Counted, Opposed, Level
<1>6. QED
  BY <1>4, <1>5 DEF MatchInv

LEMMA StartLevelMatches == ASSUME MatchInv, StartLevel PROVE MatchInv'
<1> DEFINE h == rem \div 2
<1>1. PICK walk \in WalkOvers : pairs' = Paired(walk)
  BY DEF StartLevel
<1>2. PICK stack \in [1 .. h -> StackValues] : points' = [k \in 1 .. h |-> <<0, stack[k]>>]
  BY DEF StartLevel
<1>3. UmpireTypes /\ PlayerTypes /\ rem \in Nat /\ rem > 1 /\ program = "umpire2"
  BY TypesSplit DEF MatchInv, Counted, UmpireTypes, StartLevel
<1>4. /\ DOMAIN Paired(walk) = 1 .. h /\ h \in Nat /\ h >= 1
      /\ Paired(walk) \in Seq(active \X active)
      /\ \A k \in 1 .. h : Paired(walk)[k][1] # Paired(walk)[k][2]
      /\ \A k, l \in 1 .. h : k # l =>
           {Paired(walk)[k][1], Paired(walk)[k][2]}
               \cap {Paired(walk)[l][1], Paired(walk)[l][2]} = {}
  BY <1>3, PairedMatches
<1> HIDE DEF h
<1>5. pairs' \in Seq(Ids \X Ids) /\ Len(pairs') = h
  BY <1>1, <1>3, <1>4 DEF UmpireTypes
<1>6. points' \in Seq(Int \X Int) /\ Len(points') = h
  <2>1. \A k \in 1 .. h : stack[k] \in Int
    BY UmpireAssumption
  <2>2. QED
    BY <1>2, <1>4, <2>1
<1>7. /\ turn' \in [child : 0 .. MAX_PLAYERS, round : Nat, pair : Nat, side : {1, 2}]
      /\ turn'.pair = 1
  BY <1>3 DEF StartLevel, UmpireTypes
<1>8. UmpireTypes' /\ PlayerTypes'
  BY <1>3, <1>5, <1>6, <1>7 DEF StartLevel, UmpireTypes, PlayerTypes, pipes
<1>9. Typed'
  BY <1>8, TypesSplit
     DEF MatchInv, StartLevel, setting, Setting, Typed, TypeOK, UmpireTypes, PlayerTypes
<1>10. Counted' /\ active' = active /\ rem' = rem
  BY DEF MatchInv, StartLevel, Counted
<1>11. Opposed'
  <2>1. \A k \in 1 .. h : pairs'[k][1] # pairs'[k][2]
    BY <1>1, <1>4
  <2>2. pc' = "go" /\ turn'.pair \in 1 .. h
    BY <1>4, <1>7 DEF StartLevel
  <2>3. QED
    BY <1>5, <1>6, <2>1, <2>2 DEF Opposed
<1>12. Level'
  <2>1. \A k \in 1 .. h : Members(k)' \subseteq active
    BY <1>1, <1>4 DEF Members
  <2>2. \A k, l \in 1 .. h : k # l => Members(k)' \cap Members(l)' = {}
    BY <1>1, <1>4 DEF Members
  <2>3. QED
    BY <1>5, <1>10, <2>1, <2>2 DEF Level, h
<1>13. QED
  BY <1>9, <1>10, <1>11, <1>12 DEF MatchInv

LEMMA StartMatchMatches == ASSUME MatchInv, StartMatch PROVE MatchInv'
<1>1. UmpireTypes /\ PlayerTypes /\ program = "umpire" /\ np = 2
  BY TypesSplit DEF MatchInv, StartMatch, Setting
<1>2. 0 \in Ids /\ 1 \in Ids
  BY UmpireAssumption DEF Ids
<1>3. pairs' \in Seq(Ids \X Ids) /\ Len(pairs') = 1 /\ pairs'[1] = <<0, 1>>
  BY <1>2 DEF StartMatch
<1>4. points' \in Seq(Int \X Int) /\ Len(points') = 1
  BY DEF StartMatch
<1>5. pc = "level" /\ turn.side = 1 /\ pc' = "go"
  BY DEF StartMatch, MatchInv, Opposed
<1>6. UmpireTypes' /\ PlayerTypes' /\ turn'.side = turn.side /\ turn'.pair = turn.pair
  BY <1>1, <1>3, <1>4, <1>5 DEF StartMatch, UmpireTypes, PlayerTypes, pipes
<1>7. Typed'
  BY <1>6, TypesSplit
     DEF MatchInv, StartMatch, setting, Setting, Typed, TypeOK, UmpireTypes, PlayerTypes
<1>8. Counted' /\ Level'
  BY <1>1 DEF MatchInv, StartMatch, Counted, Level, setting
<1>9. turn'.pair = 1
  BY <1>5, <1>6 DEF MatchInv, Opposed
<1>10. Opposed'
  BY <1>3, <1>4, <1>5, <1>9 DEF Opposed
<1>11. QED
  BY <1>7, <1>8, <1>10 DEF MatchInv

LEMMA OpponentPlays ==
    ASSUME MatchInv, pc \in {"go", "read"}
    PROVE  /\ Opponent \in Ids /\ Opponent \in Members(turn.pair)
           /\ turn.pair \in 1 .. Len(pairs) /\ turn.side \in {1, 2}
<1>1. /\ pairs \in Seq(Ids \X Ids) /\ turn.pair \in 1 .. Len(pairs)
      /\ turn.side \in {1, 2}
  BY TypesSplit DEF MatchInv, Opposed, UmpireTypes
<1>2. pairs[turn.pair] \in Ids \X Ids
  BY <1>1
<1>3. QED
  BY <1>1, <1>2 DEF Opponent, Members

LEMMA SendGoMatches == ASSUME MatchInv, SendGo PROVE MatchInv'
<1>1. CASE IsOpen(<<"writes", Opponent, 0>>)
  <2>1. UmpireTypes /\ PlayerTypes /\ Opponent \in Ids /\ pc = "go" /\ turn.side \in {1, 2}
    BY TypesSplit, OpponentPlays DEF MatchInv, SendGo
  <2>2. go' = [go EXCEPT ![Opponent] = @ + 1] /\ turn' = [turn EXCEPT !.side = 3 - @]
        /\ pc' \in {"go", "read"} /\ status' = status /\ held' = held
    BY <1>1 DEF SendGo
  <2>3. go' \in [Ids -> Nat]
    BY <2>1, <2>2 DEF PlayerTypes
  <2>4. 3 - turn.side \in {1, 2}
    BY <2>1
  <2>5. turn' \in [child : 0 .. MAX_PLAYERS, round : Nat, pair : Nat, side : {1, 2}]
        /\ turn'.pair = turn.pair
    BY <2>1, <2>2, <2>4 DEF UmpireTypes
  <2>6. UmpireTypes' /\ PlayerTypes'
    BY <2>1, <2>2, <2>3, <2>5 DEF SendGo, UmpireTypes, PlayerTypes
  <2>7. Typed'
    BY <2>6, TypesSplit
       DEF MatchInv, SendGo, setting, Setting, Typed, TypeOK, UmpireTypes, PlayerTypes
  <2>8. Counted' /\ Level'
    BY <2>1, <2>2 DEF MatchInv, SendGo, Counted, Level, Members, setting
  <2>9. Opposed'
    BY <2>1, <2>2, <2>5 DEF MatchInv, SendGo, Opposed
  <2>10. QED
    BY <2>7, <2>8, <2>9 DEF MatchInv
<1>2. CASE ~ IsOpen(<<"writes", Opponent, 0>>)
  BY <1>2, ExitMatches DEF SendGo
<1>3. QED
  BY <1>1, <1>2

\* The turn after a round of a match.
LEMMA NextRoundTurns ==
    ASSUME MatchInv, pc = "read", NextRound
    PROVE  /\ turn' \in [child : 0 .. MAX_PLAYERS, round : Nat, pair : Nat, side : {1, 2}]
           /\ turn'.side = 1 /\ turn'.pair \in 1 .. Len(pairs)
           /\ pc' \in {"go", "decide"} /\ (pc' = "decide" => turn'.pair = 1)
<1>1. /\ turn \in [child : 0 .. MAX_PLAYERS, round : Nat, pair : Nat, side : {1, 2}]
      /\ turn.pair \in 1 .. Len(pairs) /\ Len(pairs) \in Nat
  BY TypesSplit DEF MatchInv, Opposed, UmpireTypes
<1>2. CASE turn.pair = Len(pairs)
  <2>1. turn' = [turn EXCEPT !.side = 1, !.pair = 1, !.round = turn.round + 1]
    BY <1>2 DEF NextRound
  <2>2. turn.round + 1 \in Nat
    BY <1>1
  <2>3. turn' \in [child : 0 .. MAX_PLAYERS, round : Nat, pair : Nat, side : {1, 2}]
        /\ turn'.side = 1 /\ turn'.pair = 1
    BY <1>1, <2>1, <2>2
  <2>4. pc' \in {"go", "decide"}
    BY DEF NextRound
  <2>5. QED
    BY <1>1, <2>3, <2>4
<1>3. CASE turn.pair # Len(pairs)
  <2>1. turn' = [turn EXCEPT !.side = 1, !.pair = turn.pair + 1, !.round = turn.round]
    BY <1>3 DEF NextRound
  <2>2. turn.pair + 1 \in Nat /\ turn.pair + 1 \in 1 .. Len(pairs)
    BY <1>1, <1>3
  <2>3. turn' \in [child : 0 .. MAX_PLAYERS, round : Nat, pair : Nat, side : {1, 2}]
        /\ turn'.side = 1 /\ turn'.pair = turn.pair + 1
    BY <1>1, <2>1, <2>2
  <2>4. pc' = "go"
    BY <1>3 DEF NextRound
  <2>5. QED
    BY <2>2, <2>3, <2>4
<1>4. QED
  BY <1>2, <1>3

LEMMA OneChanged ==
    ASSUME NEW S, NEW s \in Seq(S), NEW k \in 1 .. Len(s), NEW e \in S
    PROVE  [s EXCEPT ![k] = e] \in Seq(S) /\ Len([s EXCEPT ![k] = e]) = Len(s)
OBVIOUS

LEMMA ScoresTyped ==
    ASSUME NEW pt \in Int \X Int, NEW a, NEW b
    PROVE  Scores(pt, a, b) \subseteq Int \X Int
<1>1. pt[1] + 1 \in Int /\ pt[2] + 1 \in Int /\ pt[1] \in Int /\ pt[2] \in Int
  OBVIOUS
<1>2. <<pt[1] + 1, pt[2]>> \in Int \X Int /\ <<pt[1], pt[2] + 1>> \in Int \X Int
  BY <1>1
<1>3. QED
  BY <1>2 DEF Scores

LEMMA ReadMoveMatches == ASSUME MatchInv, ReadMove PROVE MatchInv'
<1>1. UmpireTypes /\ PlayerTypes /\ Opponent \in Ids /\ pc = "read" /\ turn.side \in {1, 2}
      /\ turn.pair \in 1 .. Len(pairs) /\ Len(points) = Len(pairs)
  BY TypesSplit, OpponentPlays DEF MatchInv, ReadMove, Opposed
<1>2. PICK c \in ReadChars(Opponent) :
         IF turn.side = 1
         THEN /\ out' = <<c, out[2]>> /\ turn' = [turn EXCEPT !.side = 2]
              /\ UNCHANGED <<pc, points>>
         ELSE /\ out' = <<out[1], c>>
              /\ \E pt \in Scores(points[turn.pair], out[1], c) :
                   points' = [points EXCEPT ![turn.pair] = pt]
              /\ NextRound
  BY DEF ReadMove
<1>3. c \in Chars
  <2>1. mv[Opponent] \in Seq(Moves)
    BY <1>1 DEF PlayerTypes
  <2>2. mv[Opponent] # <<>> => Head(mv[Opponent]) \in Moves
    BY <2>1
  <2>3. QED
    BY <2>2 DEF ReadChars, Chars
<1>4. mv' \in [Ids -> Seq(Moves)]
  <2>1. mv \in [Ids -> Seq(Moves)] /\ mv[Opponent] \in Seq(Moves)
    BY <1>1 DEF PlayerTypes
  <2>2. SubSeq(mv[Opponent], 3, Len(mv[Opponent])) \in Seq(Moves)
    BY <2>1
  <2>3. QED
    BY <2>1, <2>2 DEF ReadMove
<1>5. out \in Chars \X Chars /\ points \in Seq(Int \X Int)
  BY <1>1 DEF UmpireTypes
<1>6. /\ out' \in Chars \X Chars
      /\ points' \in Seq(Int \X Int) /\ Len(points') = Len(points)
      /\ turn' \in [child : 0 .. MAX_PLAYERS, round : Nat, pair : Nat, side : {1, 2}]
      /\ turn'.pair \in 1 .. Len(pairs) /\ pc' \in {"read", "go", "decide"}
      /\ pc' = "decide" => turn'.pair = 1 /\ turn'.side = 1
  <2>1. CASE turn.side = 1
    <3>1. out' = <<c, out[2]>> /\ turn' = [turn EXCEPT !.side = 2] /\ pc' = pc
          /\ points' = points
      BY <1>2, <2>1
    <3>2. turn \in [child : 0 .. MAX_PLAYERS, round : Nat, pair : Nat, side : {1, 2}]
      BY <1>1 DEF UmpireTypes
    <3>3. turn' \in [child : 0 .. MAX_PLAYERS, round : Nat, pair : Nat, side : {1, 2}]
          /\ turn'.pair = turn.pair
      BY <3>1, <3>2
    <3>4. out' \in Chars \X Chars
      BY <1>3, <1>5, <3>1
    <3>5. QED
      BY <1>1, <1>5, <3>1, <3>3, <3>4
  <2>2. CASE turn.side # 1
    <3>1. PICK pt \in Scores(points[turn.pair], out[1], c) :
             points' = [points EXCEPT ![turn.pair] = pt]
      BY <1>2, <2>2
    <3>2. points[turn.pair] \in Int \X Int
      BY <1>1, <1>5
    <3>3. pt \in Int \X Int
      BY <3>2, ScoresTyped
    <3>4. points' \in Seq(Int \X Int) /\ Len(points') = Len(points)
      BY <1>1, <1>5, <3>1, <3>3, OneChanged
    <3>5. out' \in Chars \X Chars
      BY <1>2, <1>3, <1>5, <2>2
    <3>6. NextRound
      BY <1>2, <2>2
    <3>7. /\ turn' \in [child : 0 .. MAX_PLAYERS, round : Nat, pair : Nat, side : {1, 2}]
          /\ turn'.side = 1 /\ turn'.pair \in 1 .. Len(pairs)
          /\ pc' \in {"go", "decide"} /\ (pc' = "decide" => turn'.pair = 1)
      BY <1>1, <3>6, NextRoundTurns
    <3>8. QED
      BY <3>4, <3>5, <3>7
  <2>3. QED
    BY <2>1, <2>2
<1>7. UmpireTypes' /\ PlayerTypes'
  BY <1>1, <1>4, <1>6 DEF ReadMove, UmpireTypes, PlayerTypes
<1>8. Typed'
  BY <1>7, TypesSplit
     DEF MatchInv, ReadMove, setting, Setting, Typed, TypeOK, UmpireTypes, PlayerTypes
<1>9. Counted' /\ Level'
  BY <1>1, <1>6 DEF MatchInv, ReadMove, Counted, Level, Members, setting
<1>10. Opposed'
  BY <1>1, <1>6 DEF MatchInv, ReadMove, Opposed
<1>11. QED
  BY <1>8, <1>9, <1>10 DEF MatchInv

\* A level loses one player for each of its matches.
LEMMA LosersCounted ==
    ASSUME MatchInv, program = "umpire2", pc = "decide"
    PROVE  /\ IsFiniteSet(active \ Losers)
           /\ Cardinality(active \ Losers) = rem - rem \div 2
<1> DEFINE h == rem \div 2
           loser(k) == IF points[k][1] >= points[k][2] THEN pairs[k][2] ELSE pairs[k][1]
           f == [k \in 1 .. h |-> loser(k)]
<1>1. rem \in Nat /\ h \in Nat /\ Len(pairs) = h
  BY TypesSplit DEF MatchInv, UmpireTypes, Level
<1>2. /\ \A k \in 1 .. h : Members(k) \subseteq active
      /\ \A k, l \in 1 .. h : k # l => Members(k) \cap Members(l) = {}
  BY <1>1 DEF MatchInv, Level
<1> HIDE DEF h
<1>3. \A k \in 1 .. h : loser(k) \in Members(k)
  BY DEF Members
<1>4. Losers = {loser(k) : k \in 1 .. h}
  BY <1>1 DEF Losers
<1> HIDE DEF loser
<1>5. f \in Surjection(1 .. h, Losers)
  BY <1>4 DEF Surjection
<1>6. f \in Injection(1 .. h, Losers)
  BY <1>2, <1>3, <1>4 DEF Injection, IsInjective
<1>7. IsFiniteSet(1 .. h) /\ Cardinality(1 .. h) = h
  <2>1. 1 \in Int /\ h \in Int
    BY <1>1
  <2>2. IsFiniteSet(1 .. h) /\ Cardinality(1 .. h) = IF 1 > h THEN 0 ELSE h - 1 + 1
    BY <2>1, FS_Interval
  <2>3. QED
    BY <1>1, <2>2
<1>8. Cardinality(Losers) = h
  BY <1>5, <1>6, <1>7, FS_Surjection
<1>9. active \cap Losers = Losers
  BY <1>2, <1>3, <1>4
<1>10. /\ IsFiniteSet(active \ Losers)
       /\ Cardinality(active \ Losers) = Cardinality(active) - Cardinality(active \cap Losers)
  BY FS_Difference DEF MatchInv, Counted
<1>11. QED
  BY <1>8, <1>9, <1>10 DEF MatchInv, Counted, h

LEMMA DecideMatches == ASSUME MatchInv, Decide PROVE MatchInv'
<1>1. UmpireTypes /\ PlayerTypes /\ rem \in Nat /\ rem >= 1
  BY TypesSplit DEF MatchInv, Counted, UmpireTypes
<1>2. rem - rem \div 2 \in Nat /\ rem - rem \div 2 >= 1
  BY <1>1
<1>3. UmpireTypes' /\ PlayerTypes'
  BY <1>1, <1>2 DEF Decide, UmpireTypes, PlayerTypes, pipes
<1>4. Typed'
  BY <1>3, TypesSplit
     DEF MatchInv, Decide, setting, Setting, Typed, TypeOK, UmpireTypes, PlayerTypes
<1>5. Counted'
  BY <1>2, LosersCounted DEF Decide, Counted
<1>6. Opposed' /\ Level'
  BY DEF MatchInv, Decide, Opposed, Level
<1>7. QED
  BY <1>4, <1>5, <1>6 DEF MatchInv

LEMMA MatchInvInit == Init => MatchInv
<1> SUFFICES ASSUME Init PROVE MatchInv
  OBVIOUS
<1>1. Typed /\ np \in Nat /\ np >= 1
  BY TypedInit, UmpireAssumption DEF Typed, Setting
<1>2. Counted
  <2>1. 0 \in Int /\ np - 1 \in Int
    BY <1>1
  <2>2. /\ IsFiniteSet(0 .. np - 1)
        /\ Cardinality(0 .. np - 1) = IF 0 > np - 1 THEN 0 ELSE (np - 1) - 0 + 1
    BY <2>1, FS_Interval
  <2>3. QED
    BY <1>1, <2>2 DEF Init, Counted
<1>3. Opposed /\ Level
  BY DEF Init, Opposed, Level
<1>4. QED
  BY <1>1, <1>2, <1>3 DEF MatchInv

LEMMA MatchInvNext == MatchInv /\ [Next]_vars => MatchInv'
<1> SUFFICES ASSUME MatchInv, [Next]_vars PROVE MatchInv'
  OBVIOUS
<1>1. CASE UNCHANGED vars
  BY <1>1 DEF vars, setting, umpire, pipes, MatchInv, Typed, TypeOK, Setting, Counted,
              Opposed, Level, Members
<1>2. CASE UmpireStep
  <2>1. CASE Finish
    BY <2>1, ExitMatches DEF Finish
  <2>2. QED
    BY <1>2, <2>1, ForkMatches, StartLevelMatches, StartMatchMatches, SendGoMatches,
       ReadMoveMatches, DecideMatches DEF UmpireStep
<1>3. CASE PathOverrun
  BY <1>3, ExitMatches DEF PathOverrun
<1>4. CASE SetupFails
  BY <1>4, ExitMatches DEF SetupFails
<1>5. ASSUME NEW i \in Ids, PlayerStep(i) \/ ExecFails(i) \/ Quit(i) PROVE MatchInv'
  <2>1. Typed'
    BY <1>5, TypedPlayer DEF MatchInv
  <2>2. UNCHANGED umpire /\ UNCHANGED setting
    BY <1>5 DEF PlayerStep, ExecFails, Quit, Exec, ReadGo, EndOfGame, MakeMove
  <2>3. Counted' /\ Opposed' /\ Level'
    BY <2>2 DEF MatchInv, Counted, Opposed, Level, Members, umpire, setting
  <2>4. QED
    BY <2>1, <2>3 DEF MatchInv
<1>6. QED
  BY <1>1, <1>2, <1>3, <1>4, <1>5 DEF Next

LEMMA MatchInvHolds == Spec => []MatchInv
BY MatchInvInit, MatchInvNext, PTL DEF Spec

\* Every variable of the umpires and their players keeps its type: no match and no
\* score lies outside the arrays that a level makes for them.
THEOREM UmpireTyped == Spec => []TypeOK
<1>1. MatchInv => TypeOK
  BY DEF MatchInv, Typed
<1>2. QED
  BY <1>1, MatchInvHolds, PTL

-----------------------------------------------------------------------------
(* Moves.  A player that plays keeps its output pipe open itself, so that a  *)
(* read of the umpire waits for its move; with its GO messages and its state *)
(* counted, no move can be left in the pipe for a later round.               *)

Working(i) == player[i] \in {"forked", "ready", "moving"}

\* The program has ended with a result, or runs.
Ended == pc = "ended" <=> status # "running"

\* A player holds the end of its output pipe that a read of the umpire waits for,
\* and the umpire still has it for the players it has to fork.
Outputs ==
    /\ \A i \in Ids : Working(i) => <<"reads", i, 1>> \in held[i]
    /\ pc = "fork" =>
         /\ \A i \in Ids : go[i] = 0 /\ mv[i] = <<>>
         /\ \A j \in Ids : turn.child <= j /\ j < np => <<"reads", j, 1>> \in held[UMPIRE]

Idle(i) == mv[i] = <<>> /\ (Working(i) => go[i] = 0 /\ player[i] # "moving")
Busy(i) ==
    /\ Len(mv[i]) <= 1
    /\ player[i] # "dead" => mv[i] = <<>> \/ go[i] = 0
    /\ Working(i) =>
         \/ player[i] \in {"forked", "ready"} /\ go[i] = 1 /\ mv[i] = <<>>
         \/ player[i] = "moving" /\ go[i] = 0 /\ mv[i] = <<>>
         \/ player[i] = "ready" /\ go[i] = 0 /\ Len(mv[i]) = 1
Answers == status = "running" => \A i \in Ids : IF Awaited(i) THEN Busy(i) ELSE Idle(i)

MoveInv == MatchInv /\ Ended /\ Outputs /\ Answers

LEMMA MoveInvFresh == MoveInv => FreshMoves
BY DEF MoveInv, Answers, Busy, Idle, Working, FreshMoves

LEMMA MoveInvInit == Init => MoveInv
<1> SUFFICES ASSUME Init PROVE MoveInv
  OBVIOUS
<1>1. MatchInv
  BY MatchInvInit
<1>2. Ended
  BY DEF Init, Ended
<1>3. \A i \in Ids : ~ Working(i) /\ go[i] = 0 /\ mv[i] = <<>> /\ ~ Awaited(i)
  BY DEF Init, Working, Awaited
<1>4. \A j \in Ids : j < np => <<"reads", j, 1>> \in held[UMPIRE]
  BY DEF Init, Ends, Procs
<1>5. QED
  BY <1>1, <1>2, <1>3, <1>4 DEF MoveInv, Outputs, Answers, Idle

LEMMA ExitMoves ==
    ASSUME MoveInv, NEW how \in {"ok", "error", "sigpipe", "crash"}, Exit(how),
           UNCHANGED <<go, mv, player>>
    PROVE  Ended' /\ Outputs' /\ Answers'
<1>1. pc' = "ended" /\ status' # "running"
  BY DEF Exit
<1>2. \A i \in Ids : held'[i] = held[i]
  BY TypesSplit, UmpireAssumption
     DEF MoveInv, MatchInv, PlayerTypes, Exit, Procs, Ids, UMPIRE
<1>3. QED
  BY <1>1, <1>2 DEF MoveInv, Ended, Outputs, Answers, Working

LEMMA ForkMoves == ASSUME MoveInv, Fork PROVE Ended' /\ Outputs' /\ Answers'
<1> DEFINE c == turn.child
<1>1. /\ c \in Ids /\ c < np /\ UMPIRE \notin Ids /\ pc = "fork" /\ status = "running"
      /\ held \in [Procs -> SUBSET Ends] /\ np \in Nat /\ (program = "umpire" => np = 2)
      /\ player \in [Ids -> {"none", "forked", "ready", "moving", "ended", "dead"}]
      /\ turn \in [child : 0 .. MAX_PLAYERS, round : Nat, pair : Nat, side : {1, 2}]
  BY TypesSplit, UmpireAssumption
     DEF MoveInv, MatchInv, Ended, Fork, Setting, UmpireTypes, PlayerTypes, Ids, UMPIRE
<1>2. /\ turn'.child = c + 1 /\ pc' \in {"fork", "level"} /\ status' = status
      /\ go' = go /\ mv' = mv /\ np' = np /\ player' = [player EXCEPT ![c] = "forked"]
  BY <1>1 DEF Fork, setting
<1>3. /\ held'[c] = held[UMPIRE] /\ held'[UMPIRE] = held[UMPIRE] \ ClosedByFork(c)
      /\ \A i \in Ids \ {c} : held'[i] = held[i]
  <2>1. held' = [held EXCEPT ![c] = held[UMPIRE], ![UMPIRE] = @ \ ClosedByFork(c)]
    BY DEF Fork
  <2>2. c \in Procs /\ UMPIRE \in Procs /\ c # UMPIRE /\ Ids \subseteq Procs
    BY <1>1 DEF Procs
  <2> HIDE DEF c
  <2>3. QED
    BY <1>1, <2>1, <2>2
<1>4. Ended'
  BY <1>1, <1>2 DEF Ended
<1>5. \A i \in Ids : go[i] = 0 /\ mv[i] = <<>>
  BY <1>1 DEF MoveInv, Outputs
<1>6. ASSUME NEW i \in Ids, Working(i)' PROVE <<"reads", i, 1>> \in held'[i]
  <2>1. CASE i = c
    BY <1>1, <1>3, <2>1 DEF MoveInv, Outputs, Ids
  <2>2. CASE i # c
    BY <1>1, <1>2, <1>3, <1>6, <2>2 DEF MoveInv, Outputs, Working
  <2>3. QED
    BY <2>1, <2>2
<1>7. ASSUME NEW j \in Ids, c + 1 <= j, j < np PROVE <<"reads", j, 1>> \in held'[UMPIRE]
  <2>1. c \in Nat /\ j \in Nat /\ c <= j /\ c # j
    BY <1>1, <1>7, UmpireAssumption DEF Ids
  <2>2. <<"reads", j, 1>> \in held[UMPIRE]
    BY <1>1, <1>7, <2>1 DEF MoveInv, Outputs
  <2>3. <<"reads", j, 1>> \notin ClosedByFork(c)
    BY <1>1, <1>7, <2>1 DEF ClosedByFork
  <2>4. QED
    BY <1>3, <2>2, <2>3
<1>8. Outputs'
  BY <1>2, <1>5, <1>6, <1>7 DEF Outputs
<1>9. ASSUME NEW i \in Ids PROVE ~ Awaited(i)' /\ Idle(i)'
  <2>1. ~ Awaited(i)' /\ ~ Awaited(i)
    BY <1>1, <1>2 DEF Awaited
  <2>2. Idle(i)
    BY <1>1, <2>1 DEF MoveInv, Answers
  <2>3. CASE i = c
    BY <1>1, <1>2, <1>5, <2>1, <2>3 DEF Idle
  <2>4. CASE i # c
    BY <1>1, <1>2, <2>1, <2>2, <2>4 DEF Idle, Working
  <2>5. QED
    BY <2>1, <2>3, <2>4
<1>10. Answers'
  BY <1>9 DEF Answers
<1>11. QED
  BY <1>4, <1>8, <1>10

\* A step of the umpire that neither forks nor talks to a player, and after which
\* no player has a GO to answer.
LEMMA QuietMoves ==
    ASSUME MoveInv, UNCHANGED <<status, pipes, player>>,
           pc \in {"level", "decide"},
           pc' = "level" \/ (pc' = "go" /\ turn'.side = 1)
    PROVE  Ended' /\ Outputs' /\ Answers'
<1>1. held' = held /\ go' = go /\ mv' = mv /\ player' = player /\ status' = status
  BY DEF pipes
<1>2. \A i \in Ids : ~ Awaited(i)
  BY DEF Awaited
<1>3. \A i \in Ids : ~ Awaited(i)'
  BY DEF Awaited
<1>4. Ended' /\ Outputs'
  BY <1>1 DEF MoveInv, Ended, Outputs, Working
<1>5. Answers'
  BY <1>1, <1>2, <1>3 DEF MoveInv, Answers, Idle, Working
<1>6. QED
  BY <1>4, <1>5

LEMMA SendGoMoves == ASSUME MoveInv, SendGo PROVE Ended' /\ Outputs' /\ Answers'
<1>1. CASE ~ IsOpen(<<"writes", Opponent, 0>>)
  BY <1>1, ExitMoves DEF SendGo
<1>2. CASE IsOpen(<<"writes", Opponent, 0>>)
  <2>1. /\ pc = "go" /\ Opponent \in Ids /\ turn.side \in {1, 2}
        /\ Opponent = pairs[turn.pair][turn.side]
        /\ pairs[turn.pair][1] # pairs[turn.pair][2] /\ pairs # <<>>
    BY OpponentPlays DEF MoveInv, MatchInv, SendGo, Opposed, Opponent
  <2>2. /\ go' = [go EXCEPT ![Opponent] = @ + 1]
        /\ turn' = [turn EXCEPT !.side = 3 - @]
        /\ pc' = IF turn.side = 1 THEN "go" ELSE "read"
        /\ status' = status /\ held' = held /\ mv' = mv /\ player' = player /\ pairs' = pairs
    BY <1>2 DEF SendGo
  <2>3. /\ go \in [Ids -> Nat]
        /\ turn \in [child : 0 .. MAX_PLAYERS, round : Nat, pair : Nat, side : {1, 2}]
    BY TypesSplit DEF MoveInv, MatchInv, UmpireTypes, PlayerTypes
  <2>4. turn'.side = 3 - turn.side /\ turn'.pair = turn.pair
    BY <2>2, <2>3
  <2>5. Ended' /\ Outputs'
    BY <2>1, <2>2 DEF MoveInv, Ended, Outputs, Working
  <2>6. ASSUME NEW i \in Ids, status = "running"
        PROVE  IF Awaited(i)' THEN Busy(i)' ELSE Idle(i)'
    <3>1. CASE i = Opponent
      <4>1. ~ Awaited(i)
        BY <2>1, <3>1 DEF Awaited
      <4>2. Idle(i)
        BY <2>6, <4>1 DEF MoveInv, Answers
      <4>3. Awaited(i)'
        BY <2>1, <2>2, <2>4, <3>1 DEF Awaited
      <4>4. go'[i] = go[i] + 1
        BY <2>2, <2>3, <3>1
      <4>5. Len(mv[i]) <= 1
        BY <4>2 DEF Idle
      <4>6. Busy(i)'
        BY <2>2, <4>2, <4>4, <4>5 DEF Idle, Busy, Working
      <4>7. QED
        BY <4>3, <4>6
    <3>2. CASE i # Opponent
      <4>1. Awaited(i)' = Awaited(i)
        BY <2>1, <2>2, <2>4, <3>2 DEF Awaited
      <4>2. go'[i] = go[i]
        BY <2>2, <2>3, <3>2
      <4>3. Busy(i)' = Busy(i) /\ Idle(i)' = Idle(i)
        BY <2>2, <4>2 DEF Busy, Idle, Working
      <4>4. QED
        BY <2>6, <4>1, <4>3 DEF MoveInv, Answers
    <3>3. QED
      BY <3>1, <3>2
  <2>7. QED
    BY <2>2, <2>5, <2>6 DEF Answers
<1>3. QED
  BY <1>1, <1>2

LEMMA ReadMoveMoves == ASSUME MoveInv, ReadMove PROVE Ended' /\ Outputs' /\ Answers'
<1>1. /\ pc = "read" /\ Opponent \in Ids /\ turn.side \in {1, 2} /\ status = "running"
      /\ Opponent = pairs[turn.pair][turn.side]
      /\ pairs[turn.pair][1] # pairs[turn.pair][2] /\ pairs # <<>>
  BY OpponentPlays DEF MoveInv, MatchInv, ReadMove, Opposed, Opponent, Ended
<1>2. /\ mv' = [mv EXCEPT ![Opponent] = SubSeq(@, 3, Len(@))] /\ ReadChars(Opponent) # {}
      /\ status' = status /\ held' = held /\ go' = go /\ player' = player /\ pairs' = pairs
  BY DEF ReadMove
<1>3. /\ mv \in [Ids -> Seq(Moves)]
      /\ turn \in [child : 0 .. MAX_PLAYERS, round : Nat, pair : Nat, side : {1, 2}]
  BY TypesSplit DEF MoveInv, MatchInv, UmpireTypes, PlayerTypes
<1>4. \/ turn.side = 1 /\ pc' = "read" /\ turn'.side = 2 /\ turn'.pair = turn.pair
      \/ turn.side = 2 /\ (pc' = "decide" \/ (pc' = "go" /\ turn'.side = 1))
  <2>1. CASE turn.side = 1
    <3>1. pc' = pc /\ turn' = [turn EXCEPT !.side = 2]
      BY <2>1 DEF ReadMove
    <3>2. QED
      BY <1>1, <1>3, <2>1, <3>1
  <2>2. CASE turn.side = 2
    <3>1. NextRound
      BY <2>2 DEF ReadMove
    <3>2. pc' \in {"go", "decide"} /\ turn'.side = 1
      BY <1>1, <3>1, NextRoundTurns DEF MoveInv
    <3>3. QED
      BY <2>2, <3>2
  <2>3. QED
    BY <1>1, <2>1, <2>2
<1>5. Ended' /\ Outputs'
  BY <1>1, <1>2, <1>4 DEF MoveInv, Ended, Outputs, Working
<1>6. ASSUME NEW i \in Ids PROVE IF Awaited(i)' THEN Busy(i)' ELSE Idle(i)'
  <2>1. CASE i = Opponent
    <3>1. Awaited(i)
      BY <1>1, <2>1 DEF Awaited
    <3>2. Busy(i)
      BY <1>1, <3>1 DEF MoveInv, Answers
    <3>3. ~ Awaited(i)'
      BY <1>1, <1>2, <1>4, <2>1 DEF Awaited
    <3>4. mv[i] \in Seq(Moves) /\ Len(mv[i]) \in Nat /\ Len(mv[i]) <= 1
      BY <1>3, <3>2 DEF Busy
    <3>5. mv'[i] = <<>>
      <4>1. mv'[i] = SubSeq(mv[i], 3, Len(mv[i]))
        BY <1>2, <1>3, <2>1
      <4>2. QED
        BY <3>4, <4>1
    <3>6. Working(i) => mv[i] # <<>>
      <4>1. ASSUME Working(i) PROVE IsOpen(<<"reads", i, 1>>)
        BY <4>1 DEF MoveInv, Outputs, IsOpen, Procs
      <4>2. QED
        BY <1>2, <2>1, <4>1 DEF ReadChars
    <3>7. Working(i) => player[i] = "ready" /\ go[i] = 0
      BY <3>2, <3>6 DEF Busy
    <3>8. Idle(i)'
      BY <1>2, <3>5, <3>7 DEF Idle, Working
    <3>9. QED
      BY <3>3, <3>8
  <2>2. CASE i # Opponent
    <3>1. Awaited(i)' = Awaited(i)
      BY <1>1, <1>2, <1>4, <2>2 DEF Awaited
    <3>2. mv'[i] = mv[i]
      BY <1>2, <1>3, <2>2
    <3>3. Busy(i)' = Busy(i) /\ Idle(i)' = Idle(i)
      BY <1>2, <3>2 DEF Busy, Idle, Working
    <3>4. QED
      BY <1>1, <3>1, <3>3 DEF MoveInv, Answers
  <2>3. QED
    BY <2>1, <2>2
<1>7. QED
  BY <1>5, <1>6 DEF Answers

LEMMA PlayerMoves ==
    ASSUME MoveInv, NEW i \in Ids, PlayerStep(i) \/ ExecFails(i) \/ Quit(i)
    PROVE  Ended' /\ Outputs' /\ Answers'
<1>1. UNCHANGED umpire /\ UNCHANGED setting
  BY DEF PlayerStep, ExecFails, Quit, Exec, ReadGo, EndOfGame, MakeMove
<1>2. /\ pc' = pc /\ status' = status /\ turn' = turn /\ pairs' = pairs /\ np' = np
      /\ \A j \in Ids : Awaited(j)' = Awaited(j)
  BY <1>1 DEF umpire, setting, Awaited
<1>3. /\ held \in [Procs -> SUBSET Ends] /\ UMPIRE \notin Ids
      /\ go \in [Ids -> Nat] /\ mv \in [Ids -> Seq(Moves)]
      /\ player \in [Ids -> {"none", "forked", "ready", "moving", "ended", "dead"}]
  BY TypesSplit, UmpireAssumption DEF MoveInv, MatchInv, PlayerTypes, Ids, UMPIRE
<1>4. Working(i)
  BY DEF PlayerStep, ExecFails, Quit, Exec, ReadGo, EndOfGame, MakeMove, Working
<1>5. \A j \in Procs \ {i} : held'[j] = held[j]
  BY <1>3 DEF PlayerStep, ExecFails, Quit, Exec, ReadGo, EndOfGame, MakeMove, Die
<1>6. \A j \in Ids \ {i} : go'[j] = go[j] /\ mv'[j] = mv[j] /\ player'[j] = player[j]
  BY <1>3 DEF PlayerStep, ExecFails, Quit, Exec, ReadGo, EndOfGame, MakeMove, Play, Die
<1>7. Ended'
  BY <1>2 DEF MoveInv, Ended
<1>8. ASSUME status = "running" PROVE IF Awaited(i) THEN Busy(i)' ELSE Idle(i)'
  <2>1. IF Awaited(i) THEN Busy(i) ELSE Idle(i)
    BY <1>8 DEF MoveInv, Answers
  <2>2. CASE Exec(i)
    <3>1. player[i] = "forked" /\ player'[i] = "ready" /\ go' = go /\ mv' = mv
      BY <1>3, <2>2 DEF Exec, Play
    <3>2. QED
      BY <2>1, <3>1 DEF Busy, Idle, Working
  <2>3. CASE ReadGo(i)
    <3>1. /\ player[i] = "ready" /\ player'[i] = "moving" /\ go[i] > 0
          /\ go'[i] = go[i] - 1 /\ mv' = mv
      BY <1>3, <2>3 DEF ReadGo, Play
    <3>2. QED
      BY <2>1, <3>1 DEF Busy, Idle, Working
  <2>4. CASE EndOfGame(i)
    <3>1. player[i] = "ready" /\ player'[i] = "ended" /\ go[i] = 0 /\ go' = go /\ mv' = mv
      BY <1>3, <2>4 DEF EndOfGame, Play
    <3>2. QED
      BY <2>1, <3>1 DEF Busy, Idle, Working
  <2>5. CASE MakeMove(i)
    <3>1. player[i] = "moving" /\ go' = go
      BY <2>5 DEF MakeMove
    <3>2. Awaited(i) /\ go[i] = 0 /\ mv[i] = <<>>
      BY <2>1, <3>1 DEF Busy, Idle, Working
    <3>3. \/ player'[i] = "ready" /\ Len(mv'[i]) = 1
          \/ player'[i] = "dead" /\ mv'[i] = <<>>
      <4>1. CASE IsOpen(<<"reads", i, 0>>)
        <5>1. PICK x \in Moves : mv' = [mv EXCEPT ![i] = Append(@, x)]
          BY <2>5, <4>1 DEF MakeMove
        <5>2. mv'[i] = Append(<<>>, x)
          BY <1>3, <3>2, <5>1
        <5>3. Len(mv'[i]) = 1
          BY <5>2
        <5>4. QED
          BY <1>3, <2>5, <4>1, <5>3 DEF MakeMove, Play
      <4>2. CASE ~ IsOpen(<<"reads", i, 0>>)
        BY <1>3, <2>5, <3>2, <4>2 DEF MakeMove, Play, Die
      <4>3. QED
        BY <4>1, <4>2
    <3>4. Busy(i)'
      <4>1. CASE player'[i] = "ready" /\ Len(mv'[i]) = 1
        BY <3>1, <3>2, <4>1 DEF Busy, Working
      <4>2. CASE player'[i] = "dead" /\ mv'[i] = <<>>
        BY <4>2 DEF Busy, Working
      <4>3. QED
        BY <3>3, <4>1, <4>2
    <3>5. QED
      BY <3>2, <3>4
  <2>6. CASE ExecFails(i) \/ Quit(i)
    <3>1. player'[i] = "dead" /\ go' = go /\ mv' = mv
      BY <1>3, <2>6 DEF ExecFails, Quit, Die, Play
    <3>2. Len(mv[i]) <= 1
      BY <2>1 DEF Busy, Idle
    <3>3. QED
      BY <2>1, <3>1, <3>2 DEF Busy, Idle, Working
  <2>7. QED
    BY <2>2, <2>3, <2>4, <2>5, <2>6 DEF PlayerStep
<1>9. Answers'
  <2>1. ASSUME NEW j \in Ids \ {i}, status = "running"
        PROVE  IF Awaited(j) THEN Busy(j)' ELSE Idle(j)'
    <3>1. Busy(j)' = Busy(j) /\ Idle(j)' = Idle(j)
      BY <1>6 DEF Busy, Idle, Working
    <3>2. QED
      BY <2>1, <3>1 DEF MoveInv, Answers
  <2>2. QED
    BY <1>2, <1>8, <2>1 DEF Answers
<1>10. Working(i)' => <<"reads", i, 1>> \in held'[i]
  <2>1. <<"reads", i, 1>> \in held[i]
    BY <1>4 DEF MoveInv, Outputs
  <2>2. <<"reads", i, 1>> \notin ClosedByChild(i)
    <3>1. i \in Int /\ 1 - i # i
      BY UmpireAssumption DEF Ids
    <3>2. \A e \in ClosedByMatchChild(i) :
            e \in {<<"writes", i, 1>>, <<"reads", i, 0>>} \/ e[2] = 1 - i
      BY DEF ClosedByMatchChild
    <3>3. \A e \in ClosedByTournamentChild(i) :
            e \in {<<"writes", i, 1>>, <<"reads", i, 0>>} \/ e[1] = "writes"
      BY DEF ClosedByTournamentChild
    <3>4. QED
      BY <3>1, <3>2, <3>3 DEF ClosedByChild
  <2>3. \/ held' = held
        \/ held' = [held EXCEPT ![i] = @ \ ClosedByChild(i)]
        \/ player'[i] \in {"dead", "ended"}
    BY <1>3 DEF PlayerStep, ExecFails, Quit, Exec, ReadGo, EndOfGame, MakeMove, Die, Play
  <2>4. i \in Procs
    BY DEF Procs
  <2>5. QED
    BY <1>3, <2>1, <2>2, <2>3, <2>4 DEF Working
<1>11. ASSUME pc = "fork" PROVE \A j \in Ids : go'[j] = 0 /\ mv'[j] = <<>>
  <2>1. \A j \in Ids : go[j] = 0 /\ mv[j] = <<>> /\ ~ Awaited(j)
    BY <1>11 DEF MoveInv, Outputs, Awaited
  <2>2. status = "running" /\ Idle(i)
    BY <1>11, <2>1 DEF MoveInv, Ended, Answers
  <2>3. go' = go /\ mv' = mv
    BY <1>4, <2>1, <2>2
       DEF Idle, PlayerStep, ExecFails, Quit, Exec, ReadGo, EndOfGame, MakeMove
  <2>4. QED
    BY <2>1, <2>3
<1>12. Outputs'
  <2>1. held'[UMPIRE] = held[UMPIRE]
    BY <1>3, <1>5 DEF Procs
  <2>2. \A j \in Ids \ {i} : held'[j] = held[j] /\ Working(j)' = Working(j)
    BY <1>5, <1>6 DEF Procs, Working
  <2>3. QED
    BY <1>2, <1>10, <1>11, <2>1, <2>2 DEF MoveInv, Outputs
<1>13. QED
  BY <1>7, <1>9, <1>12

LEMMA MoveInvNext == MoveInv /\ [Next]_vars => MoveInv'
<1> SUFFICES ASSUME MoveInv, [Next]_vars PROVE MoveInv'
  OBVIOUS
<1>1. MatchInv'
  BY MatchInvNext DEF MoveInv
<1>2. Ended' /\ Outputs' /\ Answers'
  <2>1. CASE UNCHANGED vars
    BY <2>1 DEF vars, setting, umpire, pipes, MoveInv, Ended, Outputs, Answers, Working,
                Busy, Idle, Awaited
  <2>2. CASE StartLevel
    <3>1. turn'.side = 1
      BY <2>2, TypesSplit DEF MoveInv, MatchInv, UmpireTypes, StartLevel
    <3>2. QED
      BY <2>2, <3>1, QuietMoves DEF StartLevel
  <2>3. CASE StartMatch
    <3>1. turn'.side = 1
      BY <2>3, TypesSplit DEF MoveInv, MatchInv, Opposed, UmpireTypes, StartMatch
    <3>2. QED
      BY <2>3, <3>1, QuietMoves DEF StartMatch
  <2>4. CASE Decide
    BY <2>4, QuietMoves DEF Decide
  <2>5. CASE Finish \/ PathOverrun \/ SetupFails
    BY <2>5, ExitMoves DEF Finish, PathOverrun, SetupFails
  <2>6. ASSUME NEW i \in Ids, PlayerStep(i) \/ ExecFails(i) \/ Quit(i)
        PROVE  Ended' /\ Outputs' /\ Answers'
    BY <2>6, PlayerMoves
  <2>7. QED
    BY <2>1, <2>2, <2>3, <2>4, <2>5, <2>6, ForkMoves, SendGoMoves, ReadMoveMoves
       DEF Next, UmpireStep
<1>3. QED
  BY <1>1, <1>2 DEF MoveInv

\* A move never answers the GO of an earlier round, however the two programs and
\* their players interleave and whichever players fail to start or quit.
THEOREM MovesFresh == Spec => []FreshMoves
<1>1. Spec => []MoveInv
  BY MoveInvInit, MoveInvNext, PTL DEF Spec
<1>2. QED
  BY <1>1, MoveInvFresh, PTL
-----------------------------------------------------------------------------
(* The rules.  What a level pairs are neighbours in a set of an even number  *)
(* of players, and the place of the umpire says how often each match was     *)
(* played; so each of its steps is one of Knockout or changes nothing there. *)

\* Each place below 2h of an order is the first or the second of a pair.
LEMMA PlacesPaired ==
    ASSUME NEW h \in Nat, NEW r \in Nat, r < 2 * h, r % 2 = 0
    PROVE  \E k \in 1 .. h : 2 * k - 1 = r + 1 /\ 2 * k = r + 2
<1> DEFINE k == r \div 2 + 1
<1>1. k \in 1 .. h /\ 2 * k - 1 = r + 1 /\ 2 * k = r + 2
  OBVIOUS
<1>2. QED
  BY <1>1

LEMMA SameCardinality == \A S : Rules!Cardinality(S) = Cardinality(S)
BY DEF Cardinality, Rules!Cardinality

LEMMA NeighboursMeet ==
    ASSUME NEW S \in SUBSET Int, IsFiniteSet(S), NEW h \in Nat, 2 * h <= Cardinality(S)
    PROVE  \E T \in SUBSET S :
              /\ IsFiniteSet(T) /\ Cardinality(T) = 2 * h
              /\ {<<Nth(S, 2 * k - 1), Nth(S, 2 * k)>> : k \in 1 .. h} = Rules!Opponents(T)
<1> DEFINE Before(x) == {y \in S : y < x}
           n == Cardinality(S)
           T == {Nth(S, j) : j \in 1 .. 2 * h}
           Met == {<<Nth(S, 2 * k - 1), Nth(S, 2 * k)>> : k \in 1 .. h}
<1>1. n \in Nat /\ 1 .. 2 * h \subseteq 1 .. n
  BY FS_CardinalityType
<1>2. \A j \in 1 .. n : Nth(S, j) \in S /\ Cardinality(Before(Nth(S, j))) = j - 1
  BY NthInSet
<1>3. \A i, j \in 1 .. n : i < j => Nth(S, i) < Nth(S, j)
  BY NthIncreasing
<1>4. T \in SUBSET S
  BY <1>1, <1>2
<1>5. IsFiniteSet(T) /\ Cardinality(T) = 2 * h
  BY <1>1, FirstOnesCounted
<1>6. \A j \in 1 .. 2 * h : {p \in T : p < Nth(S, j)} = Before(Nth(S, j))
  BY <1>1, FirstOnesBefore
<1> HIDE DEF n, T, Before, Met
<1>7. ASSUME NEW k \in 1 .. h PROVE <<Nth(S, 2 * k - 1), Nth(S, 2 * k)>> \in Rules!Opponents(T)
  <2> DEFINE a == Nth(S, 2 * k - 1)
             b == Nth(S, 2 * k)
  <2>1. 2 * k - 1 \in 1 .. 2 * h /\ 2 * k \in 1 .. 2 * h /\ 2 * k - 1 < 2 * k
    OBVIOUS
  <2>2. a \in T /\ b \in T
    BY <2>1 DEF T
  <2>3. a < b
    BY <1>1, <1>3, <2>1
  <2>4. ASSUME NEW p \in T PROVE p <= a \/ p >= b
    <3>1. PICK j \in 1 .. 2 * h : p = Nth(S, j)
      BY DEF T
    <3>2. j < 2 * k - 1 \/ j = 2 * k - 1 \/ j = 2 * k \/ 2 * k < j
      BY <2>1
    <3>3. p < a \/ p = a \/ p = b \/ b < p
      BY <1>1, <1>3, <2>1, <3>1, <3>2
    <3>4. p \in Int /\ a \in Int /\ b \in Int
      BY <1>4, <2>2
    <3>5. QED
      BY <3>3, <3>4
  <2>5. Cardinality({p \in T : p < a}) = 2 * k - 2
    <3>1. Cardinality({p \in T : p < a}) = 2 * k - 1 - 1
      BY <1>1, <1>2, <1>6, <2>1
    <3>2. QED
      BY <3>1
  <2>6. (2 * k - 2) % 2 = 0
    OBVIOUS
  <2> HIDE DEF a, b
  <2>7. <<a, b>> \in Rules!Opponents(T)
    BY <2>2, <2>3, <2>4, <2>5, <2>6, SameCardinality DEF Rules!Opponents
  <2>8. QED
    BY <2>7 DEF a, b
<1>8. ASSUME NEW m \in Rules!Opponents(T) PROVE m \in Met
  <2>1. /\ m \in T \X T /\ m[1] < m[2]
        /\ \A p \in T : p <= m[1] \/ p >= m[2]
        /\ Cardinality({p \in T : p < m[1]}) % 2 = 0
    BY SameCardinality DEF Rules!Opponents
  <2>2. PICK i \in 1 .. 2 * h, j \in 1 .. 2 * h : m[1] = Nth(S, i) /\ m[2] = Nth(S, j)
    BY <2>1 DEF T
  <2>3. i < j
    <3>1. m[1] \in Int /\ m[2] \in Int
      BY <1>4, <2>1
    <3>2. ~ (j < i) /\ i # j
      BY <1>1, <1>3, <2>1, <2>2, <3>1
    <3>3. QED
      BY <3>2
  <2>4. j = i + 1
    <3>1. ASSUME i + 1 < j PROVE FALSE
      <4>1. i + 1 \in 1 .. 2 * h /\ Nth(S, i + 1) \in T
        BY <3>1 DEF T
      <4>2. m[1] < Nth(S, i + 1) /\ Nth(S, i + 1) < m[2]
        BY <1>1, <1>3, <2>2, <3>1, <4>1
      <4>3. m[1] \in Int /\ m[2] \in Int /\ Nth(S, i + 1) \in Int
        BY <1>4, <2>1, <4>1
      <4>4. QED
        BY <2>1, <4>1, <4>2, <4>3
    <3>2. QED
      BY <2>3, <3>1
  <2>5. Cardinality({p \in T : p < m[1]}) = i - 1
    BY <1>1, <1>2, <1>6, <2>2
  <2>6. (i - 1) % 2 = 0 /\ i - 1 \in Nat /\ i - 1 < 2 * h
    BY <2>1, <2>5
  <2>7. PICK k \in 1 .. h : 2 * k - 1 = i - 1 + 1 /\ 2 * k = i - 1 + 2
    BY <2>6, PlacesPaired
  <2>8. 2 * k - 1 = i /\ 2 * k = j
    BY <2>4, <2>7
  <2>9. m = <<Nth(S, 2 * k - 1), Nth(S, 2 * k)>>
    BY <2>1, <2>2, <2>8
  <2>10. QED
    BY <2>9 DEF Met
<1>9. Met = Rules!Opponents(T)
  BY <1>7, <1>8 DEF Met
<1>10. QED
  BY <1>4, <1>5, <1>9 DEF Met

LEMMA HalfAndRest ==
    ASSUME NEW r \in Nat
    PROVE  r \div 2 \in Nat /\ r = 2 * (r \div 2) + (r % 2) /\ (r % 2 = 1 \/ r % 2 = 0)
<1> DEFINE q == r \div 2
           e == r % 2
<1>1. q \in Nat /\ e \in 0 .. 1
  OBVIOUS
<1>2. r = 2 * q + e
  OBVIOUS
<1>3. QED
  BY <1>1, <1>2

\* Whoever draws the walk-over, a level pairs neighbours of the others, in order.
LEMMA PairedByTheRules ==
    ASSUME MatchInv, NEW walk, rem > 1
    PROVE  /\ \A k, l \in 1 .. rem \div 2 : k < l => Paired(walk)[k][1] < Paired(walk)[l][1]
           /\ \E o \in SUBSET active :
                /\ Cardinality(o) = rem % 2
                /\ Range(Paired(walk)) = Rules!Opponents(active \ o)
<1> DEFINE left == IF rem % 2 = 1 THEN active \ {Nth(active, walk)} ELSE active
           n == Cardinality(left)
           h == rem \div 2
<1>1. active \in SUBSET Int /\ rem \in Nat /\ IsFiniteSet(active) /\ Cardinality(active) = rem
  BY UmpireAssumption DEF MatchInv, Typed, TypeOK, Counted, Ids
<1>2. h \in Nat /\ rem = 2 * h + (rem % 2) /\ (rem % 2 = 1 \/ rem % 2 = 0)
  BY <1>1, HalfAndRest
<1>3. left \in SUBSET active /\ IsFiniteSet(left) /\ left \in SUBSET Int
  BY <1>1, FS_Subset
<1>4. n \in Nat /\ 2 * h <= n
  <2>1. n \in Nat
    BY <1>3, FS_CardinalityType
  <2> HIDE DEF h
  <2>2. 2 * h <= rem /\ (rem % 2 = 1 => 2 * h <= rem - 1)
    BY <1>1, <1>2
  <2>3. CASE rem % 2 = 1 /\ Nth(active, walk) \in active
    <3>1. n = rem - 1
      BY <1>1, <2>3, FS_RemoveElement
    <3> HIDE DEF n
    <3>2. QED
      BY <1>1, <2>1, <2>2, <2>3, <3>1
  <2>4. CASE ~ (rem % 2 = 1 /\ Nth(active, walk) \in active)
    <3>1. left = active
      BY <2>4
    <3>2. QED
      BY <1>1, <2>2, <3>1
  <2>5. QED
    BY <2>3, <2>4
<1>5. Paired(walk) = [k \in 1 .. h |-> <<Nth(left, 2 * k - 1), Nth(left, 2 * k)>>]
  BY DEF Paired
<1>6. \A k \in 1 .. h : 2 * k - 1 \in 1 .. n
  BY <1>2, <1>4
<1> HIDE DEF left, n, h
<1>7. \A i, j \in 1 .. n : i < j => Nth(left, i) < Nth(left, j)
  BY <1>3, NthIncreasing DEF n
<1>8. ASSUME NEW k \in 1 .. h, NEW l \in 1 .. h, k < l
      PROVE  Paired(walk)[k][1] < Paired(walk)[l][1]
  <2>1. 2 * k - 1 < 2 * l - 1
    BY <1>2, <1>8
  <2>2. Nth(left, 2 * k - 1) < Nth(left, 2 * l - 1)
    BY <1>6, <1>7, <2>1
  <2>3. QED
    BY <1>5, <2>2
<1>9. PICK T \in SUBSET left :
         /\ IsFiniteSet(T) /\ Cardinality(T) = 2 * h
         /\ {<<Nth(left, 2 * k - 1), Nth(left, 2 * k)>> : k \in 1 .. h} = Rules!Opponents(T)
  BY <1>2, <1>3, <1>4, NeighboursMeet DEF n
<1>10. Range(Paired(walk)) = Rules!Opponents(T)
  <2>1. Range(Paired(walk)) = {<<Nth(left, 2 * k - 1), Nth(left, 2 * k)>> : k \in 1 .. h}
    BY <1>5 DEF Range
  <2>2. QED
    BY <1>9, <2>1
<1> DEFINE o == active \ T
<1>11. T \subseteq active /\ active \cap T = T /\ active \ o = T
  BY <1>3
<1>12. Cardinality(o) = rem - 2 * h
  <2>1. Cardinality(active \ T) = Cardinality(active) - Cardinality(active \cap T)
    BY <1>1, FS_Difference
  <2>2. QED
    BY <1>1, <1>9, <1>11, <2>1
<1>13. o \in SUBSET active /\ Cardinality(o) = rem % 2
  BY <1>2, <1>12
<1>14. Range(Paired(walk)) = Rules!Opponents(active \ o)
  BY <1>10, <1>11
<1>15. QED
  BY <1>8, <1>13, <1>14 DEF h

\* Where the umpire is in its rounds; a match is before another if its players are.
InOrder(ps) == \A k, l \in 1 .. Len(ps) : k < l => ps[k][1] < ps[l][1]
Rounds ==
    /\ program = "umpire" => active = {0, 1}
    /\ pc \in {"fork", "level"} => pairs = << >>
    /\ pc \in {"go", "read"} => turn.round \in 1 .. ROUNDS
    /\ pc = "decide" => turn.round = ROUNDS + 1 /\ Len(pairs) >= 1
    /\ InOrder(pairs)

GameInv == MoveInv /\ Rounds

LEMMA TurnTyped ==
    MatchInv => turn \in [child : 0 .. MAX_PLAYERS, round : Nat, pair : Nat, side : {1, 2}]
BY TypesSplit DEF MatchInv, UmpireTypes

\* The next match is of the same round or, after the last one, the first of the next.
LEMMA NextMatch ==
    ASSUME MatchInv, pc = "read", NextRound
    PROVE  \/ /\ turn.pair < Len(pairs) /\ turn'.pair = turn.pair + 1
              /\ turn'.round = turn.round /\ pc' = "go"
           \/ /\ turn.pair = Len(pairs) /\ turn'.pair = 1
              /\ turn'.round = turn.round + 1
              /\ pc' = IF turn.round = ROUNDS THEN "decide" ELSE "go"
<1>1. /\ turn \in [child : 0 .. MAX_PLAYERS, round : Nat, pair : Nat, side : {1, 2}]
      /\ turn.pair \in 1 .. Len(pairs) /\ Len(pairs) \in Nat
  BY TypesSplit DEF MatchInv, Opposed, UmpireTypes
<1>2. CASE turn.pair = Len(pairs)
  <2>1. turn' = [turn EXCEPT !.side = 1, !.pair = 1, !.round = turn.round + 1]
    BY <1>2 DEF NextRound
  <2>2. QED
    BY <1>1, <1>2, <2>1 DEF NextRound
<1>3. CASE turn.pair # Len(pairs)
  <2>1. turn' = [turn EXCEPT !.side = 1, !.pair = turn.pair + 1, !.round = turn.round]
    BY <1>3 DEF NextRound
  <2>2. turn.pair < Len(pairs)
    BY <1>1, <1>3
  <2>3. QED
    BY <1>1, <1>3, <2>1, <2>2 DEF NextRound
<1>4. QED
  BY <1>2, <1>3

LEMMA RoundsInit == Init => Rounds
<1> SUFFICES ASSUME Init PROVE Rounds
  OBVIOUS
<1>1. program = "umpire" => active = {0, 1}
  BY DEF Init
<1>2. pairs = << >> /\ pc = "fork" /\ InOrder(pairs)
  BY DEF Init, InOrder
<1>3. QED
  BY <1>1, <1>2 DEF Rounds

LEMMA RoundsNext == ASSUME GameInv, [Next]_vars PROVE Rounds'
<1>1. MatchInv /\ Rounds /\ ROUNDS \in Nat \ {0}
  BY UmpireAssumption DEF GameInv, MoveInv
<1>2. turn \in [child : 0 .. MAX_PLAYERS, round : Nat, pair : Nat, side : {1, 2}]
  BY <1>1, TurnTyped
<1>3. CASE UNCHANGED umpire /\ UNCHANGED setting
  BY <1>1, <1>3 DEF Rounds, InOrder, umpire, setting
<1>4. CASE Fork
  <2>1. pc = "fork" /\ pc' \in {"fork", "level"} /\ UNCHANGED <<program, active, pairs>>
    BY <1>4 DEF Fork, setting
  <2>2. QED
    BY <1>1, <2>1 DEF Rounds, InOrder
<1>5. ASSUME NEW how, Exit(how), UNCHANGED <<setting, turn, active, pairs>> PROVE Rounds'
  BY <1>1, <1>5 DEF Rounds, InOrder, Exit, setting
<1>6. CASE StartLevel
  <2>1. PICK walk \in WalkOvers : pairs' = Paired(walk)
    BY <1>6 DEF StartLevel
  <2>2. rem > 1 /\ program' = "umpire2" /\ pc' = "go"
    BY <1>1, <1>6, TypesSplit DEF StartLevel, setting, MatchInv, Counted, UmpireTypes
  <2>3. Len(pairs') = rem \div 2
    BY <1>1, <2>1, <2>2, PairedMatches
  <2>4. InOrder(pairs)'
    BY <1>1, <2>1, <2>2, <2>3, PairedByTheRules DEF InOrder
  <2>5. turn'.round = 1
    BY <1>2, <1>6 DEF StartLevel
  <2>6. QED
    BY <1>1, <2>2, <2>4, <2>5 DEF Rounds
<1>7. CASE StartMatch
  <2>1. pairs' = << <<0, 1>> >> /\ Len(pairs') = 1 /\ pc' = "go"
    BY <1>7 DEF StartMatch
  <2>2. InOrder(pairs)'
    BY <2>1 DEF InOrder
  <2>3. turn'.round = 1
    BY <1>2, <1>7 DEF StartMatch
  <2>4. UNCHANGED <<program, active>>
    BY <1>7 DEF StartMatch, setting
  <2>5. QED
    BY <1>1, <2>1, <2>2, <2>3, <2>4 DEF Rounds
<1>8. CASE SendGo
  <2>1. UNCHANGED <<program, active, pairs>> /\ pc = "go"
    BY <1>8 DEF SendGo, setting
  <2>2. pc' \in {"go", "read", "ended"} /\ turn'.round = turn.round
    BY <1>2, <1>8 DEF SendGo, Exit
  <2>3. QED
    BY <1>1, <2>1, <2>2 DEF Rounds, InOrder
<1>9. CASE ReadMove
  <2>1. UNCHANGED <<program, active, pairs>> /\ pc = "read"
    BY <1>9 DEF ReadMove, setting
  <2>2. (turn' = [turn EXCEPT !.side = 2] /\ pc' = pc) \/ NextRound
    BY <1>9 DEF ReadMove
  <2>3. CASE turn' = [turn EXCEPT !.side = 2] /\ pc' = pc
    <3>1. turn'.round = turn.round
      BY <1>2, <2>3
    <3>2. QED
      BY <1>1, <2>1, <2>3, <3>1 DEF Rounds, InOrder
  <2>4. CASE NextRound
    <3>1. turn.round \in 1 .. ROUNDS /\ turn.pair \in 1 .. Len(pairs) /\ Len(pairs) \in Nat
      BY <1>1, <2>1, TypesSplit DEF Rounds, MatchInv, Opposed, UmpireTypes
    <3>2. /\ pc' = "go" => turn'.round \in 1 .. ROUNDS
          /\ pc' = "decide" => turn'.round = ROUNDS + 1 /\ Len(pairs) >= 1
          /\ pc' \in {"go", "decide"}
      BY <1>1, <2>1, <2>4, <3>1, NextMatch
    <3>3. QED
      BY <1>1, <2>1, <3>2 DEF Rounds, InOrder
  <2>5. QED
    BY <2>2, <2>3, <2>4
<1>10. CASE Decide
  BY <1>10 DEF Decide, Rounds, InOrder, setting
<1>11. CASE Finish \/ PathOverrun \/ SetupFails
  BY <1>5, <1>11 DEF Finish, PathOverrun, SetupFails
<1>12. ASSUME NEW i \in Ids, PlayerStep(i) \/ ExecFails(i) \/ Quit(i) PROVE Rounds'
  <2>1. UNCHANGED umpire /\ UNCHANGED setting
    BY <1>12 DEF PlayerStep, ExecFails, Quit, Exec, ReadGo, EndOfGame, MakeMove
  <2>2. QED
    BY <1>3, <2>1
<1>13. CASE UNCHANGED vars
  BY <1>3, <1>13 DEF vars
<1>14. QED
  BY <1>4, <1>6, <1>7, <1>8, <1>9, <1>10, <1>11, <1>12, <1>13 DEF Next, UmpireStep

LEMMA GameInvHolds == Spec => []GameInv
<1>1. Init => GameInv
  BY MoveInvInit, RoundsInit DEF GameInv
<1>2. GameInv /\ [Next]_vars => GameInv'
  BY MoveInvNext, RoundsNext DEF GameInv
<1>3. QED
  BY <1>1, <1>2, PTL DEF Spec

\* What the map of the rules to the umpire's variables says of each match.
Scored(ps, t, pt) ==
    [m \in Range(ps) |->
        LET k == CHOOSE k \in DOMAIN ps : ps[k] = m IN
        [played |-> t.round - (IF k < t.pair THEN 0 ELSE 1), lead |-> pt[k][1] - pt[k][2]]]

Known(g, ps, t, pt) ==
    /\ DOMAIN g = {ps[k] : k \in 1 .. Len(ps)}
    /\ \A k \in 1 .. Len(ps) :
         g[ps[k]] = [played |-> t.round - (IF k < t.pair THEN 0 ELSE 1),
                     lead |-> pt[k][1] - pt[k][2]]
    /\ \A k, l \in 1 .. Len(ps) : ps[k] = ps[l] => k = l

LEMMA GamesScored ==
    Games = Scored(pairs, turn, points) /\ Games' = Scored(pairs', turn', points')
BY DEF Games, Scored

LEMMA ScoredKnown ==
    ASSUME NEW ps \in Seq(Ids \X Ids), InOrder(ps), NEW t, NEW pt
    PROVE  Known(Scored(ps, t, pt), ps, t, pt)
<1>1. DOMAIN ps = 1 .. Len(ps) /\ Len(ps) \in Nat
  OBVIOUS
<1>2. \A k \in 1 .. Len(ps) : ps[k][1] \in Int
  BY <1>1, UmpireAssumption DEF Ids
<1>3. ASSUME NEW k \in 1 .. Len(ps), NEW l \in 1 .. Len(ps), ps[k] = ps[l]
      PROVE  k = l
  <2>1. ~ (k < l) /\ ~ (l < k)
    BY <1>2, <1>3 DEF InOrder
  <2>2. QED
    BY <2>1
<1>4. \A k \in 1 .. Len(ps) : (CHOOSE l \in DOMAIN ps : ps[l] = ps[k]) = k
  BY <1>1, <1>3
<1>5. Range(ps) = {ps[k] : k \in 1 .. Len(ps)}
  BY <1>1 DEF Range
<1>6. \A k \in 1 .. Len(ps) : Scored(ps, t, pt)[ps[k]] =
         [played |-> t.round - (IF k < t.pair THEN 0 ELSE 1),
          lead |-> pt[k][1] - pt[k][2]]
  BY <1>4, <1>5 DEF Scored
<1>7. DOMAIN Scored(ps, t, pt) = {ps[k] : k \in 1 .. Len(ps)}
  BY <1>5 DEF Scored
<1>8. QED
  BY <1>3, <1>6, <1>7 DEF Known

\* The matches before and after a step.
LEMMA GamesKnown ==
    (MatchInv /\ InOrder(pairs) => Known(Games, pairs, turn, points))
    /\ (MatchInv' /\ InOrder(pairs') => Known(Games', pairs', turn', points'))
<1>1. /\ MatchInv => pairs \in Seq(Ids \X Ids)
      /\ MatchInv' => pairs' \in Seq(Ids \X Ids)
  BY DEF MatchInv, Typed, TypeOK
<1>2. QED
  BY <1>1, GamesScored, ScoredKnown

LEMMA NoGames ==
    (pairs = << >> => Games = << >> /\ DOMAIN Games = {}) /\ (pairs' = << >> => Games' = << >>)
<1>1. Range(<< >>) = {}
  BY DEF Range
<1>2. ASSUME NEW t, NEW pt PROVE Scored(<< >>, t, pt) = << >> /\ DOMAIN Scored(<< >>, t, pt) = {}
  <2> DEFINE g == Scored(<< >>, t, pt)
  <2>1. DOMAIN g = {} /\ g = [m \in {} |-> g[m]]
    BY <1>1 DEF Scored
  <2>2. {} = 1 .. 0
    OBVIOUS
  <2> HIDE DEF g
  <2>3. g = [m \in 1 .. 0 |-> g[m]]
    BY <2>1, <2>2
  <2>4. [m \in 1 .. 0 |-> g[m]] = << >>
    OBVIOUS
  <2>5. QED
    BY <2>1, <2>3, <2>4 DEF g
<1>3. /\ pairs = << >> => Games = Scored(<< >>, turn, points)
      /\ pairs' = << >> => Games' = Scored(<< >>, turn', points')
  BY GamesScored
<1>4. QED
  BY <1>2, <1>3

\* Nothing that Knockout speaks of changes while the umpire forks or sends.
LEMMA SameGames ==
    ASSUME UNCHANGED <<pairs, points>>, turn'.round = turn.round, turn'.pair = turn.pair
    PROVE  Games' = Games
BY DEF Games

LEMMA Running == ASSUME MoveInv, pc # "ended" PROVE Over = "no"
BY DEF MoveInv, Ended, Over

LEMMA RulesLevel ==
    ASSUME GameInv, GameInv', StartLevel, StackValues = {0} PROVE Rules!StartLevel
<1>1. MatchInv /\ MatchInv' /\ MoveInv /\ MoveInv' /\ Rounds /\ Rounds'
  BY DEF GameInv, MoveInv
<1>2. Over = "no" /\ Over' = "no"
  BY <1>1, Running DEF StartLevel, MoveInv, Ended, Over
<1>3. PICK walk \in WalkOvers : pairs' = Paired(walk)
  BY DEF StartLevel
<1> DEFINE h == rem \div 2
<1>4. PICK stack \in [1 .. h -> StackValues] : points' = [k \in 1 .. h |-> <<0, stack[k]>>]
  BY DEF StartLevel
<1>5. rem > 1 /\ rem \in Nat /\ Cardinality(active) = rem
  BY <1>1, TypesSplit DEF StartLevel, MatchInv, Counted, UmpireTypes
<1>6. PICK o \in SUBSET active :
         Cardinality(o) = rem % 2 /\ Range(Paired(walk)) = Rules!Opponents(active \ o)
  BY <1>1, <1>5, PairedByTheRules
<1>7. turn'.round = 1 /\ turn'.pair = 1
  BY <1>1, TurnTyped DEF StartLevel
<1>8. Len(pairs') = h /\ DOMAIN pairs' = 1 .. h /\ h \in Nat
  BY <1>1, <1>3, <1>5, PairedMatches
<1> HIDE DEF h
<1>9. Known(Games', pairs', turn', points')
  <2>1. MatchInv' /\ InOrder(pairs')
    BY <1>1 DEF Rounds, InOrder
  <2>2. QED
    BY <2>1, GamesKnown
<1>10. \A k \in 1 .. h : Games'[pairs'[k]] = [played |-> 0, lead |-> 0]
  <2> TAKE k \in 1 .. h
  <2>1. points'[k] = <<0, 0>>
    BY <1>4
  <2>2. turn'.round - (IF k < turn'.pair THEN 0 ELSE 1) = 0
    BY <1>7, <1>8
  <2>3. QED
    BY <1>8, <1>9, <2>1, <2>2 DEF Known
<1>11. Range(pairs') = {pairs'[k] : k \in 1 .. h}
  BY <1>8 DEF Range
<1>12. DOMAIN Games' = Rules!Opponents(active \ o)
  BY <1>3, <1>6, <1>8, <1>9, <1>11 DEF Known
<1>13. Games' = [m \in DOMAIN Games' |-> Games'[m]]
  BY DEF Games
<1>14. \A m \in DOMAIN Games' : Games'[m] = [played |-> 0, lead |-> 0]
  BY <1>8, <1>9, <1>10 DEF Known
<1>15. Games' = [m \in Rules!Opponents(active \ o) |-> [played |-> 0, lead |-> 0]]
  BY <1>12, <1>13, <1>14
<1>16. pairs = << >>
  BY <1>1 DEF Rounds, StartLevel
<1>17. DOMAIN Games = {}
  BY <1>16, NoGames
<1>18. UNCHANGED <<active, out>>
  BY DEF StartLevel
<1>19. Rules!Cardinality(active) > 1 /\ Rules!Cardinality(o) = Rules!Cardinality(active) % 2
  BY <1>5, <1>6, SameCardinality
<1>20. QED
  BY <1>2, <1>15, <1>17, <1>18, <1>19 DEF Rules!StartLevel

LEMMA TwoMeet == Rules!Opponents({0, 1}) = {<<0, 1>>} /\ Rules!Cardinality({0, 1}) = 2
                 /\ Rules!Cardinality({}) = 0
<1> DEFINE S == {0, 1}
<1>1. Cardinality({}) = 0
  BY FS_EmptySet
<1>2. {p \in S : p < 0} = {}
  OBVIOUS
<1>3. S = 0 .. 1
  OBVIOUS
<1>4. Cardinality(0 .. 1) = 2
  <2>1. Cardinality(0 .. 1) = IF 0 > 1 THEN 0 ELSE 1 - 0 + 1
    <3>1. 0 \in Int /\ 1 \in Int
      OBVIOUS
    <3>2. QED
      BY <3>1, FS_Interval
  <2>2. QED
    BY <2>1
<1>5. <<0, 1>> \in Rules!Opponents(S)
  <2>1. <<0, 1>> \in S \X S /\ <<0, 1>>[1] = 0 /\ <<0, 1>>[2] = 1 /\ 0 < 1
    OBVIOUS
  <2>2. \A p \in S : p <= 0 \/ p >= 1
    OBVIOUS
  <2>3. 0 % 2 = 0
    OBVIOUS
  <2> HIDE DEF S
  <2>4. QED
    BY <1>1, <1>2, <2>1, <2>2, <2>3, SameCardinality DEF Rules!Opponents
<1>6. ASSUME NEW m \in Rules!Opponents(S) PROVE m = <<0, 1>>
  <2>1. m \in S \X S /\ m[1] < m[2]
    BY DEF Rules!Opponents
  <2>2. QED
    BY <2>1
<1>7. Rules!Opponents(S) = {<<0, 1>>}
  BY <1>5, <1>6
<1>8. QED
  BY <1>1, <1>3, <1>4, <1>7, SameCardinality

LEMMA RulesMatch == ASSUME GameInv, GameInv', StartMatch PROVE Rules!StartLevel
<1>1. MatchInv /\ MatchInv' /\ MoveInv /\ MoveInv' /\ Rounds /\ Rounds'
  BY DEF GameInv, MoveInv
<1>2. Over = "no" /\ Over' = "no"
  BY <1>1, Running DEF StartMatch, MoveInv, Ended, Over
<1>3. active = {0, 1} /\ UNCHANGED <<active, out>> /\ pairs = << >>
  BY <1>1 DEF StartMatch, Rounds
<1>4. pairs' = << <<0, 1>> >> /\ points' = << <<0, 0>> >> /\ Len(pairs') = 1
  BY DEF StartMatch
<1>5. turn'.round = 1 /\ turn'.pair = 1
  BY <1>1, TurnTyped DEF StartMatch, MatchInv, Opposed
<1>6. Known(Games', pairs', turn', points')
  <2>1. InOrder(pairs')
    BY <1>1 DEF Rounds, InOrder
  <2>2. QED
    BY <1>1, <2>1, GamesKnown
<1>7. DOMAIN Games' = {<<0, 1>>}
  <2>1. DOMAIN Games' = {pairs'[k] : k \in 1 .. 1}
    BY <1>4, <1>6 DEF Known
  <2>2. 1 .. 1 = {1} /\ pairs'[1] = <<0, 1>>
    BY <1>4
  <2>3. QED
    BY <2>1, <2>2
<1>8. Games'[<<0, 1>>] = [played |-> 0, lead |-> 0]
  <2>1. 1 \in 1 .. Len(pairs') /\ pairs'[1] = <<0, 1>> /\ points'[1] = <<0, 0>>
    BY <1>4
  <2>2. Games'[pairs'[1]] = [played |-> turn'.round - (IF 1 < turn'.pair THEN 0 ELSE 1),
                             lead |-> points'[1][1] - points'[1][2]]
    BY <1>6, <2>1 DEF Known
  <2>3. QED
    BY <1>5, <2>1, <2>2
<1>9. Games' = [m \in DOMAIN Games' |-> Games'[m]]
  BY DEF Games
<1>10. Games' = [m \in Rules!Opponents({0, 1}) |-> [played |-> 0, lead |-> 0]]
  BY <1>7, <1>8, <1>9, TwoMeet
<1>11. DOMAIN Games = {}
  BY <1>3, NoGames
<1>12. {} \in SUBSET active /\ active \ {} = {0, 1}
  BY <1>3
<1>13. Rules!Cardinality(active) > 1 /\ Rules!Cardinality({}) = Rules!Cardinality(active) % 2
  BY <1>3, TwoMeet
<1>14. QED
  BY <1>2, <1>3, <1>10, <1>11, <1>12, <1>13 DEF Rules!StartLevel

\* The points of a round are those of the game.
LEMMA ScoreRules ==
    ASSUME NEW q \in Int \X Int, NEW a \in Chars, NEW b \in Chars, NEW pt \in Scores(q, a, b)
    PROVE  \E win \in Rules!getResult(a, b) :
              win \in Int /\ pt[1] - pt[2] = (q[1] - q[2]) + win
<1>1. q[1] \in Int /\ q[2] \in Int
  OBVIOUS
<1>2. CASE a = b
  <2>1. pt = q /\ 0 \in Rules!getResult(a, b)
    BY <1>2 DEF Scores, Rules!getResult
  <2>2. QED
    BY <1>1, <2>1
<1>3. CASE a # b /\ program = "umpire" /\ {a, b} \cap {"other"} # {}
  <2>1. pt = q
    BY <1>3 DEF Scores
  <2>2. a = "other" \/ b = "other"
    BY <1>3
  <2>3. 0 \in Rules!getResult(a, b)
    BY <1>3, <2>2 DEF Rules!getResult
  <2>4. QED
    BY <1>1, <2>1, <2>3
<1>4. CASE a # b /\ ~ (program = "umpire" /\ {a, b} \cap {"other"} # {})
  <2>1. PICK win \in firstWin(a, b) :
           pt = IF win THEN <<q[1] + 1, q[2]>> ELSE <<q[1], q[2] + 1>>
    BY <1>4 DEF Scores
  <2>2. win \in BOOLEAN
    BY DEF firstWin
  <2>3. CASE win = TRUE
    <3>1. pt[1] - pt[2] = (q[1] - q[2]) + 1
      BY <1>1, <2>1, <2>3
    <3>2. ~ (<<a, b>> \in {<<"0", "1">>, <<"1", "2">>, <<"2", "0">>})
      BY <2>3 DEF firstWin
    <3>3. 1 \in Rules!getResult(a, b)
      BY <1>4, <3>2 DEF Rules!getResult
    <3>4. QED
      BY <3>1, <3>3
  <2>4. CASE win = FALSE
    <3>1. pt[1] - pt[2] = (q[1] - q[2]) + (-1)
      BY <1>1, <2>1, <2>4
    <3>2. ~ (<<a, b>> \in {<<"0", "2">>, <<"1", "0">>, <<"2", "1">>})
      BY <2>4 DEF firstWin
    <3>3. -1 \in Rules!getResult(a, b)
      BY <1>4, <3>2 DEF Rules!getResult
    <3>4. QED
      BY <3>1, <3>3
  <2>5. QED
    BY <2>2, <2>3, <2>4
<1>5. QED
  BY <1>2, <1>3, <1>4

\* How often each match was played, before and after a round of the p-th of n.
Times(r, p, k) == r - (IF k < p THEN 0 ELSE 1)
GoesOn(n, p, r, p2, r2) ==
    \/ p < n /\ p2 = p + 1 /\ r2 = r
    \/ p = n /\ p2 = 1 /\ r2 = r + 1

LEMMA PlayedOnce ==
    ASSUME NEW n \in Nat, NEW p \in 1 .. n, NEW r \in Nat, NEW p2, NEW r2,
           GoesOn(n, p, r, p2, r2), NEW k \in 1 .. n
    PROVE  Times(r2, p2, k) = IF k = p THEN Times(r, p, k) + 1 ELSE Times(r, p, k)
<1>1. CASE p < n /\ p2 = p + 1 /\ r2 = r
  BY <1>1 DEF Times
<1>2. CASE p = n /\ p2 = 1 /\ r2 = r + 1
  BY <1>2 DEF Times
<1>3. QED
  BY <1>1, <1>2 DEF GoesOn

LEMMA SameOrder ==
    ASSUME NEW i \in Int, NEW j \in Int, NEW x \in Int, NEW y \in Int,
           i < j => x < y, j < i => y < x, i = j => x = y
    PROVE  i < j <=> x < y
OBVIOUS

After(old, w) == [old EXCEPT !.played = @ + 1, !.lead = @ + w]
LEMMA OneMore ==
    ASSUME NEW a, NEW b, NEW w, NEW old, old = [played |-> a, lead |-> b]
    PROVE  After(old, w) = [played |-> a + 1, lead |-> b + w]
<1> DEFINE y == [old EXCEPT !.played = @ + 1]
<1>1. y = [played |-> a + 1, lead |-> b]
  OBVIOUS
<1>2. [old EXCEPT !.played = @ + 1, !.lead = @ + w] = [y EXCEPT !.lead = @ + w]
  OBVIOUS
<1> HIDE DEF y
<1>3. [y EXCEPT !.lead = @ + w] = [played |-> a + 1, lead |-> b + w]
  BY <1>1
<1>4. QED
  BY <1>2, <1>3 DEF After

\* A round adds one to what its match has played, and leaves the others alone.
LEMMA RulesRound ==
    ASSUME GameInv, GameInv', ReadMove, turn.side # 1 PROVE Rules!Round
<1>1. MatchInv /\ MatchInv' /\ MoveInv /\ MoveInv' /\ Rounds /\ Rounds' /\ pc = "read"
  BY DEF GameInv, MoveInv, ReadMove
<1>2. Over = "no" /\ Over' = Over
  BY <1>1, Running DEF ReadMove, Over
<1> DEFINE n == Len(pairs)
           k0 == turn.pair
           m == pairs[k0]
           P(k) == Times(turn.round, turn.pair, k)
<1>3. /\ k0 \in 1 .. n /\ n \in Nat /\ turn.round \in 1 .. ROUNDS /\ ROUNDS \in Nat
      /\ Len(points) = n /\ points \in Seq(Int \X Int) /\ pairs \in Seq(Ids \X Ids)
      /\ out \in Chars \X Chars /\ UNCHANGED <<active, pairs>>
  BY <1>1, TypesSplit, UmpireAssumption
     DEF MatchInv, Opposed, UmpireTypes, Rounds, ReadMove
<1> HIDE DEF n
<1>23. k0 \in Nat /\ turn.round \in Nat /\ turn.round <= ROUNDS /\ k0 <= n /\ 1 <= k0
  BY <1>3
<1>24. \A k \in 1 .. n : k \in Nat /\ pairs[k] \in Ids \X Ids
  BY <1>3 DEF n
<1>4. PICK c \in ReadChars(Opponent) :
         /\ out' = <<out[1], c>>
         /\ \E pt \in Scores(points[k0], out[1], c) : points' = [points EXCEPT ![k0] = pt]
         /\ NextRound
  BY DEF ReadMove
<1>5. PICK pt \in Scores(points[k0], out[1], c) : points' = [points EXCEPT ![k0] = pt]
  BY <1>4
<1>6. out'[1] = out[1] /\ out'[2] = c /\ out[1] \in Chars /\ c \in Chars
  <2>1. out' \in Chars \X Chars
    BY <1>1, TypesSplit DEF MatchInv, Typed, TypeOK
  <2>2. QED
    BY <1>3, <1>4, <2>1
<1>7. points[k0] \in Int \X Int
  BY <1>3
<1>8. PICK win \in Rules!getResult(out[1], c) :
         win \in Int /\ pt[1] - pt[2] = (points[k0][1] - points[k0][2]) + win
  BY <1>6, <1>7, ScoreRules
<1>9. Known(Games, pairs, turn, points) /\ Known(Games', pairs, turn', points')
  <2>1. InOrder(pairs) /\ InOrder(pairs')
    BY <1>1 DEF Rounds, InOrder, n
  <2>2. QED
    BY <1>1, <1>3, <2>1, GamesKnown
<1>10. \A k \in 1 .. n : Times(turn'.round, turn'.pair, k) = IF k = k0 THEN P(k) + 1 ELSE P(k)
  <2>1. GoesOn(n, k0, turn.round, turn'.pair, turn'.round)
    BY <1>1, <1>4, NextMatch DEF n, GoesOn
  <2>2. QED
    BY <1>3, <1>23, <2>1, PlayedOnce
<1>11. \A k \in 1 .. n : P(k) \in Int /\ P(k) = P(k0) + (IF k < k0 THEN 1 ELSE 0)
  BY <1>23, <1>24 DEF Times
<1>12. P(k0) < ROUNDS
  BY <1>3, <1>23 DEF Times
<1>13. \A k \in 1 .. n : k < k0 <=> pairs[k][1] < m[1]
  <2> TAKE k \in 1 .. n
  <2>1. k < k0 => pairs[k][1] < m[1]
    BY <1>1, <1>3 DEF Rounds, InOrder, n
  <2>2. k0 < k => m[1] < pairs[k][1]
    BY <1>1, <1>3 DEF Rounds, InOrder, n
  <2>3. pairs[k][1] \in Int /\ m[1] \in Int
    <3>1. k0 \in 1 .. n
      BY <1>3
    <3>2. pairs[k] \in Ids \X Ids /\ m \in Ids \X Ids
      BY <1>24, <3>1
    <3> HIDE DEF m
    <3>3. QED
      BY <3>2, UmpireAssumption DEF Ids
  <2> HIDE DEF m
  <2>5. k = k0 => pairs[k][1] = m[1]
    BY DEF m
  <2>6. k \in Int /\ k0 \in Int
    BY <1>23, <1>24
  <2>7. QED
    BY <2>1, <2>2, <2>3, <2>5, <2>6, SameOrder
<1> DEFINE L(k) == points[k][1] - points[k][2]
<1>14. /\ DOMAIN Games = {pairs[k] : k \in 1 .. n}
       /\ \A k \in 1 .. n : Games[pairs[k]] = [played |-> P(k), lead |-> L(k)]
       /\ \A k, l \in 1 .. n : pairs[k] = pairs[l] => k = l
  BY <1>3, <1>9 DEF Known, n, Times
<1>15. /\ DOMAIN Games' = {pairs[k] : k \in 1 .. n}
       /\ \A k \in 1 .. n : Games'[pairs[k]] =
            [played |-> IF k = k0 THEN P(k) + 1 ELSE P(k),
             lead |-> IF k = k0 THEN L(k) + win ELSE L(k)]
  <2>1. \A k \in 1 .. n : points'[k] = IF k = k0 THEN pt ELSE points[k]
    BY <1>3, <1>5
  <2>2. \A k \in 1 .. n : points'[k][1] - points'[k][2] = IF k = k0 THEN L(k) + win ELSE L(k)
    BY <1>8, <2>1
  <2> HIDE DEF P, L
  <2>3. \A k \in 1 .. n : Games'[pairs[k]] =
           [played |-> Times(turn'.round, turn'.pair, k),
            lead |-> points'[k][1] - points'[k][2]]
    BY <1>3, <1>9 DEF Known, n, Times
  <2>4. DOMAIN Games' = {pairs[k] : k \in 1 .. n}
    BY <1>3, <1>9 DEF Known, n, Times
  <2>5. QED
    BY <1>10, <2>2, <2>3, <2>4
<1>16. Games = [x \in DOMAIN Games |-> Games[x]] /\ Games' = [x \in DOMAIN Games' |-> Games'[x]]
  BY DEF Games
<1> HIDE DEF P, L, n, k0, m
<1>17. m = pairs[k0]
  BY DEF m
<1>18. Games' = [Games EXCEPT ![m].played = @ + 1, ![m].lead = @ + win]
  <2> DEFINE old == Games[m]
             E == [Games EXCEPT ![m] = [played |-> P(k0) + 1, lead |-> L(k0) + win]]
  <2>1. old = [played |-> P(k0), lead |-> L(k0)] /\ m \in DOMAIN Games
    BY <1>3, <1>14, <1>17
  <2>2. [Games EXCEPT ![m].played = @ + 1, ![m].lead = @ + win] = E
    <3>1. [Games EXCEPT ![m].played = @ + 1, ![m].lead = @ + win]
             = [Games EXCEPT ![m] = After(old, win)]
      BY <1>16, <2>1 DEF After
    <3> HIDE DEF old
    <3>2. After(old, win) = [played |-> P(k0) + 1, lead |-> L(k0) + win]
      BY <2>1, OneMore
    <3>3. QED
      BY <3>1, <3>2
  <2>3. \A k \in 1 .. n : Games'[pairs[k]] = E[pairs[k]]
    <3> TAKE k \in 1 .. n
    <3>1. CASE k = k0
      BY <1>3, <1>14, <1>15, <1>16, <1>17, <3>1
    <3>2. CASE k # k0
      <4>1. pairs[k] # m /\ pairs[k] \in DOMAIN Games
        BY <1>3, <1>14, <1>17, <3>2
      <4>2. E[pairs[k]] = Games[pairs[k]]
        BY <1>16, <4>1
      <4>3. QED
        BY <1>14, <1>15, <3>2, <4>2
    <3>3. QED
      BY <3>1, <3>2
  <2>4. DOMAIN E = DOMAIN Games /\ E = [x \in DOMAIN Games |-> E[x]]
    BY <1>16
  <2> HIDE DEF E
  <2>5. \A x \in DOMAIN Games : Games'[x] = E[x]
    BY <1>14, <2>3
  <2>6. Games' = E
    BY <1>14, <1>15, <1>16, <2>4, <2>5
  <2>7. QED
    BY <2>2, <2>6
<1>25. Games[m] = [played |-> P(k0), lead |-> L(k0)]
  BY <1>3, <1>14, <1>17
<1>19. m \in DOMAIN Games /\ Games[m].played = P(k0)
  <2>1. m \in DOMAIN Games
    BY <1>3, <1>14, <1>17
  <2> HIDE DEF Games
  <2>2. QED
    BY <1>25, <2>1
<1>20. \A other \in DOMAIN Games :
          Games[other].played = P(k0) + IF other[1] < m[1] THEN 1 ELSE 0
  <2> TAKE other \in DOMAIN Games
  <2>1. PICK k \in 1 .. n : other = pairs[k]
    BY <1>14
  <2>2. Games[other] = [played |-> P(k), lead |-> L(k)]
    BY <1>14, <2>1
  <2>3. P(k) = P(k0) + IF other[1] < m[1] THEN 1 ELSE 0
    BY <1>11, <1>13, <2>1
  <2>4. Games[other].played = P(k)
    <3> HIDE DEF Games
    <3>1. QED
      BY <2>2
  <2>5. QED
    BY <2>3, <2>4
<1>21. active' = active
  BY <1>3
<1> HIDE DEF Games, Over
<1>22. QED
  BY <1>2, <1>6, <1>8, <1>12, <1>18, <1>19, <1>20, <1>21 DEF Rules!Round

LEMMA RulesShow ==
    ASSUME GameInv, GameInv', ReadMove, turn.side = 1 PROVE Rules!Show
<1>1. MatchInv /\ MoveInv /\ pc = "read" /\ InOrder(pairs)
  BY DEF GameInv, MoveInv, ReadMove, Rounds
<1>2. Over = "no" /\ Over' = Over
  BY <1>1, Running DEF ReadMove, Over
<1>3. PICK c \in ReadChars(Opponent) :
         out' = <<c, out[2]>> /\ turn' = [turn EXCEPT !.side = 2] /\ points' = points
  BY DEF ReadMove
<1>4. turn'.round = turn.round /\ turn'.pair = turn.pair
  BY <1>1, <1>3, TurnTyped
<1>5. UNCHANGED <<active, pairs>>
  BY DEF ReadMove
<1>6. Games' = Games
  BY <1>3, <1>4, <1>5, SameGames
<1>7. DOMAIN Games # {}
  <2>1. turn.pair \in 1 .. Len(pairs) /\ Known(Games, pairs, turn, points)
    BY <1>1, GamesKnown DEF MatchInv, Opposed
  <2> HIDE DEF Games
  <2>2. pairs[turn.pair] \in DOMAIN Games
    BY <2>1 DEF Known
  <2>3. QED
    BY <2>2
<1>8. out'[2] = out[2]
  BY <1>3
<1> HIDE DEF Games, Over
<1>9. QED
  BY <1>2, <1>5, <1>6, <1>7, <1>8 DEF Rules!Show

\* When the umpire decides, every match has had all its rounds.
LEMMA DecidedAtEnd ==
    ASSUME GameInv, pc = "decide" PROVE DOMAIN Games # {} /\ Rules!AllPlayed
<1>1. /\ MatchInv /\ InOrder(pairs) /\ turn.round = ROUNDS + 1 /\ turn.pair = 1
      /\ Len(pairs) >= 1 /\ Len(pairs) \in Nat /\ ROUNDS \in Nat
  BY TypesSplit, UmpireAssumption
     DEF GameInv, MoveInv, Rounds, MatchInv, Opposed, UmpireTypes
<1>2. Known(Games, pairs, turn, points)
  BY <1>1, GamesKnown
<1>3. DOMAIN Games = {pairs[k] : k \in 1 .. Len(pairs)}
      /\ \A k \in 1 .. Len(pairs) : Games[pairs[k]] =
            [played |-> turn.round - (IF k < turn.pair THEN 0 ELSE 1),
             lead |-> points[k][1] - points[k][2]]
  BY <1>2 DEF Known
<1> HIDE DEF Games
<1>4. ASSUME NEW k \in 1 .. Len(pairs) PROVE Games[pairs[k]].played = ROUNDS
  <2>1. turn.round - (IF k < turn.pair THEN 0 ELSE 1) = ROUNDS
    BY <1>1
  <2> DEFINE g == Games[pairs[k]]
  <2>2. g = [played |-> ROUNDS, lead |-> points[k][1] - points[k][2]]
    BY <1>3, <2>1
  <2> HIDE DEF g
  <2>3. g.played = ROUNDS
    BY <2>2
  <2>4. QED
    BY <2>3 DEF g
<1>5. 1 \in 1 .. Len(pairs)
  BY <1>1
<1>6. QED
  BY <1>3, <1>4, <1>5 DEF Rules!AllPlayed

\* Those who lose are those whom the lead of their match says.
LEMMA LosersTrail ==
    ASSUME GameInv
    PROVE  Losers = {IF Games[m].lead >= 0 THEN m[2] ELSE m[1] : m \in DOMAIN Games}
<1>1. /\ MatchInv /\ InOrder(pairs) /\ Len(points) = Len(pairs)
      /\ points \in Seq(Int \X Int)
  BY TypesSplit DEF GameInv, MoveInv, Rounds, MatchInv, Opposed, UmpireTypes
<1>2. Known(Games, pairs, turn, points)
  BY <1>1, GamesKnown
<1>3. DOMAIN Games = {pairs[k] : k \in 1 .. Len(pairs)}
      /\ \A k \in 1 .. Len(pairs) : Games[pairs[k]] =
            [played |-> turn.round - (IF k < turn.pair THEN 0 ELSE 1),
             lead |-> points[k][1] - points[k][2]]
  BY <1>2 DEF Known
<1> HIDE DEF Games
<1>4. ASSUME NEW k \in 1 .. Len(pairs)
      PROVE  Games[pairs[k]].lead >= 0 <=> points[k][1] >= points[k][2]
  <2>1. points[k] \in Int \X Int
    BY <1>1
  <2> DEFINE g == Games[pairs[k]]
             p == turn.round - (IF k < turn.pair THEN 0 ELSE 1)
  <2>2. g = [played |-> p, lead |-> points[k][1] - points[k][2]]
    BY <1>3
  <2> HIDE DEF g, p
  <2>3. g.lead = points[k][1] - points[k][2]
    BY <2>2
  <2>4. QED
    BY <2>1, <2>3 DEF g
<1>5. {IF Games[m].lead >= 0 THEN m[2] ELSE m[1] : m \in DOMAIN Games}
         = {IF Games[pairs[k]].lead >= 0 THEN pairs[k][2] ELSE pairs[k][1] : k \in 1 .. Len(pairs)}
  BY <1>3
<1>6. QED
  BY <1>4, <1>5 DEF Losers

LEMMA RulesEndLevel == ASSUME GameInv, GameInv', Decide PROVE Rules!EndLevel
<1>1. Over = "no" /\ Over' = Over
  BY Running DEF GameInv, Decide, Over
<1>2. DOMAIN Games # {} /\ Rules!AllPlayed
  BY DecidedAtEnd DEF Decide
<1>3. active' = active \ {IF Games[m].lead >= 0 THEN m[2] ELSE m[1] : m \in DOMAIN Games}
  BY LosersTrail DEF Decide
<1>4. Games' = << >> /\ out' = out
  BY NoGames DEF Decide
<1> HIDE DEF Games, Over
<1>5. QED
  BY <1>1, <1>2, <1>3, <1>4 DEF Rules!EndLevel

LEMMA RulesEnd ==
    ASSUME GameInv, pc # "ended", NEW how \in {"ok", "error", "sigpipe", "crash"}, Exit(how),
           UNCHANGED <<turn, active, pairs, points, out>>,
           how = "ok" => \/ Cardinality(active) = 1
                         \/ active = {0, 1} /\ DOMAIN Games # {} /\ Rules!AllPlayed
    PROVE  Rules!End
<1>1. Over = "no"
  BY Running DEF GameInv
<1>2. Over' \in {"yes", "failed"} /\ (Over' = "yes" => how = "ok")
  BY DEF Exit, Over
<1>3. Games' = Games
  BY SameGames
<1>4. how = "ok" => \/ Rules!Cardinality(active) = 1
                    \/ Rules!Cardinality(active) = 2 /\ DOMAIN Games # {} /\ Rules!AllPlayed
  BY TwoMeet, SameCardinality
<1> HIDE DEF Games, Over
<1>5. QED
  BY <1>1, <1>2, <1>3, <1>4 DEF Rules!End

LEMMA RulesFinish == ASSUME GameInv, Finish PROVE Rules!End
<1>1. Exit("ok") /\ pc # "ended" /\ UNCHANGED <<turn, active, pairs, points, out>>
  BY DEF Finish
<1>2. CASE pc = "decide" /\ program = "umpire"
  <2>1. active = {0, 1} /\ DOMAIN Games # {} /\ Rules!AllPlayed
    BY <1>2, DecidedAtEnd DEF GameInv, Rounds
  <2>2. QED
    BY <1>1, <2>1, RulesEnd
<1>3. CASE rem = 1
  <2>1. Cardinality(active) = 1
    BY <1>3 DEF GameInv, MoveInv, MatchInv, Counted
  <2>2. QED
    BY <1>1, <2>1, RulesEnd
<1>4. QED
  BY <1>2, <1>3 DEF Finish

LEMMA RulesFailure ==
    ASSUME GameInv, PathOverrun \/ SetupFails \/ (SendGo /\ ~ IsOpen(<<"writes", Opponent, 0>>))
    PROVE  Rules!End
<1>1. PICK how \in {"error", "sigpipe", "crash"} :
         Exit(how) /\ pc # "ended" /\ UNCHANGED <<turn, active, pairs, points, out>>
  BY DEF PathOverrun, SetupFails, SendGo
<1>2. QED
  BY <1>1, RulesEnd

\* The step of the game that a step of the umpire or of a player is.
LEMMA RulesNext ==
    ASSUME GameInv, GameInv', [Next]_vars, StackValues = {0}
    PROVE  Rules!Next \/ UNCHANGED <<active, Games, out, Over>>
<1>1. turn \in [child : 0 .. MAX_PLAYERS, round : Nat, pair : Nat, side : {1, 2}]
  BY TurnTyped DEF GameInv, MoveInv
<1>2. CASE UNCHANGED umpire
  BY <1>2, SameGames DEF umpire, Over
<1>3. CASE Fork
  <2>1. turn'.round = turn.round /\ turn'.pair = turn.pair
    BY <1>1, <1>3 DEF Fork
  <2>2. QED
    BY <1>3, <2>1, SameGames DEF Fork, Over
<1>4. CASE SendGo
  <2>1. CASE IsOpen(<<"writes", Opponent, 0>>)
    <3>1. turn'.round = turn.round /\ turn'.pair = turn.pair
      BY <1>1, <1>4, <2>1 DEF SendGo
    <3>2. QED
      BY <1>4, <2>1, <3>1, SameGames DEF SendGo, Over
  <2>2. QED
    BY <1>4, <2>1, RulesFailure DEF Rules!Next
<1>5. CASE ReadMove
  BY <1>5, RulesShow, RulesRound DEF Rules!Next
<1>6. ASSUME NEW i \in Ids, PlayerStep(i) \/ ExecFails(i) \/ Quit(i) PROVE UNCHANGED umpire
  BY <1>6 DEF PlayerStep, ExecFails, Quit, Exec, ReadGo, EndOfGame, MakeMove
<1>7. CASE StartLevel \/ StartMatch \/ Decide \/ Finish \/ PathOverrun \/ SetupFails
  BY <1>7, RulesLevel, RulesMatch, RulesEndLevel, RulesFinish, RulesFailure DEF Rules!Next
<1>8. CASE UNCHANGED vars
  BY <1>2, <1>8 DEF vars
<1>9. QED
  BY <1>2, <1>3, <1>4, <1>5, <1>6, <1>7, <1>8 DEF Next, UmpireStep

\* However many players and rounds there are, whichever walk-overs are drawn and
\* whoever fails to start or quits, the umpires play by the rules of the assignment:
\* neighbours meet, rounds alternate, a tie is the first player's, and the game ends
\* with one player left.  Only the second player's points must start at 0, which the
\* code leaves to what is on the stack.
THEOREM PlaysByTheRules == StackValues = {0} => (Spec => ImplementsKnockout)
<1> SUFFICES ASSUME StackValues = {0} PROVE Spec => ImplementsKnockout
  OBVIOUS
<1>1. Init => Rules!Init
  <2> SUFFICES ASSUME Init PROVE Rules!Init
    OBVIOUS
  <2>1. pairs = << >> /\ status = "running"
    BY DEF Init
  <2>2. Games = << >> /\ Over = "no"
    BY <2>1, NoGames DEF Over
  <2> HIDE DEF Games, Over
  <2>3. QED
    BY <2>2 DEF Rules!Init
<1>2. GameInv /\ GameInv' /\ [Next]_vars => [Rules!Next]_<<active, Games, out, Over>>
  BY RulesNext
<1>3. Spec => []GameInv
  BY GameInvHolds
<1>4. QED
  BY <1>1, <1>2, <1>3, PTL DEF Spec, ImplementsKnockout, Rules!Spec, Rules!vars
=============================================================================
