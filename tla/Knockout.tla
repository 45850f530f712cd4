------------------------------ MODULE Knockout ------------------------------
(***************************************************************************)
(* What the assignment asks of an umpire: in each level the active players *)
(* meet in pairs, in increasing order, one of an odd number staying out;   *)
(* the rounds of the matches alternate; a move beats another by the rules  *)
(* of the game; the loser of a match, or in a tie the second player, is    *)
(* out.  No processes, no pipes.                                           *)
(***************************************************************************)
EXTENDS Integers, FiniteSets, Functions

CONSTANT ROUNDS

VARIABLES
    active,  \* the players who have lost no match
    games,   \* match -> rounds played and the first player's lead
    shown,   \* the moves last revealed
    over     \* "no", "yes" or "failed"

vars == <<active, games, shown, over>>

Init ==
    /\ games = <<>>
    /\ over = "no"

\* WIN, TIE and LOSE of the first move as 1, 0 and -1: what getResult says.
getResult(my, their) ==
    CASE my = their -> {0}
      [] <<my, their>> \in {<<"1", "0">>, <<"0", "2">>, <<"2", "1">>} -> {1}
      [] <<my, their>> \in {<<"0", "1">>, <<"2", "0">>, <<"1", "2">>} -> {-1}
      [] OTHER -> {-1, 0, 1}

\* Neighbours in increasing order, the first of them at an even place.
Opponents(S) ==
    {m \in S \X S :
        /\ m[1] < m[2]
        /\ \A p \in S : p <= m[1] \/ p >= m[2]
        /\ Cardinality({p \in S : p < m[1]}) % 2 = 0}

StartLevel ==
    /\ over = "no" /\ DOMAIN games = {} /\ Cardinality(active) > 1
    /\ \E out \in SUBSET active :
         /\ Cardinality(out) = Cardinality(active) % 2
         /\ games' = [m \in Opponents(active \ out) |-> [played |-> 0, lead |-> 0]]
    /\ UNCHANGED <<active, shown, over>>

\* The first player of the next match shows its move, then the second does.
Show ==
    /\ over = "no" /\ DOMAIN games # {}
    /\ shown'[2] = shown[2]
    /\ UNCHANGED <<active, games, over>>

Round ==
    /\ over = "no"
    /\ \E m \in DOMAIN games :
         /\ games[m].played < ROUNDS
         /\ \A other \in DOMAIN games :
              games[other].played = games[m].played + IF other[1] < m[1] THEN 1 ELSE 0
         /\ shown'[1] = shown[1]
         /\ \E win \in getResult(shown[1], shown'[2]) :
              games' = [games EXCEPT ![m].played = @ + 1, ![m].lead = @ + win]
    /\ UNCHANGED <<active, over>>

AllPlayed == \A m \in DOMAIN games : games[m].played = ROUNDS

EndLevel ==
    /\ over = "no" /\ DOMAIN games # {} /\ AllPlayed
    /\ active' = active \ {IF games[m].lead >= 0 THEN m[2] ELSE m[1] : m \in DOMAIN games}
    /\ games' = <<>>
    /\ UNCHANGED <<shown, over>>

\* The game ends when one player is left, or with its only match.
End ==
    /\ over = "no" /\ over' \in {"yes", "failed"}
    /\ over' = "yes" => \/ Cardinality(active) = 1
                        \/ Cardinality(active) = 2 /\ DOMAIN games # {} /\ AllPlayed
    /\ UNCHANGED <<active, games, shown>>

Next == StartLevel \/ Show \/ Round \/ EndLevel \/ End

Spec == Init /\ [][Next]_vars
=============================================================================
