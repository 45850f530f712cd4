----------------------------- MODULE MCCommands -----------------------------
(* Two directories with a few programs, and the lines of an input.           *)
EXTENDS CommandsProperties

Called == {"ls", "fails", "quiet", "twice", "full", "nul", "?"}
Written == {"l", "s", "t", "f", "n", "x", "U", "o", "d", "g", NUL}

Prints(w, c) == [writes |-> w, code |-> c]

\* ls is in bin, and another ls in ubin; fails exits with 1.
Bin == [n \in Called |->
    CASE n = "ls" -> Prints(<< <<"l", "s">> >>, 0)
      [] n = "twice" -> Prints(<< <<"t">>, <<"t">> >>, 0)
      [] n = "full" -> Prints(<< <<"f", "f", "f">>, <<"f">> >>, 0)
      [] n = "nul" -> Prints(<< <<"n", NUL>> >>, 0)
      [] OTHER -> NULL]
UBin == [n \in Called |->
    CASE n = "fails" -> Prints(<< <<"x">> >>, 1)
      [] n = "ls" -> Prints(<< <<"l">> >>, 0)
      [] n = "quiet" -> Prints(<<>>, 0)
      [] OTHER -> NULL]
Directories == [d \in {"bin", "ubin"} |-> IF d = "bin" THEN Bin ELSE UBin]

Line(n) == [name |-> n, long |-> FALSE, newline |-> TRUE]
Inputs == {Line(n) : n \in {"ls", "fails", "quiet", "twice", "full", "nul"}}
    \cup {[Line("ls") EXCEPT !.long = TRUE], [Line("ls") EXCEPT !.newline = FALSE]}

SearchPaths == {<<>>, <<"bin", "ubin">>}
Before == {<<"o", "l", "d">>}
Memory == {Closed, Input, Output, Negative, 1}
Left == {<<"g">>}
=============================================================================
