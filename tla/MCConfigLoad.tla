----------------------------- MODULE MCConfigLoad -----------------------------
(***************************************************************************)
(* Two loaders, two IDs, one name and three functions for TLC.             *)
(***************************************************************************)
EXTENDS ConfigLoad

CONSTANTS x, y,  \* IDs
          f      \* a name

Text(fields) == [macro |-> "", fields |-> fields]
Minutely == [macro |-> "@minutely", fields |-> <<<<Other>>>>]
Secondly == Text([n \in 1..6 |-> Any])
Never == Text(<<<<0>>, <<0>>, <<30>>, <<2>>, Any>>)
Garbled == Text(<<<<Other>>>>)

MCExpr == {Minutely, Secondly, Never, Garbled}
MCUnsatisfiable == {Never}

Plain(i) == [id |-> i, expr |-> Minutely, func |-> f, timeout |-> None, retry |-> 0,
             location |-> None, enableSeconds |-> FALSE, enableYears |-> FALSE]

\* Two good entries in either order, one ID twice, and an entry in the middle
\* that is wrong in one of the ways there are.
MCConfig ==
    {<<>>,
     <<Plain(x), Plain(y)>>, <<Plain(y), Plain(x)>>,
     <<[Plain(x) EXCEPT !.timeout = -1, !.retry = -1, !.location = Local], Plain(x)>>,
     <<[Plain(x) EXCEPT !.expr = Secondly, !.enableSeconds = TRUE, !.timeout = 1, !.retry = 2]>>}
    \cup {<<Plain(x), bad, Plain(y)>> :
             bad \in {[Plain(y) EXCEPT !.id = None], [Plain(y) EXCEPT !.func = None],
                      [Plain(y) EXCEPT !.timeout = Other], [Plain(y) EXCEPT !.location = Other],
                      [Plain(y) EXCEPT !.expr = None], [Plain(y) EXCEPT !.expr = Never],
                      [Plain(y) EXCEPT !.expr = Garbled],
                      [Plain(y) EXCEPT !.enableYears = TRUE]}}

T == INSTANCE TLC
Symmetry == T!Permutations(Loader)
=============================================================================
