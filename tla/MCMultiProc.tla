----------------------------- MODULE MCMultiProc ------------------------------
(* Constants for the runs of MultiProc: what the clients may type.          *)
EXTENDS MultiProc, TLC

CONSTANT n1

op(o)         == [op |-> o]
call(n)       == [op |-> "name", arg |-> n]
tell(i)       == [op |-> "tell", to |-> i]
run(stages)   == [op |-> "run", stages |-> stages]
cmd(r, w)     == [rd |-> r, wr |-> w]
to(w)         == run(<<cmd(-1, w)>>)
from(r)       == run(<<cmd(r, -1)>>)
through(r, w) == run(<<cmd(r, w)>>)

Sym == Permutations(Session)

(* Clients that take turns: all they can do.                                *)
SerialInputs == {op("exit"), op("local"), call(n1), tell(1), op("yell"), to(1), to(2), to(9),
                 from(1), from(2), through(2, 1), run(<<cmd(1, -1), cmd(-1, 2)>>)}

(* Clients that act at once and never type exit or name.                    *)
TalkInputs == {op("badnum"), to(1), to(2), from(1), through(2, 1)}

(* For the run that shows a disagreement.                                   *)
LostInputs == {to(1), to(2), through(2, 1)}
===============================================================================
