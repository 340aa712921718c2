------------------------------- MODULE MCExeBin -------------------------------
(* Constants for the runs of ExeBin: what each user may type.               *)
EXTENDS ExeBin, TLC

tok(t)   == [t |-> t, n |-> 0]
cat      == tok("cat")
ls       == tok("ls")
bar      == tok("|")
into     == tok(">")
num(k)   == [t |-> "num", n |-> k]
to(u)    == [t |-> "to", n |-> u]
from(u)  == [t |-> "from", n |-> u]

(* User 1 uses number pipes, alone and in the middle of a line, user pipes  *)
(* and pipelines; user 2 answers.  A line reads number pipes in its first   *)
(* commands only, and none of them behind a command that waits for input.   *)
LineInputs == 1 :> {<<ls, num(1)>>, <<ls, num(3)>>, <<cat, num(1)>>, <<cat>>,
                    <<ls, num(1), cat, bar, cat>>, <<ls, num(2), ls, num(1), cat, into, ls>>,
                    <<ls, bar, cat, to(2)>>}
           @@ 2 :> {<<cat, from(1)>>, <<cat, from(1), num(1)>>, <<ls, num(1)>>,
                    <<ls, bar, cat, from(1), to(1)>>}

PipeNames == 1..30

(* Both sorts of pipes in one conversation.                                 *)
StrayInputs == 1 :> {<<ls, num(1)>>, <<cat, to(2)>>} @@ 2 :> {<<cat, from(1)>>}
===============================================================================
