----------------------------- MODULE MCSingleProc -----------------------------
(* Constants for the runs of SingleProc: what the clients may type.         *)
EXTENDS SingleProc, TLC

cmd(r, w, i, b) == [rd |-> r, wr |-> w, in |-> i, big |-> b]
run(stages)     == [op |-> "run", stages |-> stages]
op(o)           == [op |-> o]
call(n)         == [op |-> "name", arg |-> n]
tell(i)         == [op |-> "tell", to |-> i]
set(v, x)       == [op |-> "setenv", var |-> v, val |-> x]

(* ls >w, cat <r, cat <r >w, and their longer forms.                        *)
to(w)           == run(<<cmd(-1, w, FALSE, FALSE)>>)
from(r)         == run(<<cmd(r, -1, TRUE, FALSE)>>)
through(r, w)   == run(<<cmd(r, w, TRUE, FALSE)>>)
big(w)          == run(<<cmd(-1, w, FALSE, TRUE)>>)
pipeline(r, w)  == run(<<cmd(r, -1, TRUE, FALSE), cmd(-1, w, TRUE, FALSE)>>)

CONSTANTS n1, n2, TERM, xterm

Sym == Permutations(Session)

(* Of the order in which sessions came only that of the users in the table  *)
(* matters, and what a session sent does not once it is over.               *)
Place == [s \in Session |-> IF s \in users
                            THEN Cardinality({t \in users : arrival[t] <= arrival[s]}) ELSE 0]
Typed == [s \in Session |-> IF link[s] = "gone" THEN 0 ELSE sent[s]]
View  == <<Place, Typed, pc, users, id_num, fd, is_closed, name, env_var, user_pipe, fds, todo,
           exec, environ, cout_bad, link, inbox, heard>>

(* Clients that follow the assignment, with every command; output that does *)
(* not fit a pipe, a stage that fails behind one that waits; and lines the  *)
(* parser dies of.                                                          *)
SerialInputs == {op("exit"), to(1), to(2), from(1), from(2), pipeline(1, 2), through(2, 1),
                 call(n1), tell(2), op("yell"), op("show"), op("empty"), set(TERM, xterm), big(1),
                 run(<<cmd(-1, -1, TRUE, FALSE), cmd(-1, 9, TRUE, FALSE)>>)}
                \cup {op(o) : o \in Fatal}

(* Clients that talk and leave in any way, at once.                         *)
TalkInputs == {op("exit"), tell(1)}

(* Lines whose waits can end: `cat <2 | cat big | cat`, `ls | cat >1`.  The *)
(* pipes they make have numbers above all sockets.                          *)
LiveInputs == {op("exit"),
               run(<<cmd(2, -1, TRUE, FALSE), cmd(-1, -1, FALSE, TRUE), cmd(-1, -1, TRUE, FALSE)>>),
               run(<<cmd(-1, -1, FALSE, FALSE), cmd(-1, 1, TRUE, FALSE)>>)}

(* For the run that shows a disagreement.                                   *)
SelectInputs == {op("yell")}
===============================================================================
