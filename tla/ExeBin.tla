-------------------------------- MODULE ExeBin --------------------------------
(***************************************************************************)
(* exe_bin of np_single_proc and split_by_pipe before it, down to the      *)
(* descriptors: how the line of a user becomes commands, which pipes and   *)
(* children the server makes for them, who holds which end of which pipe,  *)
(* and how the counters of number pipes run down from line to line.        *)
(*                                                                         *)
(* The server serves one line at a time (SingleProc); the children it does *)
(* not wait for run on beside it.  The users are there all the time.  A    *)
(* descriptor is a number because the program closes by number, also       *)
(* numbers it has closed before; dup and pipe return the lowest free ones. *)
(* A pipe holds the set of the jobs whose output is in it and is never     *)
(* full.  A command reads its standard input to the end (cat) or not at    *)
(* all (ls), then writes and exits; all commands are known.  "!" differs   *)
(* from "|" in stderr only and is not told apart.                          *)
(***************************************************************************)
EXTENDS Integers, FiniteSets, Sequences, SequencesExt, FiniteSetsExt, Functions

CONSTANTS
  User,         \* ids of the users
  Inputs,       \* the lines each user may type, as sequences of tokens
  MaxLines,     \* bound: the lines typed in all
  TempPipes,    \* temporary pipes of a line (5)
  MaxFd,        \* bound: descriptors, enough for every line of Inputs
  Pipes,        \* bound: names for the pipes that exist at a time
  Mixed,        \* user pipes are used while number pipes of the user wait
  None

(* Words are "cat" and "ls"; "|", "num" (|n), ">", "to" (>n), "from" (<n).  *)
Token == [t : {"cat", "ls", "|", "num", ">", "to", "from"}, n : Nat]

ASSUME UserAssumption  == User \subseteq Nat \ {0} /\ IsFiniteSet(User)
(* What the parser dies of is not among the lines, see Fatal in SingleProc.  *)
ASSUME InputAssumption ==
  /\ DOMAIN Inputs = User
  /\ \A u \in User : \A l \in Inputs[u] :
       /\ l \in Seq(Token) /\ Len(l) > 0
       /\ \A k \in DOMAIN l : l[k].t = ">" => k < Len(l) /\ l[k + 1].t \notin {"|", "num", ">"}
ASSUME BoundAssumption == /\ {MaxLines, TempPipes, MaxFd} \subseteq Nat /\ TempPipes > 0
                          /\ MaxFd >= 3 + Cardinality(User)
                          /\ Pipes \subseteq Nat /\ IsFiniteSet(Pipes) /\ Mixed \in BOOLEAN
                          /\ None \notin Pipes \cup User

Other   == <<None, "-">>             \* a socket, a file or the terminal
Ends    == (Pipes \X {"r", "w"}) \cup {Other}
Base    == 0..(3 + Cardinality(User))
NoPair  == <<-1, -1>>
Pair    == (-1..MaxFd) \X (-1..MaxFd)

VARIABLES
  pc, cur, i,                  \* where the server is: whose line, which command
  cmds,                        \* user_info::cmds of every user
  user_pipe,                   \* user_info::user_pipe
  tab,                         \* the open descriptors of the server
  temp, temp_id, fresh,        \* temp_fd_arr; is_new_temp
  stop_pipe, last_pid, pre_pid,
  scratch,                     \* what np_single_proc saved around the line
  data,                        \* what is in each pipe
  procs,                       \* the children
  lines, segs, owed, made      \* history: see FedRight

line  == <<cur, i, temp, temp_id, fresh, stop_pipe, last_pid, pre_pid, scratch>>
ghost == <<lines, segs, owed, made>>
vars  == <<pc, line, cmds, user_pipe, tab, data, procs, ghost>>

-------------------------------------------------------------------------------
(* A set of numbers in ascending order; the elements of s at the places S.  *)
InOrder(S) == [n \in 1..Cardinality(S) |->
                 CHOOSE x \in S : Cardinality({y \in S : y <= x}) = n]
Pick(s, S) == [n \in 1..Cardinality(S) |-> s[InOrder(S)[n]]]

(* The parser: split_by_pipe with parse_user_pipe.                          *)
(* The tokens that hold a user pipe are found first and then removed one by *)
(* one, although each removal moves the ones behind it; erase at the end of *)
(* the vector takes off the last.                                           *)
IsUserPipe(w)   == w.t \in {"to", "from"}
UserPipes(s)    == {k \in DOMAIN s : IsUserPipe(s[k])}
Named(words, t) == LET at == {k \in DOMAIN words : words[k].t = t}
                   IN IF at = {} THEN -1 ELSE words[Max(at)].n

Erase_First(s, k) == RemoveAt(s, IF k <= Len(s) THEN k ELSE 1)
Erase(s, k)       == RemoveAt(s, IF k <= Len(s) THEN k ELSE Len(s))
parse_user_pipe(words) ==
  LET found == InOrder(UserPipes(words))
      left[n \in 0..Len(found)] == IF n = 0 THEN words ELSE Erase(left[n - 1], found[n])
  IN left[Len(found)]

Command(type, num, words) ==
  [type |-> type, num |-> num, rd |-> Named(words, "from"), wr |-> Named(words, "to"),
   words |-> parse_user_pipe(words), typed |-> Pick(words, DOMAIN words \ UserPipes(words)),
   exe |-> FALSE, piped |-> FALSE, fd |-> NoPair,
   job |-> <<0, 0>>, seg |-> 0, first |-> FALSE]

(* The command in front of ">" and the file are not searched for user pipes. *)
Unparsed(type, words) == [Command(type, 0, words) EXCEPT !.rd = -1, !.wr = -1, !.words = words]

(* A command ends at a separator, at the name of a file or with the line.   *)
split_by_pipe(l) ==
  LET seps    == {k \in DOMAIN l : l[k].t \in {"|", "num", ">"}}
      inner   == seps \cup {k + 1 : k \in {j \in seps : l[j].t = ">"}}
      ends    == inner \cup ({Len(l) + 1} \ {k + 1 : k \in inner})
      Past(k) == Max({0} \cup {j \in inner : j < k})
      Words(k) == SubSeq(l, Past(k) + 1, k - 1)
      By(k)   == IF k \in seps THEN l[k].t ELSE IF k <= Len(l) THEN "file" ELSE "line"
      Made(k) == CASE By(k) = "line" -> Command("NO_PIPE", 0, Words(k))
                   [] By(k) = "file" -> Unparsed("F_RED_PIPE", <<l[k]>>)
                   [] By(k) = "|"    -> Command("PIPE", 0, Words(k))
                   [] By(k) = "num"  -> Command("NUM_PIPE", l[k].n, Words(k))
                   [] By(k) = ">"    -> Unparsed("PIPE", Words(k))
  IN [m \in 1..Cardinality(ends) |-> Made(InOrder(ends)[m])]

Reads(c) == c.type = "F_RED_PIPE" \/ (c.words # << >> /\ c.words[1].t = "cat")

-------------------------------------------------------------------------------
(* Descriptors.                                                             *)
Low(S, n)    == {x \in S : Cardinality({y \in S : y < x}) < n}
LowSeq(S, n) == InOrder(Low(S, n))
FreeFd       == (0..MaxFd) \ DOMAIN tab
Held         == Range(tab) \cup UNION {p.held : p \in procs}
FreePipes    == Pipes \ {e[1] : e \in Held}
Room(f, p)   == Cardinality(FreeFd) >= f /\ Cardinality(FreePipes) >= p    \* bound
At(t, f)     == IF f \in DOMAIN t THEN t[f] ELSE Other
Close(t, F)  == Restrict(t, DOMAIN t \ F)
Both(f)      == {f[1], f[2]}

(* n pipes at once: the pairs of numbers, and what they stand for.          *)
PairsIn(fds, n) == [m \in 1..n |-> <<fds[2 * m - 1], fds[2 * m]>>]
EndsOf(pairs)   ==
  LET id == LowSeq(FreePipes, Len(pairs))
  IN [f \in UNION {Both(pairs[m]) : m \in DOMAIN pairs} |->
        LET m == CHOOSE m \in DOMAIN pairs : f \in Both(pairs[m])
        IN IF f = pairs[m][1] THEN <<id[m], "r">> ELSE <<id[m], "w">>]
Merge(t, s)  == [f \in DOMAIN t \cup DOMAIN s |-> IF f \in DOMAIN s THEN s[f] ELSE t[f]]

Init ==
  /\ pc = "read" /\ cur = None /\ i = 0
  /\ cmds = [u \in User |-> << >>]
  /\ user_pipe = [u \in User |-> [v \in User |-> NoPair]]
  /\ tab = [f \in Base |-> Other]
  /\ temp = << >> /\ temp_id = 0 /\ fresh = TRUE
  /\ stop_pipe = TRUE /\ last_pid = None /\ pre_pid = None
  /\ scratch = {}
  /\ data = [p \in Pipes |-> {}]
  /\ procs = {}
  /\ lines = 0 /\ segs = [u \in User |-> 0] /\ owed = [u \in User |-> {}]
  /\ made = [u \in User |-> [v \in User |-> None]]

my      == cmds[cur]
C       == my[i]
AtStage == pc = "stage" /\ i <= Len(my)

-------------------------------------------------------------------------------
(* The head of exe_bin: standard output and error are saved by the caller,  *)
(* stdout_copy, the temporary pipes and one pipe for each new command are   *)
(* opened.  A segment is what a number pipe counts: it ends with a number   *)
(* pipe or with the line.                                                   *)
UsesUserPipe(l) == \E k \in DOMAIN l : IsUserPipe(l[k])

Start(u, l) ==
  LET new   == split_by_pipe(l)
      fds   == LowSeq(FreeFd, 3 + 2 * TempPipes + 2 * Len(new))
      pairs == PairsIn(SubSeq(fds, 4, Len(fds)), TempPipes + Len(new))
      Seg(m) == segs[u] + 1 + Cardinality({k \in 1..(m - 1) : new[k].type = "NUM_PIPE"})
  IN /\ pc = "read" /\ lines < MaxLines
     /\ Room(3 + 2 * TempPipes + 2 * Len(new), TempPipes + Len(new))
     /\ UsesUserPipe(l) /\ ~Mixed => cmds[u] = << >>
     /\ pc' = "stage" /\ cur' = u /\ i' = Len(cmds[u]) + 1
     /\ cmds' = [cmds EXCEPT ![u] = @ \o [m \in DOMAIN new |->
                   [new[m] EXCEPT !.fd = pairs[TempPipes + m], !.job = <<lines + 1, m>>,
                                  !.seg = Seg(m), !.first = m = 1 \/ Seg(m) # Seg(m - 1)]]]
     /\ scratch' = {fds[1], fds[2]}
     /\ temp' = SubSeq(pairs, 1, TempPipes)
     /\ tab' = Merge(Merge(tab, [f \in {fds[1], fds[2], fds[3]} |-> Other]), EndsOf(pairs))
     /\ data' = [p \in Pipes |-> IF p \in FreePipes THEN {} ELSE data[p]]
     /\ temp_id' = 0 /\ fresh' = TRUE /\ stop_pipe' = TRUE
     /\ last_pid' = None /\ pre_pid' = None
     /\ lines' = lines + 1
     /\ segs' = [segs EXCEPT ![u] = Seg(Len(new))]
     /\ UNCHANGED <<user_pipe, procs, owed, made>>

-------------------------------------------------------------------------------
(* collect_num_pipe_output: one cat for each number pipe that has run down, *)
(* all writing into the next temporary pipe.  The child keeps every         *)
(* descriptor but these two pairs.  Past the last temporary pipe the vector *)
(* is read out of its bounds, which the model takes for the end of the      *)
(* server.                                                                  *)
Due(u, j)  == /\ cmds[u][j].type = "NUM_PIPE" /\ ~cmds[u][j].piped
              /\ cmds[u][j].num = 0
NextTemp   == IF fresh THEN temp_id + 1 ELSE temp_id

Collect ==
  /\ AtStage
  /\ \E j \in {j \in 1..(i - 1) : Due(cur, j) /\ \A k \in 1..(j - 1) : ~Due(cur, k)} :
       /\ temp_id' = NextTemp /\ fresh' = FALSE
       /\ \/ /\ NextTemp >= TempPipes
             /\ pc' = "killed"
             /\ UNCHANGED <<cmds, tab, procs>>
          \/ /\ NextTemp < TempPipes
             /\ LET pair == temp[NextTemp + 1]
                    kept == Close(tab, Both(my[j].fd) \cup Both(pair))
                    in   == At(tab, my[j].fd[1])
                    out  == At(tab, pair[2])
                IN procs' = procs \cup
                     {[id |-> my[j].job, kind |-> "collect", reads |-> TRUE, in |-> in,
                       out |-> out, held |-> Range(kept) \cup {in, out}, want |-> {}]}
             /\ cmds' = [cmds EXCEPT ![cur][j].piped = TRUE]
             /\ tab' = Close(tab, Both(my[j].fd))
             /\ pc' = pc
  /\ UNCHANGED <<cur, i, temp, stop_pipe, last_pid, pre_pid, scratch, user_pipe, data, ghost>>

Collected == AtStage /\ \A j \in 1..(i - 1) : ~Due(cur, j)

(* reduce_num_pipes, when the command itself ends in a number pipe.         *)
Down(n) == IF n > 0 THEN n - 1 ELSE n
reduce_num_pipes(s) ==
  IF C.type # "NUM_PIPE" THEN s
  ELSE [k \in DOMAIN s |-> IF k <= i THEN [s[k] EXCEPT !.num = Down(@)] ELSE s[k]]

(* init_rd_user_pp and init_wr_user_pp.                                     *)
CanRead  == C.rd = -1 \/ (C.rd \in User /\ user_pipe[C.rd][cur] # NoPair)
CanWrite == C.wr = -1 \/ (C.wr \in User /\ user_pipe[cur][C.wr] = NoPair)

NextStage == i' = i + 1 /\ fresh' = TRUE

(* A stage whose user pipe fails is given up; its predecessor is waited for. *)
StageFails ==
  /\ Collected /\ ~(CanRead /\ CanWrite)
  /\ cmds' = [cmds EXCEPT ![cur] =
                [reduce_num_pipes(@) EXCEPT ![i].exe = TRUE, ![i].piped = TRUE]]
  /\ pc' = "waitpre"
  /\ UNCHANGED <<line, user_pipe, tab, data, procs, ghost>>

(* Before the first fork pre_pid is uninitialised.  The call fails at once, *)
(* which is this step, or it waits for some child, which is to stay in      *)
(* front of it: nothing here is fair, and the children may go on meanwhile. *)
Running(pid) == \E p \in procs : p.id = pid /\ p.kind = "stage"

WaitPre == /\ pc = "waitpre" /\ ~Running(pre_pid)
           /\ pc' = "stage" /\ NextStage
           /\ UNCHANGED <<cur, temp, temp_id, stop_pipe, last_pid, pre_pid, scratch,
                          cmds, user_pipe, tab, data, procs, ghost>>

-------------------------------------------------------------------------------
(* What the child of fork does until it runs the command: it closes the     *)
(* pipes of the other commands (close_unused_pipe_in_child), takes its      *)
(* standard input and output, and closes what it took them from             *)
(* (exe_command, exe_f_red).  t is the table it inherits, up the user pipes. *)
close_unused_pipe_in_child_ReadOnly(t) ==
  Close(t, {my[j].fd[1] : j \in DOMAIN my \ {i - 1}})
close_unused_pipe_in_child(t) ==
  Close(t, {my[j].fd[1] : j \in DOMAIN my \ {i - 1}} \cup {my[j].fd[2] : j \in DOMAIN my \ {i}})

exe_f_red(t) ==
  LET in   == At(Close(t, Both(temp[temp_id + 1]) \cup Both(C.fd)), my[i - 1].fd[1])
      kept == Close(t, Both(temp[temp_id + 1]) \cup Both(C.fd) \cup {my[i - 1].fd[1]})
  IN [in |-> in, out |-> Other, held |-> Range(kept) \cup {in}]

exe_command(t, up) ==
  LET from == CASE C.rd # -1               -> up[C.rd][cur][1]
                [] C.rd = -1 /\ stop_pipe  -> temp[temp_id + 1][1]
                [] C.rd = -1 /\ ~stop_pipe -> my[i - 1].fd[1]
      in   == At(t, from)
      t1   == Close(t, {from} \cup Both(temp[temp_id + 1]))
      to   == CASE C.wr # -1                          -> {up[cur][C.wr][2]}
                [] C.wr = -1 /\ C.type = "NO_PIPE"    -> {}
                [] C.wr = -1 /\ C.type # "NO_PIPE"    -> {C.fd[2]}
      out  == IF to = {} THEN Other ELSE At(t1, Max(to))
  IN [in |-> in, out |-> out, held |-> Range(Close(t1, to)) \cup {in, out}]

Child(t, up) == IF C.type = "F_RED_PIPE" THEN exe_f_red(close_unused_pipe_in_child(t))
                ELSE exe_command(close_unused_pipe_in_child(t), up)

(* History: whose output the command should find on its standard input.     *)
Wanted == CASE C.rd # -1              -> {made[C.rd][cur]}
            [] C.rd = -1 /\ C.first   -> {o[1] : o \in {x \in owed[cur] : x[2] = C.seg}}
            [] C.rd = -1 /\ ~C.first  -> {k \in {my[i - 1].job} : my[i - 1].job = pre_pid
                                                                  /\ my[i - 1].wr = -1}

(* The parent after fork: the temporary pipe the stage read, and its ends   *)
(* of the user pipes (close_rd_user_pipe, close_wr_user_pipe).              *)
ParentCloses(up) ==
  (IF temp_id # 0 THEN Both(temp[temp_id + 1]) ELSE {})
  \cup (IF C.rd # -1 THEN {up[C.rd][cur][1]} ELSE {})
  \cup (IF C.wr # -1 THEN {up[cur][C.wr][2]} ELSE {})

is_piped_LastOnly == C.type = "NO_PIPE"
is_piped          == C.type # "NUM_PIPE"

StageForks ==
  /\ Collected /\ CanRead /\ CanWrite
  /\ C.wr # -1 => Room(2, 1)
  /\ LET pairs == IF C.wr = -1 THEN << >> ELSE <<LowSeq(FreeFd, 2)>>
         up == IF C.wr = -1 THEN user_pipe ELSE [user_pipe EXCEPT ![cur][C.wr] = pairs[1]]
         t  == Merge(tab, EndsOf(pairs))
         child == Child(t, up)
     IN /\ procs' = procs \cup
             {[id |-> C.job, kind |-> "stage", reads |-> Reads(C), want |-> Wanted,
               in |-> child.in, out |-> child.out, held |-> child.held]}
        /\ tab' = Close(t, ParentCloses(up))
        /\ user_pipe' = IF C.rd = -1 THEN up ELSE [up EXCEPT ![C.rd][cur] = NoPair]
        /\ data' = IF pairs = << >> THEN data
                   ELSE [data EXCEPT ![Min(FreePipes)] = {}]
  /\ cmds' = [cmds EXCEPT ![cur] = [reduce_num_pipes(@) EXCEPT
                ![i].exe = TRUE, ![i].piped = is_piped]]
  /\ last_pid' = IF C.type \in {"NO_PIPE", "F_RED_PIPE"} THEN C.job ELSE last_pid
  /\ stop_pipe' = (C.type = "NUM_PIPE")
  /\ pre_pid' = C.job
  /\ NextStage
  /\ owed' = [owed EXCEPT ![cur] = {o \in @ : o[2] > C.seg}
                \cup (IF C.type = "NUM_PIPE" THEN {<<C.job, C.seg + C.num>>} ELSE {})]
  /\ made' = IF C.wr = -1 THEN made ELSE [made EXCEPT ![cur][C.wr] = C.job]
  /\ UNCHANGED <<pc, cur, temp, temp_id, scratch, lines, segs>>

-------------------------------------------------------------------------------
(* After the last stage the pipes are closed (close_pipe, close_temp_pipe), *)
(* number pipes that were collected for the second time.                    *)
close_pipe_All == UNION {Both(my[k].fd) : k \in DOMAIN my}
close_pipe     == UNION {Both(my[k].fd) : k \in {k \in DOMAIN my :
                                                 my[k].type = "NUM_PIPE" => my[k].piped}}
close_temp_pipe == UNION {Both(temp[k]) : k \in DOMAIN temp}

EndLine == /\ pc = "stage" /\ i > Len(my)
           /\ tab' = Close(tab, close_pipe \cup close_temp_pipe)
           /\ pc' = "wait"
           /\ UNCHANGED <<line, cmds, user_pipe, data, procs, ghost>>

(* The wait for the last stage, reduce_num_by_nl, remove_if, and the caller *)
(* restores its standard output and error.                                  *)
reduce_num_by_nl_Always(s) == [k \in DOMAIN s |-> [s[k] EXCEPT !.num = Down(@)]]
reduce_num_by_nl(s) == IF s[Len(s)].type = "NUM_PIPE" THEN s
                       ELSE [k \in DOMAIN s |-> [s[k] EXCEPT !.num = Down(@)]]

Reap == /\ pc = "wait" /\ ~Running(last_pid)
        /\ cmds' = [cmds EXCEPT ![cur] =
                      LET s == reduce_num_by_nl(@) IN Pick(s, {k \in DOMAIN s : ~s[k].piped})]
        /\ tab' = Close(tab, scratch)
        /\ pc' = "read" /\ cur' = None /\ i' = 0
        /\ temp' = << >> /\ temp_id' = 0 /\ fresh' = TRUE /\ scratch' = {}
        /\ stop_pipe' = TRUE /\ last_pid' = None /\ pre_pid' = None
        /\ UNCHANGED <<user_pipe, data, procs, ghost>>

-------------------------------------------------------------------------------
(* A child reads up to the end of its input, which comes when nobody holds  *)
(* the write end any more, writes if somebody can read it, and exits.       *)
CanEnd(p) == p.reads => p.in # Other /\ <<p.in[1], "w">> \notin Held

Got(p)    == IF p.reads /\ p.in # Other THEN data[p.in[1]] ELSE {}

Finish(p) ==
  /\ pc # "killed" /\ CanEnd(p)
  /\ procs' = procs \ {p}
  /\ data' = [q \in Pipes |->
                IF p.reads /\ q = p.in[1] THEN {}
                ELSE IF q = p.out[1] /\ <<q, "r">> \in Held
                     THEN data[q] \cup (IF p.kind = "collect" THEN Got(p) ELSE {p.id})
                     ELSE data[q]]
  /\ UNCHANGED <<pc, line, cmds, user_pipe, tab, ghost>>

Server == Collect \/ StageFails \/ WaitPre \/ StageForks \/ EndLine \/ Reap
Next   == \/ \E u \in User : \E l \in Inputs[u] : Start(u, l)
          \/ Server
          \/ \E p \in procs : Finish(p)

Spec == Init /\ [][Next]_vars
-------------------------------------------------------------------------------
(* Properties.                                                              *)
Job == (1..MaxLines) \X Nat

CommandOK(c) == /\ c.type \in {"NO_PIPE", "PIPE", "F_RED_PIPE", "NUM_PIPE"}
                /\ c.num \in Nat /\ c.rd \in Nat \cup {-1} /\ c.wr \in Nat \cup {-1}
                /\ c.words \in Seq(Token) /\ c.typed \in Seq(Token)
                /\ c.exe \in BOOLEAN /\ c.piped \in BOOLEAN /\ c.fd \in Pair
                /\ c.job \in Job /\ c.seg \in Nat /\ c.first \in BOOLEAN

(* The types of the state; between two lines the commands that are kept are *)
(* number pipes that were run and not collected (remove_if).                *)
TypeOK ==
  /\ pc \in {"read", "stage", "waitpre", "wait", "killed"}
  /\ cur \in User \cup {None} /\ i \in Nat
  /\ \A u \in User : /\ \A k \in DOMAIN cmds[u] : CommandOK(cmds[u][k])
                     /\ u # cur => \A k \in DOMAIN cmds[u] :
                          cmds[u][k].type = "NUM_PIPE" /\ cmds[u][k].exe
  /\ user_pipe \in [User -> [User -> Pair]]
  /\ DOMAIN tab \subseteq 0..MaxFd /\ Range(tab) \subseteq Ends
  /\ temp \in Seq(Pair) /\ temp_id \in 0..TempPipes /\ fresh \in BOOLEAN
  /\ stop_pipe \in BOOLEAN /\ {last_pid, pre_pid} \subseteq Job \cup {None}
  /\ data \in [Pipes -> SUBSET Job]
  /\ \A p \in procs : p.id \in Job /\ p.held \subseteq Ends /\ {p.in, p.out} \subseteq Ends

(* A command that reads to the end finds on its standard input the output   *)
(* of the command before it, of the user whose pipe it reads, or of exactly *)
(* the number pipes that were to be read by its line, all of it and nothing *)
(* else; however often descriptors were reused and closed in between, and   *)
(* whatever children of earlier lines still run (exe_bin as a whole).       *)
FedRight == [][\A p \in procs \ procs' : p.kind = "stage" /\ p.reads => Got(p) = p.want]_vars

(* While the server waits for a child, or for the next line, some child can *)
(* go on: no set of children waits for each other's end of file, because an *)
(* end of a pipe was inherited by a child that does not use it              *)
(* (close_unused_pipe_in_child, collect_num_pipe_output).                   *)
WaitEnds == pc \in {"waitpre", "wait", "read"} /\ procs # {} => \E p \in procs : CanEnd(p)

Pending    == UNION {{u} \X DOMAIN cmds[u] : u \in User}
PipesKept  == {e \in User \X User : user_pipe[e[1]][e[2]] # NoPair}
Carries(f, job) == /\ At(tab, f) # Other /\ At(tab, f)[2] = "r"
                   /\ job \in data[At(tab, f)[1]] \/ Running(job)

(* "'>n' pipes result of command into the pipe": between two lines the read *)
(* end kept for a user pipe is open, and what its writer wrote is in that   *)
(* pipe or on its way (init_wr_user_pp, exe_command, close_pipe).           *)
PipedInto ==
  pc = "read" => \A e \in PipesKept : Carries(user_pipe[e[1]][e[2]][1], made[e[1]][e[2]])

(* Between two lines every descriptor the program remembers is still open   *)
(* on the pipe it was made for, with the output of its writer in it or on   *)
(* its way, and nothing else is open but one copy of standard output for    *)
(* each line served (close_pipe, close_wr_user_pipe, close_rd_user_pipe).   *)
Remembered ==
  pc = "read" =>
    /\ \A e \in Pending : LET c == cmds[e[1]][e[2]]
                          IN Carries(c.fd[1], c.job) /\ c.fd[2] \in DOMAIN tab
    /\ PipedInto
    /\ Cardinality(DOMAIN tab) = Cardinality(Base) + lines + 2 * Cardinality(Pending)
                                 + Cardinality(PipesKept)

(* The words a command is run with are the ones the user typed, less the    *)
(* user pipes (split_by_pipe, parse_user_pipe).                             *)
AsTyped == \A u \in User : \A k \in DOMAIN cmds[u] : cmds[u][k].words = cmds[u][k].typed

(* Only a line of as many segments as there are temporary pipes runs out of *)
(* them: number pipes that end in one command share one, and each line has  *)
(* them all again (collect_num_pipe_output, init_temp_fd).                  *)
ThisLine  == {k \in 1..i : my[k].job[1] = lines}
PoolLimit == pc = "killed" => Cardinality({my[j].seg : j \in ThisLine}) >= TempPipes
===============================================================================
