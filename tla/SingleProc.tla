------------------------------ MODULE SingleProc ------------------------------
(***************************************************************************)
(* np_single_proc: one process serves every client from a select loop.     *)
(* One round of the loop selects the ready descriptors, accepts at most    *)
(* one connection, serves each ready user in vector order and then sweeps  *)
(* the users that left.                                                    *)
(*                                                                         *)
(* The vector user_info_arr is the set users ordered by arrival: it only   *)
(* grows at its end (push_back) and remove_if keeps the order of the rest. *)
(* The fields of user_info are functions from sessions; a session is one   *)
(* connection ever made.  Descriptors are numbers because the program      *)
(* compares them (nfds) and reuses them; dup, pipe and accept return the   *)
(* lowest free one.  A command is a filter known by whether it reads its   *)
(* standard input to the end and whether it writes more than a pipe holds. *)
(*                                                                         *)
(* Left to other modules: number pipes and the descriptors inside exe_bin, *)
(* and how TCP cuts the input into lines (here a read returns one line).   *)
(***************************************************************************)
EXTENDS Integers, FiniteSets, Sequences

CONSTANTS
  Session,      \* every connection the clients make
  MaxUsers,     \* the ids give_available_id hands out are 1..MaxUsers (30)
  MaxOnline,    \* how many clients keep a connection open at a time
  Names,        \* what users call themselves
  NoName,       \* "(no name)"
  EnvVars,      \* the environment variables the clients use
  PATH,         \* the one every user starts with ...
  Values,
  BinDot,       \* ... set to "bin:."
  Unset,
  MaxFd,        \* the last descriptor the process may open
  TempPipes,    \* pipes exe_bin opens for number pipes (5)
  Inputs,       \* the lines the clients may send
  None,
  MaxLines,     \* bound: the lines each client sends
  Serial,       \* a client types only when the server has nothing to do
  Eof           \* clients may leave without exit

NoFd      == -1
socket_fd == 3
Fd        == 0..MaxFd
Id        == 0..MaxUsers

(* A stage of a pipeline: the user pipes it reads and writes (-1: none),    *)
(* whether it reads standard input to the end, whether its output is big.   *)
Stage == [rd : Int, wr : Int, in : BOOLEAN, big : BOOLEAN]

(* Lines the parser dies of: blanks, a number stoi refuses (`tell abc hi`,  *)
(* `ls >99999999999`) and a last token `>`.                                 *)
Fatal == {"blank", "badnum", "nofile"}

Line == [op : {"exit", "yell", "show", "empty"} \cup Fatal]
        \cup [op : {"name"}, arg : Names]
        \cup [op : {"tell"}, to : Int]
        \cup [op : {"setenv"}, var : EnvVars, val : Values]
        \cup [op : {"run"}, stages : Seq(Stage)]

ASSUME BoundsAssumption == /\ {MaxUsers, TempPipes, MaxLines, MaxOnline} \subseteq Nat
                           /\ MaxFd \in Nat /\ MaxFd > socket_fd
ASSUME NamesAssumption  == NoName \notin Names
ASSUME EnvAssumption    == PATH \in EnvVars /\ BinDot \in Values /\ Unset \notin Values
ASSUME InputsAssumption == Inputs \subseteq Line /\ None \notin Inputs \cup Session
ASSUME ModesAssumption  == Serial \in BOOLEAN /\ Eof \in BOOLEAN

(* A connection: not made yet, waiting for accept, open, closed by the      *)
(* client (hup; hupw once the server has written to it, rst once the reset  *)
(* for that arrived), reset by the client (abort), shut down by the server, *)
(* or over.                                                                 *)
Links == {"off", "backlog", "on", "hup", "hupw", "abort", "rst", "shut", "gone"}
Dead  == {"rst", "shut"}                        \* a write raises SIGPIPE

PCs == {"select", "accept", "poll", "parse", "stage", "prompt",
        "hung", "killed", "crashed", "exited", "stopped"}

VARIABLES
  pc,
  users, arrival, logins,                        \* user_info_arr and its order
  id_num, name, fd, is_closed, env_var, user_pipe, \* the fields of user_info
  all_fds, todo,                                 \* select's sets
  cur, line, rest,                               \* the line being served
  last,                                          \* the stage before, as the parent sees it
  environ,                                       \* the environment of the process
  open_fds, scratch, stuck,                      \* descriptors
  cout_bad,                                      \* cout failed: nothing is printed any more
  link, inbox, sent, heard                       \* the clients

table   == <<users, arrival, logins, id_num, fd, is_closed>>
fds     == <<all_fds, open_fds, scratch, stuck>>
client  == <<inbox, sent>>
exec    == <<cur, line, rest, last>>
vars    == <<pc, table, name, env_var, user_pipe, fds, todo, exec, environ,
             cout_bad, link, client, heard>>

Lowest(S)   == {x \in S : \A y \in S : x <= y}
First(S)    == {s \in S : \A t \in S : arrival[s] <= arrival[t]}
Last(S)     == {s \in S : \A t \in S : arrival[t] <= arrival[s]}
Free        == Fd \ open_fds
TakeLow(n)  == {f \in Free : Cardinality({g \in Free : g < f}) < n}
NoPipes     == [i \in Id |-> NoFd]
FirstEnv    == [v \in EnvVars |-> IF v = PATH THEN BinDot ELSE Unset]
Online      == users \ is_closed
WithId(i)   == First({t \in users : id_num[t] = i})
HasPipe(s, i) == i \in Id /\ user_pipe[s][i] # NoFd

Init ==
  /\ pc = "select"
  /\ users = {} /\ arrival = [s \in Session |-> 0] /\ logins = 0
  /\ id_num = [s \in Session |-> 0]
  /\ name = [s \in Session |-> NoName]
  /\ fd = [s \in Session |-> NoFd]
  /\ is_closed = {}
  /\ env_var = [s \in Session |-> FirstEnv]
  /\ user_pipe = [s \in Session |-> NoPipes]
  /\ all_fds = {0, socket_fd} /\ todo = {}
  /\ cur = None /\ line = None /\ rest = << >> /\ last = "unset"
  /\ environ = FirstEnv
  /\ open_fds = 0..socket_fd /\ scratch = {} /\ stuck = {}
  /\ cout_bad = FALSE
  /\ link = [s \in Session |-> "off"]
  /\ inbox = [s \in Session |-> None]
  /\ sent = [s \in Session |-> 0]
  /\ heard = [s \in Session |-> {}]

-------------------------------------------------------------------------------
(* The clients.  A client types its next line after the server took the     *)
(* last one; nothing a client does after the server stopped matters.        *)
Alive == pc \notin {"hung", "killed", "crashed", "exited", "stopped"}

server == <<pc, table, name, env_var, user_pipe, fds, todo, exec, environ, cout_bad, heard>>

Connect(s) == /\ Alive /\ link[s] = "off"
              /\ Cardinality({t \in Session : link[t] \in {"backlog", "on"}}) < MaxOnline
              /\ link' = [link EXCEPT ![s] = "backlog"]
              /\ UNCHANGED <<server, client>>

Send(s, l) == /\ Alive /\ link[s] = "on" /\ inbox[s] = None /\ sent[s] < MaxLines
              /\ Serial => pc = "select" /\ \A t \in Session : inbox[t] = None
              /\ inbox' = [inbox EXCEPT ![s] = l]
              /\ sent' = [sent EXCEPT ![s] = @ + 1]
              /\ UNCHANGED <<server, link>>

(* The client closes its socket, having read all it was sent ...            *)
HangUp(s) == /\ Eof /\ Alive /\ link[s] = "on"
             /\ link' = [link EXCEPT ![s] = "hup"]
             /\ UNCHANGED <<server, client>>

(* ... or with unread output, which resets the connection at once.          *)
Abort(s) == /\ Eof /\ Alive /\ link[s] = "on"
            /\ link' = [link EXCEPT ![s] = "abort"]
            /\ UNCHANGED <<server, client>>

(* The reset that answers what the server wrote to a closed socket.         *)
ResetArrives(s) == /\ Alive /\ link[s] = "hupw"
                   /\ link' = [link EXCEPT ![s] = "rst"]
                   /\ UNCHANGED <<server, client>>

-------------------------------------------------------------------------------
(* cout << ... << endl with standard output on the sockets of T, in vector  *)
(* order.  A socket with a pending reset fails the write: the error sets    *)
(* badbit on cout, which nothing clears.  One already shut down or reset    *)
(* raises SIGPIPE, which nothing handles.                                   *)
Reached(T) == IF cout_bad THEN {}
              ELSE {t \in T : \A u \in T : link[u] = "abort" => arrival[t] <= arrival[u]}

Outcome(T, next) == IF \E t \in Reached(T) : link[t] \in Dead THEN "killed" ELSE next
Broken(T)        == cout_bad \/ \E t \in Reached(T) : link[t] = "abort"
Touched(T)       == [s \in Session |->
                       CASE s \in Reached(T) /\ link[s] = "hup"   -> "hupw"
                         [] s \in Reached(T) /\ link[s] = "abort" -> "rst"
                         [] OTHER -> link[s]]

Write(T, next) == /\ pc' = Outcome(T, next)
                  /\ cout_bad' = Broken(T)
                  /\ link' = Touched(T)

(* broadcast LOG_OUT takes back what the LOG_IN broadcast told.             *)
HearLogout_SkipsFirst(T, s) == heard' = [t \in Session |->
                                IF t \in Reached(T) \ First(users) THEN heard[t] \ {s} ELSE heard[t]]
HearLogout(T, s) == heard' = [t \in Session |->
                                IF t \in Reached(T) THEN heard[t] \ {s} ELSE heard[t]]

-------------------------------------------------------------------------------
(* The head of the loop.  nfds is one more than the descriptor of the last  *)
(* user in the vector.                                                      *)
Ready(s) == inbox[s] # None \/ link[s] \in {"hup", "hupw", "rst", "abort"}
Backlog  == {s \in Session : link[s] = "backlog"}

ReadyFds == all_fds \cap ({fd[s] : s \in {t \in users : Ready(t)}}
                          \cup {f \in {socket_fd} : Backlog # {}})
Watched  == {f \in Fd : IF users = {} THEN f <= socket_fd
                        ELSE \E s \in Last(users) : f <= fd[s]}
temp_fds == ReadyFds \cap Watched

Select == /\ pc = "select" /\ temp_fds # {}
          /\ todo' = {s \in users : fd[s] \in temp_fds}
          /\ pc' = IF socket_fd \in temp_fds THEN "accept" ELSE "poll"
          /\ UNCHANGED <<table, name, env_var, user_pipe, fds, exec, environ,
                         cout_bad, link, client, heard>>

(* The operator types exit on the server's own terminal.                    *)
OperatorExit == /\ pc = "select"
                /\ pc' = "stopped"
                /\ UNCHANGED <<table, name, env_var, user_pipe, fds, todo, exec, environ,
                               cout_bad, link, client, heard>>

Unused == (1..MaxUsers) \ {id_num[s] : s \in users}
give_available_id_Count == {Cardinality(users) + 1}
give_available_id_Past  == IF Unused = {} THEN {MaxUsers + 1} ELSE Lowest(Unused)
give_available_id == IF Unused = {} THEN {0} ELSE Lowest(Unused)

(* accept, the new user_info, push_back and the LOG_IN broadcast, which     *)
(* reaches the new user as well.  With no other descriptor ready the loop   *)
(* goes back to select.                                                     *)
Accept(s) ==
  /\ pc = "accept" /\ s \in Backlog
  /\ \E f \in TakeLow(1), i \in give_available_id :
       /\ fd' = [fd EXCEPT ![s] = f]
       /\ all_fds' = all_fds \cup {f}
       /\ open_fds' = open_fds \cup {f}
       /\ id_num' = [id_num EXCEPT ![s] = i]
  /\ users' = users \cup {s}
  /\ logins' = logins + 1
  /\ arrival' = [arrival EXCEPT ![s] = logins + 1]
  /\ pc' = Outcome(Online, IF todo = {} THEN "select" ELSE "poll")
  /\ cout_bad' = Broken(Online)
  /\ link' = [Touched(Online) EXCEPT ![s] = "on"]
  /\ heard' = [t \in Session |->
                 IF t \in Reached(Online) \/ (t = s /\ ~Broken(Online))
                 THEN heard[t] \cup {s} ELSE heard[t]]
  /\ UNCHANGED <<is_closed, name, env_var, user_pipe, scratch, stuck, todo, exec,
                 environ, client>>

(* No descriptor is left for accept: the server gives up.                   *)
OutOfFds == /\ pc = "accept" /\ Free = {}
            /\ pc' = "exited"
            /\ UNCHANGED <<table, name, env_var, user_pipe, fds, todo, exec, environ,
                           cout_bad, link, client, heard>>

-------------------------------------------------------------------------------
(* The poll loop: one read for each ready user, in vector order.  Data that *)
(* arrived before the client closed is read first.                          *)
Turn(s) == pc = "poll" /\ s \in First(todo)

FD_CLR_Nothing(s) == all_fds
FD_CLR(s)         == all_fds \ {fd[s]}

(* read returns 0.  This path does not clean the user pipes.                *)
PollEof(s) ==
  /\ Turn(s) /\ inbox[s] = None /\ link[s] \in {"hup", "hupw", "rst"}
  /\ is_closed' = is_closed \cup {s}
  /\ pc' = Outcome(Online \ {s}, "poll")
  /\ cout_bad' = Broken(Online \ {s})
  /\ link' = [Touched(Online \ {s}) EXCEPT ![s] = "gone"]
  /\ HearLogout(Online \ {s}, s)
  /\ open_fds' = open_fds \ {fd[s]}
  /\ all_fds' = FD_CLR(s)
  /\ todo' = todo \ {s}
  /\ UNCHANGED <<users, arrival, logins, id_num, fd, name, env_var, user_pipe, scratch,
                 stuck, exec, environ, client>>

(* read returns -1: the whole server exits.                                 *)
PollError(s) ==
  /\ Turn(s) /\ inbox[s] = None /\ link[s] = "abort"
  /\ pc' = "exited"
  /\ UNCHANGED <<table, name, env_var, user_pipe, fds, todo, exec, environ,
                 cout_bad, link, client, heard>>

(* A line is read: the user's variables are put into the environment, and   *)
(* standard output and error are saved and pointed at the user.  DupRoom is *)
(* a bound: without it dup fails and the server's own output stays on the   *)
(* user's socket, which is not followed.                                    *)
DupRoom == Cardinality(Free) >= 2
Exported(s) ==
  [v \in EnvVars |-> IF env_var[s][v] # Unset THEN env_var[s][v] ELSE environ[v]]

PollLine(s) ==
  /\ Turn(s) /\ inbox[s] # None /\ DupRoom
  /\ environ' = Exported(s)
  /\ scratch' = TakeLow(2)
  /\ open_fds' = open_fds \cup TakeLow(2)
  /\ todo' = todo \ {s}
  /\ cur' = s /\ line' = inbox[s]
  /\ inbox' = [inbox EXCEPT ![s] = None]
  /\ pc' = "parse"
  /\ UNCHANGED <<table, name, env_var, user_pipe, all_fds, stuck, rest, last,
                 cout_bad, link, sent, heard>>

-------------------------------------------------------------------------------
(* parser: one action per built-in command.                                 *)
Parsing(op) == pc = "parse" /\ line.op = op

(* The maps of all users lose the key of user s; the descriptors stay open. *)
clean_user_pipe_Own(s) == [user_pipe EXCEPT ![s] = NoPipes]
clean_user_pipe(s) == [t \in Session |-> IF t \in users
                                          THEN [user_pipe[t] EXCEPT ![id_num[s]] = NoFd]
                                          ELSE user_pipe[t]]

Exit ==
  /\ Parsing("exit")
  /\ is_closed' = is_closed \cup {cur}
  /\ user_pipe' = clean_user_pipe(cur)
  /\ Write(Online \ {cur}, "prompt")
  /\ HearLogout(Online \ {cur}, cur)
  /\ UNCHANGED <<users, arrival, logins, id_num, fd, name, env_var, fds, todo, exec,
                 environ, client>>

NameTaken_ByFirst(n) == \E s \in First(users) \ {cur} : name[s] = n
NameTaken(n) == \E s \in users \ {cur} : name[s] = n

ChangeName ==
  /\ Parsing("name")
  /\ IF NameTaken(line.arg)
     THEN Write({cur}, "prompt") /\ UNCHANGED name
     ELSE Write(Online, "prompt") /\ name' = [name EXCEPT ![cur] = line.arg]
  /\ UNCHANGED <<table, env_var, user_pipe, fds, todo, exec, environ, client, heard>>

Yell == /\ Parsing("yell")
        /\ Write(Online, "prompt")
        /\ UNCHANGED <<table, name, env_var, user_pipe, fds, todo, exec, environ, client, heard>>

(* The receiver is looked up among all entries, those closed this round     *)
(* included.  An entry closed by end of file has a descriptor that is not   *)
(* its own any more: dup2 fails and the sender gets the message, or the     *)
(* message goes to whatever the number was given to since, which breaks     *)
(* cout when that cannot be written.                                        *)
Tell ==
  /\ Parsing("tell")
  /\ \/ /\ WithId(line.to) = {}
        /\ Write({cur}, "prompt")
     \/ \E t \in WithId(line.to) :
          \/ /\ link[t] # "gone"
             /\ Write({t}, "prompt")
          \/ /\ link[t] = "gone" /\ fd[t] \notin open_fds
             /\ Write({cur}, "prompt")
          \/ /\ link[t] = "gone" /\ fd[t] \in open_fds
             /\ cout_bad' \in {cout_bad, TRUE}
             /\ pc' = "prompt" /\ UNCHANGED link
  /\ UNCHANGED <<table, name, env_var, user_pipe, fds, todo, exec, environ, client, heard>>

SetEnv ==
  /\ Parsing("setenv")
  /\ env_var' = [env_var EXCEPT ![cur][line.var] = line.val]
  /\ pc' = "prompt"
  /\ UNCHANGED <<table, name, user_pipe, fds, todo, exec, environ, cout_bad, link,
                 client, heard>>

(* printenv and who only print.                                             *)
Show == /\ Parsing("show")
        /\ Write({cur}, "prompt")
        /\ UNCHANGED <<table, name, env_var, user_pipe, fds, todo, exec, environ, client, heard>>

(* A line with nothing but its line end: parser returns at once.            *)
Empty == /\ Parsing("empty")
         /\ pc' = "prompt"
         /\ UNCHANGED <<table, name, env_var, user_pipe, fds, todo, exec, environ,
                        cout_bad, link, client, heard>>

(* A line of blanks passes the empty test, and tokens[0] of an empty vector *)
(* is read.  What stoi throws is caught nowhere.  A `>` at the end moves    *)
(* the iterator beyond the tokens, and the loop runs on.                    *)
Crash == /\ pc = "parse" /\ line.op \in Fatal
         /\ pc' = "crashed"
         /\ UNCHANGED <<table, name, env_var, user_pipe, fds, todo, exec, environ,
                        cout_bad, link, client, heard>>

-------------------------------------------------------------------------------
(* exe_bin.  It opens a copy of standard output, which it never closes,     *)
(* TempPipes pipes and one pipe for each stage.                             *)
Needed == 1 + 2 * TempPipes + 2 * Len(line.stages)

BeginRun ==
  /\ Parsing("run") /\ Cardinality(Free) >= Needed
  /\ open_fds' = open_fds \cup TakeLow(Needed)
  /\ scratch' = scratch \cup (TakeLow(Needed) \ TakeLow(1))
  /\ rest' = line.stages
  /\ pc' = "stage"
  /\ UNCHANGED <<table, name, env_var, user_pipe, all_fds, stuck, todo, cur, line, last,
                 environ, cout_bad, link, client, heard>>

(* pipe fails: the server exits.                                            *)
NoPipeLeft ==
  /\ \/ Parsing("run") /\ Cardinality(Free) < Needed
     \/ pc = "stage" /\ rest # << >> /\ Head(rest).wr # -1 /\ Cardinality(Free) < 2
  /\ pc' = "exited"
  /\ UNCHANGED <<table, name, env_var, user_pipe, fds, todo, exec, environ,
                 cout_bad, link, client, heard>>

AtStage  == pc = "stage" /\ rest # << >>
S        == Head(rest)
CanRead  == S.rd = -1 \/ \E t \in WithId(S.rd) : HasPipe(t, id_num[cur])
CanWrite == S.wr = -1 \/ (WithId(S.wr) # {} /\ ~HasPipe(cur, S.wr))

(* waitpid(pre_pid) after a stage failed.  The stage before never ends if   *)
(* its input or output needs the server, which holds both ends of every     *)
(* pipe of the line.  Before any fork pre_pid is uninitialised: the call    *)
(* returns at once or waits for some child.                                 *)
AfterWait == CASE last \in {"waits", "stuck"}      -> {"hung"}
               [] last = "unset" /\ stuck # {}     -> {"hung", "stage"}
               [] OTHER                            -> {"stage"}
Waited    == IF last = "unset" THEN "unset" ELSE "reaped"

StageReadFails ==
  /\ AtStage /\ ~CanRead
  /\ \E next \in AfterWait : Write({cur}, next)
  /\ rest' = Tail(rest) /\ last' = Waited
  /\ UNCHANGED <<table, name, env_var, user_pipe, fds, todo, cur, line, environ,
                 client, heard>>

(* The read was announced to everybody before the write is looked at.       *)
StageWriteFails ==
  /\ AtStage /\ CanRead /\ ~CanWrite
  /\ \E next \in AfterWait : Write(IF S.rd # -1 THEN Online ELSE {cur}, next)
  /\ rest' = Tail(rest) /\ last' = Waited
  /\ UNCHANGED <<table, name, env_var, user_pipe, fds, todo, cur, line, environ,
                 client, heard>>

(* How the stage that was forked comes to its end, as far as the server can *)
(* see: never, because a user pipe it writes is full or its input comes     *)
(* from a stage like that; once the server closes its own pipe ends; or on  *)
(* its own.                                                                 *)
HowItEnds ==
  CASE (S.wr # -1 /\ S.big) \/ (S.in /\ S.rd = -1 /\ last = "stuck")    -> "stuck"
    [] (S.in /\ S.rd = -1) \/ (S.big /\ S.wr = -1 /\ Len(rest) > 1)     -> "waits"
    [] OTHER                                                            -> "ends"

(* The pipes s reads and writes: init_rd_user_pp, init_wr_user_pp, fork,    *)
(* and the parent's close_rd_user_pipe and close_wr_user_pipe.              *)
Unpipe_Keeps(p) == p
Unpipe(p)  == IF S.rd = -1 THEN p
              ELSE [t \in Session |-> IF t \in WithId(S.rd)
                                      THEN [p[t] EXCEPT ![id_num[cur]] = NoFd] ELSE p[t]]
ReadEnds   == {user_pipe[t][id_num[cur]] : t \in {u \in WithId(S.rd) : S.rd # -1}}

StageRuns ==
  /\ AtStage /\ CanRead /\ CanWrite
  /\ Write(IF S.rd # -1 \/ S.wr # -1 THEN Online ELSE {}, "stage")
  /\ \/ /\ S.wr = -1
        /\ user_pipe' = Unpipe(user_pipe)
        /\ open_fds' = open_fds \ ReadEnds
        /\ stuck' = stuck \ ReadEnds
     \/ /\ S.wr # -1 /\ Cardinality(Free) >= 2
        /\ \E f \in TakeLow(1) :
             /\ user_pipe' = Unpipe([user_pipe EXCEPT ![cur][S.wr] = f])
             /\ open_fds' = (open_fds \ ReadEnds) \cup {f}
             /\ stuck' = (stuck \ ReadEnds) \cup {g \in {f} : S.big}
  /\ rest' = Tail(rest) /\ last' = HowItEnds
  /\ UNCHANGED <<table, name, env_var, all_fds, scratch, todo, cur, line, environ,
                 client, heard>>

(* The pipes of the line are closed; then the server waits for the last     *)
(* stage if it was started.  The slip waits first.                          *)
NeverEnds_OpenEnds == last \in {"waits", "stuck"}
NeverEnds          == last = "stuck"

EndRun ==
  /\ pc = "stage" /\ rest = << >>
  /\ pc' = IF NeverEnds THEN "hung" ELSE "prompt"
  /\ UNCHANGED <<table, name, env_var, user_pipe, fds, todo, exec, environ,
                 cout_bad, link, client, heard>>

-------------------------------------------------------------------------------
(* The prompt, or the farewell to a user that typed exit, whose socket is   *)
(* shut down and not closed; standard output and error are restored.        *)
Served == /\ scratch' = {} /\ open_fds' = open_fds \ scratch
          /\ cur' = None /\ line' = None /\ last' = "unset"
          /\ UNCHANGED <<rest, stuck>>

Prompt ==
  /\ pc = "prompt" /\ cur \notin is_closed
  /\ Write({cur}, "poll")
  /\ Served
  /\ UNCHANGED <<table, name, env_var, user_pipe, all_fds, todo, environ, client, heard>>

ShutDown ==
  /\ pc = "prompt" /\ cur \in is_closed
  /\ pc' = "poll"
  /\ link' = [link EXCEPT ![cur] = "shut"]
  /\ inbox' = [inbox EXCEPT ![cur] = None]
  /\ all_fds' = FD_CLR(cur)
  /\ Served
  /\ UNCHANGED <<table, name, env_var, user_pipe, todo, environ, cout_bad, sent, heard>>

(* remove_if over the users that left this round.                           *)
Leavers_ButBack == is_closed \ Last(users)
Leavers         == is_closed

Sweep ==
  /\ pc = "poll" /\ todo = {}
  /\ pc' = "select"
  /\ users' = users \ Leavers /\ is_closed' = is_closed \ Leavers
  /\ LET Keep(f, default) == [s \in Session |-> IF s \in Leavers THEN default ELSE f[s]]
     IN /\ link' = Keep(link, "gone")
        /\ id_num' = Keep(id_num, 0)
        /\ fd' = Keep(fd, NoFd)
        /\ name' = Keep(name, NoName)
        /\ env_var' = Keep(env_var, FirstEnv)
        /\ user_pipe' = Keep(user_pipe, NoPipes)
        /\ heard' = Keep(heard, {})
  /\ UNCHANGED <<arrival, logins, fds, todo, exec, environ, cout_bad, client>>

Server == \/ Select \/ OutOfFds
          \/ \E s \in Session : Accept(s) \/ PollEof(s) \/ PollError(s) \/ PollLine(s)
          \/ Exit \/ ChangeName \/ Yell \/ Tell \/ SetEnv \/ Show \/ Empty \/ Crash
          \/ BeginRun \/ NoPipeLeft \/ StageReadFails \/ StageWriteFails \/ StageRuns \/ EndRun
          \/ Prompt \/ ShutDown \/ Sweep

Clients == \E s \in Session : \/ Connect(s) \/ HangUp(s) \/ Abort(s) \/ ResetArrives(s)
                              \/ \E l \in Inputs : Send(s, l)

Next == Server \/ OperatorExit \/ Clients

Spec == Init /\ [][Next]_vars

(* The server is a process that the system schedules; clients and operator  *)
(* owe nothing.                                                             *)
FairSpec == Spec /\ WF_vars(Server)

-------------------------------------------------------------------------------
(* Properties.                                                              *)
TableOK ==
  /\ users \subseteq Session /\ is_closed \subseteq users /\ todo \subseteq users
  /\ arrival \in [Session -> Nat] /\ logins \in Nat
  /\ id_num \in [Session -> Id]
  /\ name \in [Session -> Names \cup {NoName}]
  /\ fd \in [Session -> Fd \cup {NoFd}]
  /\ env_var \in [Session -> [EnvVars -> Values \cup {Unset}]]
  /\ user_pipe \in [Session -> [Id -> Fd \cup {NoFd}]]

ServerOK ==
  /\ pc \in PCs
  /\ all_fds \subseteq Fd /\ open_fds \subseteq Fd /\ scratch \subseteq Fd /\ stuck \subseteq Fd
  /\ cur \in Session \cup {None} /\ line \in Inputs \cup {None}
  /\ pc \in {"parse", "stage", "prompt"} => cur \in users /\ line # None
  /\ rest \in Seq(Stage)
  /\ last \in {"unset", "reaped", "ends", "waits", "stuck"}
  /\ environ \in [EnvVars -> Values \cup {Unset}]
  /\ cout_bad \in BOOLEAN

ClientsOK ==
  /\ link \in [Session -> Links]
  /\ inbox \in [Session -> Inputs \cup {None}] /\ sent \in [Session -> Nat]
  /\ heard \in [Session -> SUBSET Session]

(* The types of the program's state; a command is served for a user that is *)
(* in the table (parser and exe_bin index user_info_arr without a check).   *)
TypeOK == TableOK /\ ServerOK /\ ClientsOK

(* No two users in the table share an id (give_available_id), those that    *)
(* left in this round included; 0 is what the 31st user would get.          *)
IdsUnique == \A s, t \in users : s # t /\ id_num[s] = id_num[t] => id_num[s] = 0

(* No two users in the table share a chosen name, whatever order their name *)
(* commands and departures come in (change_name).                           *)
NamesUnique == \A s, t \in users : s # t /\ name[s] = name[t] => name[s] = NoName

(* Every descriptor the program remembers is open, and it is the only one   *)
(* to remember it: sockets of users that are there, read ends of user pipes *)
(* and the descriptors of the command being served never coincide, however  *)
(* the numbers are reused (accept, init_wr_user_pp, close_rd_user_pipe).    *)
OneHolder ==
  LET taken == (0..socket_fd) \cup scratch
  IN /\ \A s \in Online : /\ fd[s] \in open_fds \ taken
                          /\ \A t \in Online \ {s} : fd[t] # fd[s]
     /\ \A s \in users : \A i \in {j \in Id : user_pipe[s][j] # NoFd} :
          /\ user_pipe[s][i] \in open_fds \ taken
          /\ \A t \in Online : fd[t] # user_pipe[s][i]
          /\ \A t \in users : \A j \in Id :
               user_pipe[t][j] = user_pipe[s][i] => t = s /\ j = i

(* The set the program selects on holds just the sockets of the users that  *)
(* are there or being served, the listening socket and its own terminal,    *)
(* and they are open: a closed one would make select fail and end the       *)
(* server (FD_SET, FD_CLR, close).  How far select looks is another matter, *)
(* see SelectSeesAllReady.                                                  *)
Selected == /\ all_fds = {0, socket_fd} \cup {fd[s] : s \in Online \cup ({cur} \ {None})}
            /\ all_fds \subseteq open_fds

(* Back at select, each user was told of exactly those that came since it   *)
(* did and are still there: no login or logout message is lost, doubled or  *)
(* sent to the wrong user (broadcast, in every path that adds or removes).  *)
HeardRight ==
  pc = "select" /\ ~cout_bad =>
    \A s \in users : heard[s] = {t \in users : arrival[s] <= arrival[t]}

(* A user pipe that is held at select leads to a user that is there.        *)
(* "If you disconnect from the server, all user pipe about you should be    *)
(* closed": spec, 5.9; clean_user_pipe.                                     *)
NoOrphanPipe ==
  pc = "select" =>
    \A s \in users, i \in Id : HasPipe(s, i) => \E t \in users : id_num[t] = i

(* The server never writes to a connection that it shut down or that was    *)
(* reset, which would end it for everybody by SIGPIPE: whoever leaves is    *)
(* gone from the table before the next message (shutdown, remove_if and     *)
(* the writes of broadcast, tell and the prompt).                           *)
NoSigPipe == pc # "killed"

(* "After select, temp_fds includes all ready fd from all_fds."             *)
SelectSeesAllReady == [][pc = "select" /\ pc' \in {"accept", "poll"} =>
                           {s \in users : Ready(s)} \subseteq todo']_vars

(* A line that a client sent is taken by the server, unless the operator    *)
(* stops it: no client is starved by the others, and no wait of exe_bin, at *)
(* the end of a line or behind a stage that failed, is for ever (select,    *)
(* the poll loop, waitpid), for lines whose waits can end.                  *)
LineServed == \A s \in Session : inbox[s] # None ~> (inbox[s] = None \/ pc = "stopped")

(* What the users are promised, see RwgService.  A pipe is kept under the   *)
(* id of its reader, so whoever holds that id owns the pipe.                *)
Service == INSTANCE RwgService WITH
             uid   <- [s \in Session |-> IF s \in Online THEN id_num[s] ELSE 0],
             nick  <- [s \in Session |-> IF s \in Online THEN name[s] ELSE NoName],
             pipes <- {p \in Online \X Online : HasPipe(p[1], id_num[p[2]])}

Implements == Service!Spec
===============================================================================
