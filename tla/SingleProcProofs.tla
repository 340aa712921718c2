--------------------------- MODULE SingleProcProofs ---------------------------
(* What SingleProc satisfies for any number of clients, ids and             *)
(* descriptors, whatever the clients send and however they leave; and what  *)
(* its users are told and promised.                                         *)
EXTENDS SingleProc, NaturalsInduction, FiniteSetTheorems, TLAPS

USE DEF Fd, Id, NoFd, socket_fd

(* The constants of the initial state have their types.                     *)
LEMMA InitTypes == Init => TypeOK
<1> SUFFICES ASSUME Init PROVE TypeOK
  OBVIOUS
<1>1. FirstEnv \in [EnvVars -> Values \cup {Unset}]
  BY EnvAssumption DEF FirstEnv
<1>2. NoPipes \in [Id -> Fd \cup {NoFd}]
  BY DEF NoPipes
<1>3. TableOK
  <2> USE DEF Init
  <2>1. id_num \in [Session -> Id]
    BY BoundsAssumption
  <2>2. env_var \in [Session -> [EnvVars -> Values \cup {Unset}]]
    BY <1>1
  <2>3. user_pipe \in [Session -> [Id -> Fd \cup {NoFd}]]
    BY <1>2
  <2>4. name \in [Session -> Names \cup {NoName}] /\ fd \in [Session -> Fd \cup {NoFd}]
    OBVIOUS
  <2>5. arrival \in [Session -> Nat] /\ logins \in Nat
    OBVIOUS
  <2>6. users \subseteq Session /\ is_closed \subseteq users /\ todo \subseteq users
    OBVIOUS
  <2> HIDE DEF Init
  <2> QED BY <2>1, <2>2, <2>3, <2>4, <2>5, <2>6 DEF TableOK
<1>4. ServerOK
  <2>1. all_fds \subseteq Fd /\ open_fds \subseteq Fd /\ scratch \subseteq Fd /\ stuck \subseteq Fd
    BY BoundsAssumption DEF Init
  <2>2. rest \in Seq(Stage)
    BY DEF Init
  <2>3. environ \in [EnvVars -> Values \cup {Unset}]
    BY <1>1 DEF Init
  <2>4. /\ pc \in PCs /\ pc \notin {"parse", "stage", "prompt"}
        /\ cur \in Session \cup {None} /\ line \in Inputs \cup {None}
        /\ last \in {"unset", "reaped", "ends", "waits", "stuck"}
        /\ cout_bad \in BOOLEAN
    BY DEF Init, PCs
  <2> QED BY <2>1, <2>2, <2>3, <2>4 DEF ServerOK
<1>5. ClientsOK
  BY DEF Init, ClientsOK, Links
<1> QED BY <1>3, <1>4, <1>5 DEF TypeOK

(* What clients do (connect, type, close, reset) disturbs no type.          *)
LEMMA ClientsStep == TypeOK /\ Clients => TypeOK'
<1> SUFFICES ASSUME TypeOK, NEW s \in Session,
                    \/ Connect(s) \/ HangUp(s) \/ Abort(s) \/ ResetArrives(s)
                    \/ \E l \in Inputs : Send(s, l)
             PROVE  TypeOK'
  BY DEF Clients
<1> USE DEF TypeOK, TableOK, ServerOK, ClientsOK, server, client, table, fds, exec, Links
<1>1. CASE Connect(s)
  BY <1>1 DEF Connect
<1>2. CASE HangUp(s)
  BY <1>2 DEF HangUp
<1>3. CASE Abort(s)
  BY <1>3 DEF Abort
<1>4. CASE ResetArrives(s)
  BY <1>4 DEF ResetArrives
<1>5. CASE \E l \in Inputs : Send(s, l)
  BY <1>5 DEF Send
<1>6. QED
  BY <1>1, <1>2, <1>3, <1>4, <1>5

(* What writing to sockets does to pc, cout and the connections.            *)
LEMMA WriteTypes ==
  ASSUME ClientsOK, cout_bad \in BOOLEAN, NEW T, NEW next
  PROVE  /\ Outcome(T, next) \in {next, "killed"}
         /\ Broken(T) \in BOOLEAN
         /\ Touched(T) \in [Session -> Links]
<1>1. Touched(T) \in [Session -> Links]
  <2> SUFFICES ASSUME NEW s \in Session
               PROVE  (CASE s \in Reached(T) /\ link[s] = "hup"   -> "hupw"
                         [] s \in Reached(T) /\ link[s] = "abort" -> "rst"
                         [] OTHER -> link[s]) \in Links
    BY DEF Touched
  <2> QED BY DEF Links, ClientsOK
<1> QED BY <1>1 DEF Outcome, Broken

(* The descriptors that dup, pipe and accept return are descriptors.        *)
LEMMA TakeLowTypes == ASSUME NEW n PROVE TakeLow(n) \subseteq Fd
BY DEF TakeLow, Free

(* A line that is parsed has the fields of its command.                     *)
LEMMA LineTypes ==
  ASSUME TypeOK, pc = "parse"
  PROVE  /\ cur \in users /\ cur \in Session
         /\ line.op = "name" => line.arg \in Names
         /\ line.op = "setenv" => line.var \in EnvVars /\ line.val \in Values
         /\ line.op = "run" => line.stages \in Seq(Stage)
<1>1. cur \in users /\ line \in Line
  BY InputsAssumption DEF TypeOK, ServerOK
<1>2. users \subseteq Session
  BY DEF TypeOK, TableOK
<1> QED BY <1>1, <1>2 DEF Line, Fatal

(* The user a stage is for, and the stage itself.                           *)
LEMMA StageTypes ==
  ASSUME TypeOK, AtStage
  PROVE  /\ cur \in users /\ cur \in Session
         /\ S \in Stage /\ Tail(rest) \in Seq(Stage)
         /\ id_num[cur] \in Id
<1>1. cur \in users /\ cur \in Session /\ id_num[cur] \in Id
  BY DEF TypeOK, ServerOK, TableOK, AtStage
<1>2. rest \in Seq(Stage) /\ rest # << >>
  BY DEF TypeOK, ServerOK, AtStage
<1> QED BY <1>1, <1>2 DEF S


(* The select loop.                                                         *)
LEMMA SelectStep == TypeOK /\ (Select \/ OutOfFds \/ OperatorExit) => TypeOK'
<1> SUFFICES ASSUME TypeOK, Select \/ OutOfFds \/ OperatorExit PROVE TypeOK'
  OBVIOUS
<1> USE DEF TypeOK, TableOK, ServerOK, ClientsOK, client, table, fds, exec, PCs
<1>1. CASE Select
  BY <1>1 DEF Select
<1>2. CASE OutOfFds
  BY <1>2 DEF OutOfFds
<1>3. CASE OperatorExit
  BY <1>3 DEF OperatorExit
<1> QED BY <1>1, <1>2, <1>3

(* The handlers of main's loop: accept, end of file, read error, a line.    *)
LEMMA LoopStep ==
  ASSUME TypeOK, NEW s \in Session, Accept(s) \/ PollEof(s) \/ PollError(s) \/ PollLine(s)
  PROVE  TypeOK'
<1> USE DEF TypeOK, TableOK, ServerOK, ClientsOK, client, table, fds, exec, PCs
<1>4. CASE Accept(s)
  <2>1. PICK f \in TakeLow(1), i \in give_available_id :
          /\ fd' = [fd EXCEPT ![s] = f]
          /\ all_fds' = all_fds \cup {f}
          /\ open_fds' = open_fds \cup {f}
          /\ id_num' = [id_num EXCEPT ![s] = i]
    BY <1>4 DEF Accept
  <2>2. f \in Fd
    BY TakeLowTypes
  <2>3. i \in Id
    BY BoundsAssumption DEF give_available_id, Unused, Lowest
  <2>4. TableOK'
    <3>1. id_num' \in [Session -> Id] /\ fd' \in [Session -> Fd \cup {NoFd}]
      BY <2>1, <2>2, <2>3
    <3>2. logins' \in Nat /\ arrival' \in [Session -> Nat]
      BY <1>4 DEF Accept
    <3>3. users' = users \cup {s} /\ UNCHANGED <<is_closed, todo, name, env_var, user_pipe>>
      BY <1>4 DEF Accept
    <3> QED BY <3>1, <3>2, <3>3
  <2>5. ServerOK'
    <3>1. /\ UNCHANGED <<scratch, stuck, cur, line, rest, last, environ>>
          /\ all_fds' = all_fds \cup {f} /\ open_fds' = open_fds \cup {f}
      BY <1>4, <2>1 DEF Accept
    <3>2. pc' \in {"select", "poll", "killed"} /\ cout_bad' \in BOOLEAN
      BY <1>4, WriteTypes DEF Accept
    <3> QED BY <2>2, <3>1, <3>2
  <2>6. ClientsOK'
    BY <1>4, WriteTypes DEF Accept, Links
  <2> QED BY <2>4, <2>5, <2>6
<1>5. CASE PollEof(s)
  <2>1. TableOK'
    BY <1>5 DEF PollEof, Turn, First
  <2>2. ServerOK'
    BY <1>5, WriteTypes DEF PollEof, FD_CLR
  <2>3. ClientsOK'
    BY <1>5, WriteTypes DEF PollEof, HearLogout, Links
  <2> QED BY <2>1, <2>2, <2>3
<1>6. CASE PollError(s)
  BY <1>6 DEF PollError
<1>7. CASE PollLine(s)
  <2>1. TableOK' /\ ClientsOK'
    BY <1>7 DEF PollLine
  <2>2. ServerOK'
    <3>1. environ' \in [EnvVars -> Values \cup {Unset}]
      BY <1>7 DEF PollLine, Exported
    <3>2. /\ scratch' \subseteq Fd /\ open_fds' \subseteq Fd
          /\ UNCHANGED <<all_fds, stuck, rest, last, cout_bad>>
      BY <1>7, TakeLowTypes DEF PollLine
    <3>3. pc' = "parse" /\ cur' \in users' /\ cur' \in Session /\ line' \in Inputs /\ line' # None
      BY <1>7, InputsAssumption DEF PollLine, Turn, First
    <3> QED BY <3>1, <3>2, <3>3
  <2> QED BY <2>1, <2>2
<1> QED BY <1>4, <1>5, <1>6, <1>7

(* The prompt, the farewell and the sweep.                                  *)
LEMMA ServedStep == TypeOK /\ (Prompt \/ ShutDown \/ Sweep) => TypeOK'
<1> SUFFICES ASSUME TypeOK, Prompt \/ ShutDown \/ Sweep PROVE TypeOK'
  OBVIOUS
<1> USE DEF TypeOK, TableOK, ServerOK, ClientsOK, client, table, fds, exec, PCs
<1>1. CASE Prompt
  BY <1>1, WriteTypes DEF Prompt, Write, Served
<1>2. CASE ShutDown
  BY <1>2 DEF ShutDown, Served, FD_CLR, Links
<1>3. CASE Sweep
  <2>1. TableOK'
    <3>1. FirstEnv \in [EnvVars -> Values \cup {Unset}] /\ NoPipes \in [Id -> Fd \cup {NoFd}]
      BY EnvAssumption DEF FirstEnv, NoPipes
    <3>2. 0 \in Id
      BY BoundsAssumption
    <3> QED BY <1>3, <3>1, <3>2 DEF Sweep, Leavers
  <2>2. ServerOK' /\ ClientsOK'
    BY <1>3 DEF Sweep, Leavers, Links
  <2> QED BY <2>1, <2>2
<1> QED BY <1>1, <1>2, <1>3

(* The built-in commands.                                                   *)
LEMMA BuiltInStep ==
  TypeOK /\ (Exit \/ ChangeName \/ Yell \/ Tell \/ SetEnv \/ Show \/ Empty \/ Crash) => TypeOK'
<1> SUFFICES ASSUME TypeOK,
                    Exit \/ ChangeName \/ Yell \/ Tell \/ SetEnv \/ Show \/ Empty \/ Crash
             PROVE  TypeOK'
  OBVIOUS
<1> USE DEF TypeOK, TableOK, ServerOK, ClientsOK, client, table, fds, exec, PCs, Parsing
<1>1. CASE Exit
  <2>1. clean_user_pipe(cur) \in [Session -> [Id -> Fd \cup {NoFd}]]
    BY DEF clean_user_pipe
  <2>2. TableOK'
    BY <1>1, <2>1, LineTypes DEF Exit
  <2>3. ServerOK' /\ ClientsOK'
    BY <1>1, WriteTypes DEF Exit, Write, HearLogout
  <2> QED BY <2>2, <2>3
<1>2. CASE ChangeName
  BY <1>2, WriteTypes, LineTypes DEF ChangeName, Write
<1>3. CASE Yell
  BY <1>3, WriteTypes DEF Yell, Write
<1>4. CASE Tell
  BY <1>4, WriteTypes DEF Tell, Write
<1>5. CASE SetEnv
  BY <1>5, LineTypes DEF SetEnv
<1>6. CASE Show
  BY <1>6, WriteTypes DEF Show, Write
<1>7. CASE Empty
  BY <1>7 DEF Empty
<1>8. CASE Crash
  BY <1>8 DEF Crash
<1> QED BY <1>1, <1>2, <1>3, <1>4, <1>5, <1>6, <1>7, <1>8


(* exe_bin.                                                                 *)
LEMMA RunStep ==
  ASSUME TypeOK,
         BeginRun \/ NoPipeLeft \/ StageReadFails \/ StageWriteFails \/ StageRuns \/ EndRun
  PROVE  TypeOK'
<1> USE DEF TypeOK, TableOK, ServerOK, ClientsOK, client, table, fds, exec, PCs
<1>1. CASE BeginRun
  BY <1>1, TakeLowTypes, LineTypes DEF BeginRun, Parsing
<1>2. CASE NoPipeLeft
  BY <1>2 DEF NoPipeLeft
<1>3. CASE StageReadFails
  <2>1. AtStage /\ cur \in users /\ Tail(rest) \in Seq(Stage)
    BY <1>3, StageTypes DEF StageReadFails
  <2> PICK next \in AfterWait : Write({cur}, next)
    BY <1>3 DEF StageReadFails
  <2>2. next \in {"hung", "stage"}
    BY DEF AfterWait
  <2>3. TableOK' /\ ClientsOK'
    BY <1>3, <2>2, WriteTypes DEF StageReadFails, Write
  <2>4. ServerOK'
    BY <1>3, <2>1, <2>2, WriteTypes DEF StageReadFails, Waited, Write, AtStage
  <2> QED BY <2>3, <2>4
<1>4. CASE StageWriteFails
  <2>1. AtStage /\ cur \in users /\ Tail(rest) \in Seq(Stage)
    BY <1>4, StageTypes DEF StageWriteFails
  <2> PICK next \in AfterWait : Write(IF S.rd # -1 THEN Online ELSE {cur}, next)
    BY <1>4 DEF StageWriteFails
  <2>2. next \in {"hung", "stage"}
    BY DEF AfterWait
  <2>3. TableOK' /\ ClientsOK'
    BY <1>4, <2>2, WriteTypes DEF StageWriteFails, Write
  <2>4. ServerOK'
    BY <1>4, <2>1, <2>2, WriteTypes DEF StageWriteFails, Waited, Write, AtStage
  <2> QED BY <2>3, <2>4
<1>5. CASE StageRuns
  <2>1. \A p \in [Session -> [Id -> Fd \cup {NoFd}]] :
           Unpipe(p) \in [Session -> [Id -> Fd \cup {NoFd}]]
    BY DEF Unpipe
  <2>2. /\ user_pipe' \in [Session -> [Id -> Fd \cup {NoFd}]]
        /\ open_fds' \subseteq Fd
        /\ stuck' \subseteq Fd
    <3>1. CASE S.wr = -1
      BY <1>5, <2>1, <3>1 DEF StageRuns
    <3>2. CASE S.wr # -1
      <4>1. PICK f \in TakeLow(1) :
              /\ user_pipe' = Unpipe([user_pipe EXCEPT ![cur][S.wr] = f])
              /\ open_fds' = (open_fds \ ReadEnds) \cup {f}
              /\ stuck' = (stuck \ ReadEnds) \cup {g \in {f} : S.big}
        BY <1>5, <3>2 DEF StageRuns
      <4>2. f \in Fd
        BY TakeLowTypes
      <4>3. [user_pipe EXCEPT ![cur][S.wr] = f] \in [Session -> [Id -> Fd \cup {NoFd}]]
        BY <1>5, <4>2, StageTypes DEF StageRuns
      <4> QED BY <2>1, <4>1, <4>2, <4>3
    <3> QED BY <3>1, <3>2
  <2>3. TableOK'
    BY <1>5, <2>2 DEF StageRuns
  <2>4. ServerOK'
    BY <1>5, <2>2, WriteTypes, StageTypes DEF StageRuns, HowItEnds, Write, AtStage
  <2>5. ClientsOK'
    BY <1>5, WriteTypes DEF StageRuns, Write
  <2> QED BY <2>3, <2>4, <2>5
<1>6. CASE EndRun
  BY <1>6 DEF EndRun
<1> QED BY <1>1, <1>2, <1>3, <1>4, <1>5, <1>6

(* No step of the server, the operator or a client disturbs a type.         *)
LEMMA TypeStep == TypeOK /\ [Next]_vars => TypeOK'
<1> SUFFICES ASSUME TypeOK, [Next]_vars PROVE TypeOK'
  OBVIOUS
<1>1. CASE UNCHANGED vars
  BY <1>1 DEF TypeOK, TableOK, ServerOK, ClientsOK, vars, client, table, fds, exec
<1>2. CASE Clients
  BY <1>2, ClientsStep
<1>3. CASE Select \/ OutOfFds \/ OperatorExit
  BY <1>3, SelectStep
<1>4. ASSUME NEW s \in Session, Accept(s) \/ PollEof(s) \/ PollError(s) \/ PollLine(s)
      PROVE  TypeOK'
  BY <1>4, LoopStep
<1>5. CASE Exit \/ ChangeName \/ Yell \/ Tell \/ SetEnv \/ Show \/ Empty \/ Crash
  BY <1>5, BuiltInStep
<1>6. CASE BeginRun \/ NoPipeLeft \/ StageReadFails \/ StageWriteFails \/ StageRuns \/ EndRun
  BY <1>6, RunStep
<1>7. CASE Prompt \/ ShutDown \/ Sweep
  BY <1>7, ServedStep
<1> QED BY <1>1, <1>2, <1>3, <1>4, <1>5, <1>6, <1>7 DEF Next, Server

(* In every execution the program's state has the types it is declared      *)
(* with, and a command is only ever served for a user in the table: the     *)
(* index parser and exe_bin are called with stays valid.                    *)
THEOREM TypeCorrect == Spec => []TypeOK
<1>1. Init => TypeOK
  BY InitTypes
<1>2. TypeOK /\ [Next]_vars => TypeOK'
  BY TypeStep
<1> QED BY <1>1, <1>2, PTL DEF Spec


-------------------------------------------------------------------------------
(* Only a login, the sweep and the name command touch the users of the      *)
(* table, their ids and their names.                                        *)
LEMMA WhoTouchesTheTable ==
  [Next]_vars => \/ \E s \in Session : Accept(s)
                 \/ Sweep
                 \/ ChangeName
                 \/ UNCHANGED <<users, id_num, name>>
<1> SUFFICES ASSUME [Next]_vars, ~Sweep, ~ChangeName, \A s \in Session : ~Accept(s)
             PROVE  UNCHANGED <<users, id_num, name>>
  OBVIOUS
<1> USE DEF table
<1>1. CASE UNCHANGED vars
  BY <1>1 DEF vars
<1>2. CASE Clients
  BY <1>2 DEF Clients, Connect, HangUp, Abort, ResetArrives, Send, server
<1>3. CASE Select \/ OutOfFds \/ OperatorExit \/ Prompt \/ ShutDown
  BY <1>3 DEF Select, OutOfFds, OperatorExit, Prompt, ShutDown
<1>4. CASE \E s \in Session : PollEof(s) \/ PollError(s) \/ PollLine(s)
  BY <1>4 DEF PollEof, PollError, PollLine
<1>5. CASE Exit \/ Yell \/ Tell \/ SetEnv \/ Show \/ Empty \/ Crash
  BY <1>5 DEF Exit, Yell, Tell, SetEnv, Show, Empty, Crash
<1>6. CASE BeginRun \/ NoPipeLeft \/ StageReadFails \/ StageWriteFails \/ StageRuns \/ EndRun
  BY <1>6 DEF BeginRun, NoPipeLeft, StageReadFails, StageWriteFails, StageRuns, EndRun
<1> QED BY <1>1, <1>2, <1>3, <1>4, <1>5, <1>6 DEF Next, Server

(* The id a new user gets is no other user's.                               *)
LEMMA NewIdIsUnused ==
  ASSUME NEW i \in give_available_id, NEW t \in users, i # 0
  PROVE  id_num[t] # i
BY DEF give_available_id, Unused, Lowest

(* A new user takes an unused id, nobody else changes one.                 *)
LEMMA IdsStep == TypeOK /\ IdsUnique /\ [Next]_vars => IdsUnique'
<1> SUFFICES ASSUME TypeOK, IdsUnique, [Next]_vars,
                    NEW s \in users', NEW t \in users', s # t, id_num'[s] = id_num'[t]
             PROVE  id_num'[s] = 0
  BY DEF IdsUnique
<1>1. ASSUME NEW n \in Session, Accept(n)
      PROVE  id_num'[s] = 0
  <2> PICK i \in give_available_id : id_num' = [id_num EXCEPT ![n] = i]
    BY <1>1 DEF Accept
  <2>1. users' = users \cup {n} /\ id_num \in [Session -> Id] /\ users \subseteq Session
    BY <1>1 DEF Accept, TypeOK, TableOK
  <2>2. CASE n \notin {s, t}
    BY <2>1, <2>2 DEF IdsUnique
  <2>3. CASE n = s
    BY <2>1, <2>3, NewIdIsUnused
  <2>4. CASE n = t
    BY <2>1, <2>4, NewIdIsUnused
  <2> QED BY <2>2, <2>3, <2>4
<1>2. CASE Sweep
  <2>1. users' = users \ is_closed /\ users \subseteq Session
    BY <1>2 DEF Sweep, Leavers, TypeOK, TableOK
  <2>2. \A u \in users' : id_num'[u] = id_num[u]
    BY <1>2, <2>1 DEF Sweep, Leavers
  <2> QED BY <2>1, <2>2 DEF IdsUnique
<1>3. CASE ChangeName
  BY <1>3 DEF ChangeName, table, IdsUnique
<1>4. CASE UNCHANGED <<users, id_num, name>>
  BY <1>4 DEF IdsUnique
<1> QED BY <1>1, <1>2, <1>3, <1>4, WhoTouchesTheTable

(* Two users in the table never share an id other than 0, however logins,   *)
(* exits and broken connections interleave within a round.                  *)
THEOREM IdsAreUnique == Spec => []IdsUnique
<1>1. Init => IdsUnique
  BY DEF Init, IdsUnique
<1> QED BY <1>1, IdsStep, TypeCorrect, PTL DEF Spec

(* The invariant behind NamesUnique: a session outside the table has no     *)
(* name, so a login brings none in (the constructor of user_info).          *)
NamesInv == NamesUnique /\ \A s \in Session \ users : name[s] = NoName

LEMMA NamesStep == TypeOK /\ NamesInv /\ [Next]_vars => NamesInv'
<1> SUFFICES ASSUME TypeOK, NamesInv, [Next]_vars PROVE NamesInv'
  OBVIOUS
<1> USE DEF NamesInv, NamesUnique
<1>1. users \subseteq Session /\ is_closed \subseteq users
      /\ name \in [Session -> Names \cup {NoName}]
  BY DEF TypeOK, TableOK
<1>2. ASSUME NEW n \in Session, Accept(n)
      PROVE  NamesInv'
  <2>1. users' = users \cup {n} /\ name' = name
    BY <1>2 DEF Accept
  <2>2. CASE n \in users
    BY <2>1, <2>2
  <2>3. CASE n \notin users
    BY <2>1, <2>3
  <2> QED BY <2>2, <2>3
<1>3. CASE Sweep
  <2>1. users' = users \ is_closed
        /\ name' = [s \in Session |-> IF s \in is_closed THEN NoName ELSE name[s]]
    BY <1>3 DEF Sweep, Leavers
  <2> QED BY <1>1, <2>1
<1>4. CASE ChangeName
  <2>1. cur \in users /\ users' = users
    BY <1>4, LineTypes DEF ChangeName, Parsing, table
  <2>2. CASE NameTaken(line.arg)
    BY <1>4, <2>1, <2>2 DEF ChangeName
  <2>3. CASE ~NameTaken(line.arg)
    BY <1>1, <1>4, <2>1, <2>3 DEF ChangeName, NameTaken
  <2> QED BY <2>2, <2>3
<1>5. CASE UNCHANGED <<users, id_num, name>>
  BY <1>5
<1> QED BY <1>2, <1>3, <1>4, <1>5, WhoTouchesTheTable

(* Two users in the table never share a chosen name.                        *)
THEOREM NamesAreUnique == Spec => []NamesUnique
<1>1. Init => NamesInv
  BY DEF Init, NamesInv, NamesUnique
<1>2. NamesInv => NamesUnique
  BY DEF NamesInv
<1> QED BY <1>1, <1>2, NamesStep, TypeCorrect, PTL DEF Spec

-------------------------------------------------------------------------------
(* Who holds which descriptor.                                             *)

(* A round: users leave only between the polling of a ready user and the    *)
(* sweep, who left is not polled any more, and the user being served was    *)
(* taken off the ready ones.                                                *)
RoundInv ==
  /\ pc \in {"select", "accept"} => is_closed = {}
  /\ pc \in {"select", "accept", "poll"} => cur = None
  /\ pc \in {"parse", "stage"} => cur \notin is_closed
  /\ todo \cap (is_closed \cup {cur}) = {}
  /\ cur # None => cur \in users

(* A session that was not accepted has nothing in the table.                *)
OutsideInv ==
  \A s \in Session : /\ link[s] \in {"off", "backlog"} => s \notin users
                     /\ s \notin users => user_pipe[s] = NoPipes

(* OneHolder, strengthened to the user that typed exit: its socket is still *)
(* open, and watched, until it was sent the farewell.                       *)
Holders == Online \cup ({cur} \ {None})
Taken   == (0..socket_fd) \cup scratch
HolderInv ==
  /\ 0..socket_fd \subseteq open_fds
  /\ scratch \subseteq open_fds \ (0..socket_fd)
  /\ \A s \in Holders : /\ fd[s] \in open_fds \ Taken
                        /\ \A t \in Holders \ {s} : fd[t] # fd[s]
  /\ \A s \in users : \A i \in {j \in Id : user_pipe[s][j] # NoFd} :
       /\ user_pipe[s][i] \in open_fds \ Taken
       /\ \A t \in Holders : fd[t] # user_pipe[s][i]
       /\ \A t \in users : \A j \in Id :
            user_pipe[t][j] = user_pipe[s][i] => t = s /\ j = i

WatchInv == all_fds = {0, socket_fd} \cup {fd[s] : s \in Holders}

FdInv == TypeOK /\ RoundInv /\ OutsideInv /\ HolderInv /\ WatchInv

-------------------------------------------------------------------------------
(* The steps that touch none of what these invariants are about but pc and  *)
(* the connections: the clients, the operator, the built-in commands other  *)
(* than exit, and the ends of a command line that fails.                    *)
Quiet == [Next]_vars /\ ~Select /\ ~Exit /\ ~BeginRun /\ ~StageRuns /\ ~Prompt /\ ~ShutDown
         /\ ~Sweep /\ \A s \in Session : ~(Accept(s) \/ PollEof(s) \/ PollLine(s))

(* Writing to sockets brings no session back to where it was not accepted.  *)
LEMMA TouchedAccepted ==
  ASSUME NEW T, NEW s \in Session, Touched(T)[s] \in {"off", "backlog"}
  PROVE  Touched(T)[s] = link[s]
BY DEF Touched

LEMMA QuietStep ==
  ASSUME TypeOK, Quiet
  PROVE  /\ UNCHANGED <<table, user_pipe, all_fds, open_fds, scratch, todo, cur>>
         /\ \/ pc' = pc
            \/ pc' \in {"killed", "crashed", "exited", "stopped"}
            \/ pc \in {"parse", "stage"} /\ pc' \in {"prompt", "hung"}
         /\ \A s \in Session : link'[s] \in {"off", "backlog"} => link[s] \in {"off", "backlog"}
<1> USE DEF table, fds, exec, client, server
<1>1. CASE UNCHANGED vars
  BY <1>1 DEF vars
<1>2. CASE Clients
  <2>1. link \in [Session -> Links]
    BY DEF TypeOK, ClientsOK
  <2> QED BY <1>2, <2>1 DEF Clients, Connect, HangUp, Abort, ResetArrives, Send
<1>3. CASE OutOfFds \/ OperatorExit \/ \E s \in Session : PollError(s)
  BY <1>3 DEF OutOfFds, OperatorExit, PollError
<1>4. CASE ChangeName \/ Yell \/ Tell \/ SetEnv \/ Show \/ Empty \/ Crash
  <2>1. /\ UNCHANGED <<table, user_pipe, fds, todo, exec>>
        /\ pc = "parse" /\ pc' \in {"prompt", "killed", "crashed"}
    BY <1>4 DEF ChangeName, Yell, Tell, SetEnv, Show, Empty, Crash, Parsing, Write, Outcome
  <2>2. \A s \in Session : link'[s] \in {"off", "backlog"} => link[s] \in {"off", "backlog"}
    BY <1>4, TouchedAccepted DEF ChangeName, Yell, Tell, SetEnv, Show, Empty, Crash, Write
  <2> QED BY <2>1, <2>2
<1>5. CASE NoPipeLeft \/ StageReadFails \/ StageWriteFails \/ EndRun
  <2>1. /\ UNCHANGED <<table, user_pipe, all_fds, open_fds, scratch, todo, cur>>
        /\ pc \in {"parse", "stage"} /\ pc' \in {"exited", "killed", "hung", "stage", "prompt"}
        /\ pc' = "stage" => pc = "stage"
    BY <1>5 DEF NoPipeLeft, StageReadFails, StageWriteFails, EndRun, AtStage, AfterWait,
                Parsing, Write, Outcome
  <2>2. \A s \in Session : link'[s] \in {"off", "backlog"} => link[s] \in {"off", "backlog"}
    BY <1>5, TouchedAccepted DEF NoPipeLeft, StageReadFails, StageWriteFails, EndRun, Write
  <2> QED BY <2>1, <2>2
<1> QED BY <1>1, <1>2, <1>3, <1>4, <1>5 DEF Quiet, Next, Server

Kept == RoundInv /\ OutsideInv /\ HolderInv /\ WatchInv

LEMMA FdInit == Init => FdInv
<1> SUFFICES ASSUME Init PROVE FdInv
  OBVIOUS
<1> USE DEF Init
<1>1. RoundInv /\ OutsideInv
  BY DEF RoundInv, OutsideInv
<1>2. HolderInv /\ WatchInv
  BY BoundsAssumption DEF HolderInv, WatchInv, Holders, Online, Taken
<1> QED BY <1>1, <1>2, InitTypes DEF FdInv

LEMMA FdQuiet == ASSUME FdInv, Quiet PROVE Kept'
<1>1. /\ UNCHANGED <<users, is_closed, fd, user_pipe, all_fds, open_fds, scratch, todo, cur>>
      /\ \/ pc' = pc
         \/ pc' \in {"killed", "crashed", "exited", "stopped"}
         \/ pc \in {"parse", "stage"} /\ pc' \in {"prompt", "hung"}
      /\ \A s \in Session : link'[s] \in {"off", "backlog"} => link[s] \in {"off", "backlog"}
  BY QuietStep DEF FdInv, table
<1>2. RoundInv'
  BY <1>1 DEF FdInv, RoundInv
<1>3. OutsideInv'
  BY <1>1 DEF FdInv, OutsideInv
<1>4. HolderInv' /\ WatchInv'
  BY <1>1 DEF FdInv, HolderInv, WatchInv, Holders, Online, Taken
<1> QED BY <1>2, <1>3, <1>4 DEF Kept

(* The descriptors that dup, pipe and accept return were not in use.        *)
LEMMA TakeLowFree == ASSUME NEW n, NEW f \in TakeLow(n) PROVE f \in Fd /\ f \notin open_fds
BY DEF TakeLow, Free

LEMMA FdSelect == ASSUME FdInv, Select PROVE Kept'
<1>1. /\ pc = "select" /\ pc' \in {"accept", "poll"} /\ todo' \subseteq users
      /\ UNCHANGED <<users, is_closed, fd, user_pipe, all_fds, open_fds, scratch, cur, link>>
  BY DEF Select, table, fds, exec
<1>2. RoundInv'
  BY <1>1, InputsAssumption DEF FdInv, RoundInv, TypeOK, TableOK
<1>3. OutsideInv'
  BY <1>1 DEF FdInv, OutsideInv
<1>4. HolderInv' /\ WatchInv'
  BY <1>1 DEF FdInv, HolderInv, WatchInv, Holders, Online, Taken
<1> QED BY <1>2, <1>3, <1>4 DEF Kept

LEMMA FdAccept == ASSUME FdInv, NEW s \in Session, Accept(s) PROVE Kept'
<1> USE DEF FdInv
<1>1. PICK f \in TakeLow(1) : /\ fd' = [fd EXCEPT ![s] = f]
                              /\ all_fds' = all_fds \cup {f}
                              /\ open_fds' = open_fds \cup {f}
  BY DEF Accept
<1>2. /\ pc = "accept" /\ cur = None /\ is_closed = {} /\ s \notin users
      /\ users' = users \cup {s} /\ pc' \in {"select", "poll", "killed"}
      /\ UNCHANGED <<is_closed, user_pipe, scratch, todo, cur>>
      /\ user_pipe[s] = NoPipes
  BY DEF Accept, Backlog, RoundInv, OutsideInv, exec, Outcome
<1>3. f \in Fd /\ f \notin open_fds
  BY <1>1, TakeLowFree
<1>4. /\ users \subseteq Session /\ fd \in [Session -> Fd \cup {NoFd}]
      /\ user_pipe \in [Session -> [Id -> Fd \cup {NoFd}]] /\ todo \subseteq users
  BY DEF TypeOK, TableOK
<1>5. RoundInv'
  BY <1>2, <1>4, InputsAssumption DEF RoundInv
<1>6. OutsideInv'
  <2>1. \A t \in Session : link'[t] \in {"off", "backlog"} => t # s /\ link[t] \in {"off", "backlog"}
    <3>1. link' = [Touched(Online) EXCEPT ![s] = "on"] /\ Touched(Online) \in [Session -> Links]
      BY WriteTypes DEF Accept, TypeOK, ServerOK
    <3> QED BY <3>1, TouchedAccepted
  <2> QED BY <1>2, <2>1 DEF OutsideInv
<1>7. Holders = users /\ Holders' = users \cup {s}
  BY <1>2 DEF Holders, Online
<1>8. HolderInv'
  <2>1. \A t \in users : fd'[t] = fd[t] /\ t # s /\ fd[t] \in open_fds
    BY <1>1, <1>2, <1>4, <1>7 DEF HolderInv
  <2>2. fd'[s] = f /\ f \notin Taken
    BY <1>1, <1>3, <1>4 DEF HolderInv, Taken
  <2>3. \A i \in Id : user_pipe[s][i] = NoFd
    BY <1>2 DEF NoPipes
  <2> QED BY <1>1, <1>2, <1>3, <1>7, <2>1, <2>2, <2>3 DEF HolderInv, Taken
<1>9. WatchInv'
  BY <1>1, <1>2, <1>4, <1>7 DEF WatchInv
<1> QED BY <1>5, <1>6, <1>8, <1>9 DEF Kept

(* A read of 0: the descriptor is closed and forgotten at once.             *)
LEMMA FdPollEof == ASSUME FdInv, NEW s \in Session, PollEof(s) PROVE Kept'
<1> USE DEF FdInv
<1>1. /\ pc = "poll" /\ s \in todo /\ pc' \in {"poll", "killed"}
      /\ is_closed' = is_closed \cup {s} /\ todo' = todo \ {s}
      /\ open_fds' = open_fds \ {fd[s]} /\ all_fds' = all_fds \ {fd[s]}
      /\ UNCHANGED <<users, fd, user_pipe, scratch, cur>>
  BY DEF PollEof, Turn, First, FD_CLR, exec, Outcome
<1>2. /\ cur = None /\ s \notin is_closed /\ s \in users
      /\ users \subseteq Session /\ todo \subseteq users /\ is_closed \subseteq users
  BY <1>1 DEF RoundInv, TypeOK, TableOK
<1>3. RoundInv'
  BY <1>1, <1>2, InputsAssumption DEF RoundInv
<1>4. OutsideInv'
  <2>1. link' = [Touched(Online \ {s}) EXCEPT ![s] = "gone"]
        /\ Touched(Online \ {s}) \in [Session -> Links]
    BY WriteTypes DEF PollEof, TypeOK, ServerOK
  <2> QED BY <1>1, <2>1, TouchedAccepted DEF OutsideInv
<1>5. s \in Holders /\ Holders' = Holders \ {s}
  BY <1>1, <1>2 DEF Holders, Online
<1>6. HolderInv'
  BY <1>1, <1>2, <1>5 DEF HolderInv, Taken
<1>7. WatchInv'
  <2>1. fd[s] \notin {0, socket_fd} /\ \A t \in Holders' : fd[t] # fd[s]
    BY <1>5 DEF HolderInv, Taken, socket_fd
  <2> QED BY <1>1, <1>5, <2>1 DEF WatchInv
<1> QED BY <1>3, <1>4, <1>6, <1>7 DEF Kept

(* A line is read: the user is being served now.                            *)
LEMMA FdPollLine == ASSUME FdInv, NEW s \in Session, PollLine(s) PROVE Kept'
<1> USE DEF FdInv
<1>1. /\ pc = "poll" /\ s \in todo /\ pc' = "parse" /\ cur' = s /\ todo' = todo \ {s}
      /\ scratch' = TakeLow(2) /\ open_fds' = open_fds \cup TakeLow(2)
      /\ UNCHANGED <<users, is_closed, fd, user_pipe, all_fds, link>>
  BY DEF PollLine, Turn, First, table
<1>2. /\ cur = None /\ s \notin is_closed /\ s \in users /\ s # None
      /\ todo \subseteq users
  BY <1>1, InputsAssumption DEF RoundInv, TypeOK, TableOK
<1>3. RoundInv'
  BY <1>1, <1>2 DEF RoundInv
<1>4. OutsideInv'
  BY <1>1 DEF OutsideInv
<1>5. Holders' = Holders
  BY <1>1, <1>2 DEF Holders, Online
<1>6. \A f \in TakeLow(2) : f \notin open_fds
  BY TakeLowFree
<1>7. HolderInv'
  BY <1>1, <1>5, <1>6 DEF HolderInv, Taken
<1>8. WatchInv'
  BY <1>1, <1>5 DEF WatchInv
<1> QED BY <1>3, <1>4, <1>7, <1>8 DEF Kept

(* exit: the pipes to the user are forgotten, its socket stays.             *)
LEMMA FdExit == ASSUME FdInv, Exit PROVE Kept'
<1> USE DEF FdInv
<1>1. /\ pc = "parse" /\ pc' \in {"prompt", "killed"} /\ is_closed' = is_closed \cup {cur}
      /\ UNCHANGED <<users, fd, todo, cur, all_fds, open_fds, scratch>>
      /\ user_pipe' = clean_user_pipe(cur) /\ link' = Touched(Online \ {cur})
  BY DEF Exit, Parsing, Write, Outcome, fds, exec
<1>2. /\ cur \in users /\ cur \in Session /\ cur # None /\ id_num[cur] \in Id
      /\ user_pipe \in [Session -> [Id -> Fd \cup {NoFd}]] /\ users \subseteq Session
  BY <1>1, LineTypes, InputsAssumption DEF TypeOK, TableOK
<1>3. RoundInv'
  BY <1>1, <1>2 DEF RoundInv
<1>4. OutsideInv'
  BY <1>1, TouchedAccepted DEF OutsideInv, clean_user_pipe
<1>5. Holders' = Holders
  BY <1>1, <1>2 DEF Holders, Online
<1>6. \A s \in users : \A i \in Id : user_pipe'[s][i] \in {NoFd, user_pipe[s][i]}
  BY <1>1, <1>2 DEF clean_user_pipe
<1>7. HolderInv'
  BY <1>1, <1>5, <1>6 DEF HolderInv, Taken
<1>8. WatchInv'
  BY <1>1, <1>5 DEF WatchInv
<1> QED BY <1>3, <1>4, <1>7, <1>8 DEF Kept

(* The descriptors of a command line.                                       *)
LEMMA FdBeginRun == ASSUME FdInv, BeginRun PROVE Kept'
<1> USE DEF FdInv
<1>1. /\ pc = "parse" /\ pc' = "stage"
      /\ open_fds' = open_fds \cup TakeLow(Needed)
      /\ scratch' = scratch \cup (TakeLow(Needed) \ TakeLow(1))
      /\ UNCHANGED <<users, is_closed, fd, user_pipe, all_fds, todo, cur, link>>
  BY DEF BeginRun, Parsing, table
<1>2. RoundInv' /\ OutsideInv'
  BY <1>1 DEF RoundInv, OutsideInv
<1>3. Holders' = Holders
  BY <1>1 DEF Holders, Online
<1>4. \A f \in TakeLow(Needed) : f \notin open_fds
  BY TakeLowFree
<1>5. HolderInv'
  BY <1>1, <1>3, <1>4 DEF HolderInv, Taken
<1>6. WatchInv'
  BY <1>1, <1>3 DEF WatchInv
<1> QED BY <1>2, <1>5, <1>6 DEF Kept

(* The prompt and the farewell.                                             *)
LEMMA FdServed == ASSUME FdInv, Prompt \/ ShutDown PROVE Kept'
<1> USE DEF FdInv
<1>1. /\ pc = "prompt" /\ scratch' = {} /\ open_fds' = open_fds \ scratch /\ cur' = None
      /\ UNCHANGED <<users, is_closed, fd, user_pipe, todo>>
      /\ pc' \in {"poll", "killed"}
  BY DEF Prompt, ShutDown, Served, Write, Outcome, table
<1>2. cur \in users /\ cur \in Session /\ cur # None /\ link \in [Session -> Links]
  BY <1>1, InputsAssumption DEF TypeOK, TableOK, ServerOK, ClientsOK
<1>3. RoundInv'
  BY <1>1, InputsAssumption DEF RoundInv, TypeOK, TableOK
<1>4. OutsideInv'
  BY <1>1, <1>2, TouchedAccepted DEF OutsideInv, Prompt, ShutDown, Write
<1>5. Holders' = Online /\ Holders = Online \cup {cur}
  BY <1>1, <1>2 DEF Holders, Online
<1>6. HolderInv'
  BY <1>1, <1>5 DEF HolderInv, Taken
<1>7. WatchInv'
  <2>1. CASE Prompt
    <3>1. cur \in Online /\ all_fds' = all_fds
      BY <1>2, <2>1 DEF Prompt, Online
    <3> QED BY <1>1, <1>5, <3>1 DEF WatchInv
  <2>2. CASE ShutDown
    <3>1. cur \notin Online /\ all_fds' = all_fds \ {fd[cur]}
      BY <2>2 DEF ShutDown, FD_CLR, Online
    <3>2. /\ fd[cur] \notin {0, socket_fd}
          /\ \A t \in Online : fd[t] # fd[cur]
      BY <1>5, <3>1 DEF HolderInv, Taken, socket_fd
    <3> QED BY <1>1, <1>5, <3>1, <3>2 DEF WatchInv
  <2> QED BY <2>1, <2>2
<1> QED BY <1>3, <1>4, <1>6, <1>7 DEF Kept

(* The sweep: who left takes the rest of its pipes along.                   *)
LEMMA FdSweep == ASSUME FdInv, Sweep PROVE Kept'
<1> USE DEF FdInv
<1>1. /\ pc = "poll" /\ pc' = "select" /\ todo = {} /\ todo' = {}
      /\ users' = users \ is_closed /\ is_closed' = {}
      /\ fd' = [s \in Session |-> IF s \in is_closed THEN NoFd ELSE fd[s]]
      /\ user_pipe' = [s \in Session |-> IF s \in is_closed THEN NoPipes ELSE user_pipe[s]]
      /\ link' = [s \in Session |-> IF s \in is_closed THEN "gone" ELSE link[s]]
      /\ UNCHANGED <<all_fds, open_fds, scratch, cur>>
  BY DEF Sweep, Leavers, fds, exec
<1>2. cur = None /\ users \subseteq Session
  BY <1>1 DEF RoundInv, TypeOK, TableOK
<1>3. RoundInv'
  BY <1>1, <1>2 DEF RoundInv
<1>4. OutsideInv'
  BY <1>1 DEF OutsideInv
<1>5. Holders' = Holders /\ Holders = users' /\ \A s \in users' : fd'[s] = fd[s]
  BY <1>1, <1>2 DEF Holders, Online
<1>6. \A s \in users' : user_pipe'[s] = user_pipe[s]
  BY <1>1, <1>2
<1>7. HolderInv'
  BY <1>1, <1>5, <1>6 DEF HolderInv, Taken
<1>8. WatchInv'
  BY <1>1, <1>5 DEF WatchInv
<1> QED BY <1>3, <1>4, <1>7, <1>8 DEF Kept

(* What a stage does to the pipes and descriptors: the pipe it read is      *)
(* forgotten and closed, the pipe it writes gets a descriptor nobody has.   *)
LEMMA StagePipes ==
  ASSUME FdInv, StageRuns
  PROVE  /\ \A t \in Session : \A i \in Id :
              \/ user_pipe'[t][i] = NoFd
              \/ user_pipe'[t][i] = user_pipe[t][i] /\ user_pipe[t][i] \notin ReadEnds
              \/ t = cur /\ i = S.wr /\ user_pipe'[t][i] \in open_fds' \ open_fds
         /\ open_fds \ ReadEnds \subseteq open_fds'
         /\ ReadEnds \subseteq {user_pipe[t][i] : t \in users, i \in Id}
<1> USE DEF FdInv
<1>1. /\ cur \in users /\ cur \in Session /\ id_num[cur] \in Id /\ AtStage
      /\ user_pipe \in [Session -> [Id -> Fd \cup {NoFd}]] /\ users \subseteq Session
  BY StageTypes DEF StageRuns, TypeOK, TableOK
<1>2. \A t \in WithId(S.rd) : t \in users
  BY DEF WithId, First
<1>3. ReadEnds \subseteq {user_pipe[t][i] : t \in users, i \in Id}
  BY <1>1, <1>2 DEF ReadEnds
<1>4. \A p \in [Session -> [Id -> Fd \cup {NoFd}]], t \in Session, i \in Id :
        \/ Unpipe(p)[t][i] = NoFd
        \/ Unpipe(p)[t][i] = p[t][i] /\ (t \in WithId(S.rd) /\ S.rd # -1 => i # id_num[cur])
  BY <1>1 DEF Unpipe
<1>5. \A t \in users, i \in Id : user_pipe[t][i] \in ReadEnds /\ user_pipe[t][i] # NoFd
        => t \in WithId(S.rd) /\ S.rd # -1 /\ i = id_num[cur]
  BY <1>1, <1>2 DEF ReadEnds, HolderInv
<1>6. \A t \in Session : t \notin users => \A i \in Id : user_pipe[t][i] = NoFd
  BY DEF OutsideInv, NoPipes
<1>7. CASE S.wr = -1
  <2>1. user_pipe' = Unpipe(user_pipe) /\ open_fds' = open_fds \ ReadEnds
    BY <1>7 DEF StageRuns
  <2> QED BY <1>1, <1>3, <1>4, <1>5, <1>6, <2>1
<1>8. CASE S.wr # -1
  <2>1. PICK f \in TakeLow(1) :
          /\ user_pipe' = Unpipe([user_pipe EXCEPT ![cur][S.wr] = f])
          /\ open_fds' = (open_fds \ ReadEnds) \cup {f}
    BY <1>8 DEF StageRuns
  <2>2. f \in Fd /\ f \notin open_fds
    BY <2>1, TakeLowFree
  <2> DEFINE p == [user_pipe EXCEPT ![cur][S.wr] = f]
  <2>3. p \in [Session -> [Id -> Fd \cup {NoFd}]]
    BY <1>1, <2>2
  <2>4. \A t \in Session, i \in Id : p[t][i] = IF t = cur /\ i = S.wr THEN f ELSE user_pipe[t][i]
    BY <1>1
  <2>5. user_pipe' = Unpipe(p)
    BY <2>1
  <2> HIDE DEF p
  <2>6. ASSUME NEW t \in Session, NEW i \in Id, user_pipe'[t][i] # NoFd
        PROVE  \/ user_pipe'[t][i] = user_pipe[t][i] /\ user_pipe[t][i] \notin ReadEnds
               \/ t = cur /\ i = S.wr /\ user_pipe'[t][i] \in open_fds' \ open_fds
    <3>1. user_pipe'[t][i] = p[t][i] /\ (t \in WithId(S.rd) /\ S.rd # -1 => i # id_num[cur])
      BY <1>4, <2>3, <2>5, <2>6
    <3>2. CASE t = cur /\ i = S.wr
      BY <2>1, <2>2, <2>4, <3>1, <3>2
    <3>3. CASE ~(t = cur /\ i = S.wr)
      <4>1. user_pipe'[t][i] = user_pipe[t][i]
        BY <2>4, <3>1, <3>3
      <4> QED BY <1>5, <1>6, <2>6, <3>1, <4>1
    <3> QED BY <3>2, <3>3
  <2>7. open_fds \ ReadEnds \subseteq open_fds'
    BY <2>1
  <2> HIDE <2>1
  <2> QED BY <1>3, <2>6, <2>7
<1> QED BY <1>7, <1>8

LEMMA FdStageRuns == ASSUME FdInv, StageRuns PROVE Kept'
<1> USE DEF FdInv
<1>1. /\ pc = "stage" /\ pc' \in {"stage", "killed"} /\ cur \in users /\ cur \in Session
      /\ UNCHANGED <<users, is_closed, fd, all_fds, scratch, todo, cur>>
      /\ link' = Touched(IF S.rd # -1 \/ S.wr # -1 THEN Online ELSE {})
  BY StageTypes DEF StageRuns, AtStage, Write, Outcome, table
<1>2. user_pipe \in [Session -> [Id -> Fd \cup {NoFd}]] /\ users \subseteq Session
  BY DEF TypeOK, TableOK
<1>3. RoundInv'
  BY <1>1 DEF RoundInv
<1>4. OutsideInv'
  <2>1. \A s \in Session \ users : user_pipe'[s] = user_pipe[s]
    BY <1>1, <1>2 DEF StageRuns, Unpipe, WithId, First
  <2> QED BY <1>1, <2>1, TouchedAccepted DEF OutsideInv
<1>5. Holders' = Holders
  BY <1>1 DEF Holders, Online
<1>6. HolderInv'
  <2>1. ReadEnds \cap (Taken \cup {fd[s] : s \in Holders}) = {}
    <3> SUFFICES ASSUME NEW f \in ReadEnds, f \in Taken \cup {fd[s] : s \in Holders}
                 PROVE  FALSE
      OBVIOUS
    <3>1. PICK t \in users, i \in Id : user_pipe[t][i] = f
      BY StagePipes
    <3>2. f # NoFd
      BY DEF HolderInv, Taken, TypeOK, ServerOK
    <3> QED BY <3>1, <3>2 DEF HolderInv
  <2>2. 0..socket_fd \subseteq open_fds' /\ scratch \subseteq open_fds' \ (0..socket_fd)
    BY <2>1, StagePipes DEF HolderInv, Taken
  <2>3. \A s \in Holders : /\ fd[s] \in open_fds' \ Taken
                           /\ \A t \in Holders \ {s} : fd[t] # fd[s]
    BY <2>1, StagePipes DEF HolderInv
  <2>4. ASSUME NEW s \in users, NEW i \in Id, user_pipe'[s][i] # NoFd
        PROVE  /\ user_pipe'[s][i] \in open_fds' \ Taken
               /\ \A t \in Holders : fd[t] # user_pipe'[s][i]
    <3>1. CASE user_pipe'[s][i] = user_pipe[s][i] /\ user_pipe[s][i] \notin ReadEnds
      BY <1>2, <2>4, <3>1, StagePipes DEF HolderInv
    <3>2. CASE user_pipe'[s][i] \in open_fds' \ open_fds
      BY <3>2 DEF HolderInv, Taken
    <3> QED BY <1>2, <2>4, <3>1, <3>2, StagePipes
  <2>5. ASSUME NEW s \in users, NEW i \in Id, user_pipe'[s][i] # NoFd,
               NEW t \in users, NEW j \in Id, user_pipe'[t][j] = user_pipe'[s][i]
        PROVE  t = s /\ j = i
    <3> DEFINE Old(u, k) == user_pipe'[u][k] = user_pipe[u][k]
               New(u, k) == u = cur /\ k = S.wr /\ user_pipe'[u][k] \notin open_fds
    <3>1. (Old(s, i) \/ New(s, i)) /\ (Old(t, j) \/ New(t, j))
      BY <1>2, <2>5, StagePipes
    <3>2. CASE New(s, i) /\ New(t, j)
      BY <3>2
    <3>3. CASE Old(s, i) /\ Old(t, j)
      BY <2>5, <3>3 DEF HolderInv
    <3>4. CASE Old(s, i) /\ New(t, j)
      BY <2>5, <3>4 DEF HolderInv
    <3>5. CASE New(s, i) /\ Old(t, j)
      BY <2>5, <3>5 DEF HolderInv
    <3> QED BY <3>1, <3>2, <3>3, <3>4, <3>5
  <2>6. Taken' = Taken
    BY <1>1 DEF Taken
  <2> QED BY <1>1, <1>5, <2>2, <2>3, <2>4, <2>5, <2>6 DEF HolderInv
<1>7. WatchInv'
  BY <1>1, <1>5 DEF WatchInv
<1> QED BY <1>3, <1>4, <1>6, <1>7 DEF Kept

LEMMA FdStep == FdInv /\ [Next]_vars => FdInv'
<1> SUFFICES ASSUME FdInv, [Next]_vars PROVE Kept'
  BY TypeStep DEF FdInv, Kept
<1>1. CASE Quiet
  BY <1>1, FdQuiet
<1>2. ASSUME NEW s \in Session, Accept(s) \/ PollEof(s) \/ PollLine(s)
      PROVE  Kept'
  BY <1>2, FdAccept, FdPollEof, FdPollLine
<1>3. CASE Select \/ Exit \/ BeginRun \/ StageRuns
  BY <1>3, FdSelect, FdExit, FdBeginRun, FdStageRuns
<1>4. CASE Prompt \/ ShutDown \/ Sweep
  BY <1>4, FdServed, FdSweep
<1> QED BY <1>1, <1>2, <1>3, <1>4 DEF Quiet

(* The invariant of the descriptors, in every execution.                    *)
THEOREM FdInvariant == Spec => []FdInv
BY FdInit, FdStep, PTL DEF Spec

(* No descriptor number has two meanings: the sockets of the users that are *)
(* there, the read ends of user pipes and what the command being served has *)
(* opened are open and never coincide, however numbers are reused (accept,  *)
(* init_wr_user_pp, close_rd_user_pipe, exe_bin).                           *)
THEOREM DescriptorsHaveOneHolder == Spec => []OneHolder
<1>1. FdInv => OneHolder
  BY DEF FdInv, HolderInv, Holders, Taken, OneHolder
<1> QED BY <1>1, FdInvariant, PTL

(* The set the program selects on holds the sockets of exactly the users    *)
(* that are there or being served, and no descriptor that was closed, so    *)
(* that select does not fail (FD_SET, FD_CLR and close in main).  It does   *)
(* not say that select looks at all of the set.                             *)
THEOREM WatchedAreThere == Spec => []Selected
<1>1. FdInv => Selected
  BY DEF FdInv, WatchInv, HolderInv, Holders, Taken, Selected
<1> QED BY <1>1, FdInvariant, PTL

-------------------------------------------------------------------------------
(* What the users of np_single_proc are told and promised: the login and    *)
(* logout messages for any clients, and for clients that take turns and     *)
(* leave with exit, as the assignment assumes, the service of RwgService.   *)

USE DEF Fd, Id, NoFd, socket_fd

(* HeardRight at every step of a round, for the users that are there; who   *)
(* logs in comes after all others, and has heard of nobody.                 *)
ToldInv ==
  Alive /\ ~cout_bad =>
    \A s \in Online : heard[s] = {t \in Online : arrival[s] <= arrival[t]}
OrderInv == /\ \A s \in users : arrival[s] <= logins
            /\ \A s \in Session \ users : heard[s] = {}

HeardInv == FdInv /\ ToldInv /\ OrderInv

(* A set of numbers that is not empty has a smallest one.                   *)
LEMMA SmallestOfSet ==
  ASSUME NEW T \in SUBSET Nat, T # {}
  PROVE  \E n \in T : \A m \in T : n <= m
<1>1. PICK n \in T : \A m \in T : <<m, n>> \notin OpToRel(<, Nat)
  BY WFMin, NatLessThanWellFounded
<1>2. \A m \in T : ~(m < n)
  BY <1>1 DEF OpToRel
<1> QED BY <1>2

(* A broadcast that leaves cout intact has reached everybody: among the     *)
(* sockets with a pending reset there would be a first one to break it.     *)
LEMMA IntactReachesAll ==
  ASSUME TypeOK, NEW T \in SUBSET Session, ~Broken(T)
  PROVE  ~cout_bad /\ Reached(T) = T
<1>1. arrival \in [Session -> Nat] /\ cout_bad \in BOOLEAN
  BY DEF TypeOK, TableOK, ServerOK
<1>2. \A t \in T : link[t] # "abort"
  <2> SUFFICES ASSUME NEW a \in T, link[a] = "abort" PROVE FALSE
    OBVIOUS
  <2> DEFINE A == {arrival[t] : t \in {u \in T : link[u] = "abort"}}
  <2>1. A \in SUBSET Nat /\ A # {}
    BY <1>1
  <2>2. PICK n \in A : \A m \in A : n <= m
    BY <2>1, SmallestOfSet
  <2>3. PICK t \in T : link[t] = "abort" /\ arrival[t] = n
    OBVIOUS
  <2>4. \A u \in T : link[u] = "abort" => arrival[t] <= arrival[u]
    BY <2>2, <2>3
  <2> QED BY <2>3, <2>4 DEF Broken, Reached
<1> QED BY <1>1, <1>2 DEF Broken, Reached

LEMMA HeardInit == Init => HeardInv
BY FdInit DEF Init, HeardInv, ToldInv, OrderInv, Online

(* The steps that tell nobody of a login or logout.                         *)
Silent == [Next]_vars /\ ~Exit /\ ~Sweep /\ \A s \in Session : ~(Accept(s) \/ PollEof(s))

LEMMA BrokenStays == ASSUME NEW T, cout_bad PROVE Broken(T)
BY DEF Broken

LEMMA SilentStep ==
  ASSUME TypeOK, Silent
  PROVE  /\ UNCHANGED <<users, is_closed, arrival, logins, heard>>
         /\ cout_bad => cout_bad'
         /\ Alive' => Alive
<1> USE BrokenStays DEF table, Write, Alive
<1>1. CASE UNCHANGED vars
  BY <1>1 DEF vars
<1>2. CASE Clients
  BY <1>2 DEF Clients, Connect, HangUp, Abort, ResetArrives, Send, server
<1>3. CASE Select \/ OutOfFds \/ OperatorExit \/ Prompt \/ ShutDown
  BY <1>3 DEF Select, OutOfFds, OperatorExit, Prompt, ShutDown
<1>4. CASE \E s \in Session : PollError(s) \/ PollLine(s)
  BY <1>4 DEF PollError, PollLine, Turn
<1>5. CASE ChangeName \/ Yell \/ Tell \/ SetEnv \/ Show \/ Empty \/ Crash
  <2>1. CASE Tell
    <3>1. cout_bad => cout_bad'
      BY <2>1 DEF Tell
    <3> QED BY <2>1, <3>1 DEF Tell, Parsing
  <2>2. CASE ChangeName
    BY <2>2 DEF ChangeName, Parsing
  <2>3. CASE Yell \/ SetEnv \/ Show \/ Empty \/ Crash
    BY <2>3 DEF Yell, SetEnv, Show, Empty, Crash, Parsing
  <2> QED BY <1>5, <2>1, <2>2, <2>3
<1>6. CASE BeginRun \/ NoPipeLeft \/ StageReadFails \/ StageWriteFails \/ StageRuns \/ EndRun
  BY <1>6 DEF BeginRun, NoPipeLeft, StageReadFails, StageWriteFails, StageRuns, EndRun,
              AtStage, Parsing
<1> QED BY <1>1, <1>2, <1>3, <1>4, <1>5, <1>6 DEF Silent, Next, Server

Heard == ToldInv /\ OrderInv

LEMMA HeardSilent == ASSUME HeardInv, Silent PROVE Heard'
<1>1. /\ UNCHANGED <<users, is_closed, arrival, logins, heard>>
      /\ cout_bad => cout_bad'
      /\ Alive' => Alive
  BY SilentStep DEF HeardInv, FdInv
<1> QED BY <1>1 DEF HeardInv, Heard, ToldInv, OrderInv, Online

LEMMA HeardAccept == ASSUME HeardInv, NEW s \in Session, Accept(s) PROVE Heard'
<1> USE DEF HeardInv, FdInv
<1>1. /\ pc = "accept" /\ is_closed = {} /\ s \notin users /\ users' = users \cup {s}
      /\ is_closed' = is_closed /\ logins' = logins + 1
      /\ arrival' = [arrival EXCEPT ![s] = logins + 1]
      /\ cout_bad' = Broken(Online)
      /\ heard' = [t \in Session |-> IF t \in Reached(Online) \/ (t = s /\ ~Broken(Online))
                                     THEN heard[t] \cup {s} ELSE heard[t]]
  BY DEF Accept, Backlog, RoundInv, OutsideInv
<1>2. /\ users \subseteq Session /\ arrival \in [Session -> Nat] /\ logins \in Nat
      /\ Online = users /\ Online' = users \cup {s}
  BY <1>1 DEF TypeOK, TableOK, Online
<1>3. \A t \in users : t # s /\ arrival'[t] = arrival[t] /\ arrival[t] <= logins
  BY <1>1, <1>2 DEF OrderInv
<1>4. OrderInv'
  <2>1. \A t \in users' : arrival'[t] <= logins'
    BY <1>1, <1>2, <1>3
  <2>2. \A t \in Session \ users' : heard'[t] = {}
    BY <1>1, <1>2 DEF OrderInv, Reached
  <2> QED BY <2>1, <2>2 DEF OrderInv
<1>5. ToldInv'
  <2> SUFFICES ASSUME ~Broken(Online), NEW t \in users \cup {s}
               PROVE  heard'[t] = {u \in users \cup {s} : arrival'[t] <= arrival'[u]}
    BY <1>1, <1>2 DEF ToldInv
  <2>1. ~cout_bad /\ Reached(Online) = users
    BY <1>2, IntactReachesAll
  <2>2. \A u \in users : heard[u] = {x \in users : arrival[u] <= arrival[x]}
    BY <1>1, <1>2, <2>1 DEF ToldInv, Alive
  <2>3. arrival'[s] = logins + 1 /\ heard'[t] = heard[t] \cup {s}
    BY <1>1, <1>2, <2>1
  <2>4. CASE t = s
    <3>1. heard[s] = {}
      BY <1>1 DEF OrderInv
    <3> QED BY <1>2, <1>3, <2>3, <2>4, <3>1
  <2>5. CASE t \in users
    <3>1. arrival'[t] <= arrival'[s]
      BY <1>2, <1>3, <2>3, <2>5
    <3> QED BY <1>2, <1>3, <2>2, <2>3, <2>5, <3>1
  <2> QED BY <2>4, <2>5
<1> QED BY <1>4, <1>5 DEF Heard

(* A user that leaves, with exit or by closing its connection.              *)
LEMMA HeardLeave ==
  ASSUME HeardInv, NEW s \in Online, Alive,
         is_closed' = is_closed \cup {s}, UNCHANGED <<users, arrival, logins>>,
         cout_bad' = Broken(Online \ {s}), HearLogout(Online \ {s}, s)
  PROVE  Heard'
<1>1. /\ Online' = Online \ {s} /\ Online \subseteq Session /\ users \subseteq Session /\ TypeOK
      /\ heard' = [t \in Session |-> IF t \in Reached(Online \ {s}) THEN heard[t] \ {s} ELSE heard[t]]
  BY DEF HeardInv, FdInv, TypeOK, TableOK, Online, HearLogout
<1>2. OrderInv'
  BY <1>1 DEF HeardInv, OrderInv, Reached, Online
<1>3. ToldInv'
  <2> SUFFICES ASSUME ~Broken(Online \ {s}), NEW t \in Online \ {s}
               PROVE  heard'[t] = {u \in Online \ {s} : arrival[t] <= arrival[u]}
    BY <1>1 DEF ToldInv
  <2>1. ~cout_bad /\ Reached(Online \ {s}) = Online \ {s}
    BY <1>1, IntactReachesAll
  <2> QED BY <1>1, <2>1 DEF HeardInv, ToldInv
<1> QED BY <1>2, <1>3 DEF Heard

LEMMA HeardSweep == ASSUME HeardInv, Sweep PROVE Heard'
<1>1. /\ pc = "poll" /\ users' = users \ is_closed /\ is_closed' = {}
      /\ heard' = [s \in Session |-> IF s \in is_closed THEN {} ELSE heard[s]]
      /\ UNCHANGED <<arrival, logins, cout_bad>>
  BY DEF Sweep, Leavers
<1>2. Online' = Online /\ Online = users' /\ users \subseteq Session
  BY <1>1 DEF Online, HeardInv, FdInv, TypeOK, TableOK
<1>3. OrderInv'
  BY <1>1 DEF HeardInv, OrderInv
<1>4. ToldInv'
  BY <1>1, <1>2 DEF HeardInv, ToldInv, Alive, Online
<1> QED BY <1>3, <1>4 DEF Heard

LEMMA HeardStep == HeardInv /\ [Next]_vars => HeardInv'
<1> SUFFICES ASSUME HeardInv, [Next]_vars PROVE Heard'
  BY FdStep DEF HeardInv, Heard
<1>1. CASE Silent
  BY <1>1, HeardSilent
<1>2. ASSUME NEW s \in Session, Accept(s) PROVE Heard'
  BY <1>2, HeardAccept
<1>3. ASSUME NEW s \in Session, PollEof(s) PROVE Heard'
  <2>1. s \in Online /\ Alive
    BY <1>3 DEF PollEof, Turn, First, Online, Alive, HeardInv, FdInv, RoundInv, TypeOK, TableOK
  <2> QED BY <1>3, <2>1, HeardLeave DEF PollEof
<1>4. CASE Exit
  <2>1. cur \in Online /\ Alive
    BY <1>4, LineTypes DEF Exit, Parsing, Online, Alive, HeardInv, FdInv, RoundInv
  <2> QED BY <1>4, <2>1, HeardLeave DEF Exit, Write
<1>5. CASE Sweep
  BY <1>5, HeardSweep
<1> QED BY <1>1, <1>2, <1>3, <1>4, <1>5 DEF Silent

(* At select every user that is there was told of exactly those that came   *)
(* since it did and are still there, as long as cout works: whatever users  *)
(* come and go in one round, in whatever way, no login or logout message is *)
(* lost, sent twice or sent to the wrong user (broadcast, main, parser).    *)
THEOREM MessagesAreRight == Spec => []HeardRight
<1>1. HeardInv => HeardRight
  BY DEF HeardInv, FdInv, RoundInv, ToldInv, HeardRight, Online, Alive
<1> QED BY HeardInit, HeardStep, <1>1, PTL DEF Spec

-------------------------------------------------------------------------------
(* Clients that take turns, leave with exit only, and are at no time more   *)
(* than there are ids: what the assignment assumes of them.                 *)
TakeTurns == Serial /\ ~Eof
EnoughIds == MaxOnline <= MaxUsers

(* The connections of users that are there are whole; at most one line is   *)
(* on its way, and while it is served nobody else is ready or has left.     *)
WholeInv == /\ \A s \in Session : link[s] \in {"off", "backlog", "on", "shut", "gone"}
            /\ \A s \in Online : link[s] = "on"
TurnInv  == /\ \A s, t \in Session : inbox[s] # None /\ inbox[t] # None => s = t
            /\ pc \in {"accept", "poll"} => \A s \in todo : inbox[s] # None
            /\ pc \in {"parse", "stage", "prompt"} =>
                 todo = {} /\ \A s \in Session : inbox[s] = None
            /\ pc \in {"parse", "stage"} => is_closed = {}
            /\ pc = "prompt" => is_closed \subseteq {cur}
            /\ pc = "poll" /\ is_closed # {} => todo = {}

(* A pipe that is held leads to a user that is there, at every step.        *)
PipeInv == \A s \in users : \A i \in {j \in Id : user_pipe[s][j] # NoFd} :
             \E t \in Online : id_num[t] = i

(* The clients that wait or are connected, of whom the users are some; the  *)
(* users have proper ids, all different.                                    *)
Connected == {s \in Session : link[s] \in {"backlog", "on"}}
CountInv  == /\ IsFiniteSet(Connected) /\ Cardinality(Connected) <= MaxOnline
             /\ \A s \in users : id_num[s] \in 1..MaxUsers

SerialInv == FdInv /\ WholeInv /\ TurnInv /\ PipeInv
ServiceInv == SerialInv /\ NamesInv /\ IdsUnique /\ CountInv

(* Writing to sockets that are whole changes nothing.                       *)
LEMMA WholeStays == ASSUME TypeOK, WholeInv, NEW T PROVE Touched(T) = link
BY DEF WholeInv, Touched, TypeOK, ClientsOK

LEMMA NobodyLeavesUnasked ==
  ASSUME TakeTurns, WholeInv, NEW s \in Session
  PROVE  ~PollEof(s) /\ ~PollError(s) /\ ~HangUp(s) /\ ~Abort(s) /\ ~ResetArrives(s)
BY DEF TakeTurns, WholeInv, PollEof, PollError, HangUp, Abort, ResetArrives

LEMMA QuietTurn ==
  ASSUME TakeTurns, SerialInv, Quiet
  PROVE  \/ UNCHANGED <<link, inbox>>
         \/ UNCHANGED inbox /\ \E s \in Session : Connect(s)
         \/ UNCHANGED link /\ \E s \in Session, l \in Inputs : Send(s, l)
<1> USE DEF client, SerialInv, FdInv
<1>1. CASE UNCHANGED vars
  BY <1>1 DEF vars
<1>2. CASE Clients
  BY <1>2, NobodyLeavesUnasked DEF Clients, Connect, Send
<1>3. CASE OutOfFds \/ OperatorExit \/ \E s \in Session : PollError(s)
  BY <1>3 DEF OutOfFds, OperatorExit, PollError
<1>4. CASE ChangeName \/ Yell \/ Tell \/ SetEnv \/ Show \/ Empty \/ Crash
  <2>1. CASE Tell
    BY <2>1, WholeStays DEF Tell, Write
  <2>2. CASE ChangeName \/ Yell \/ Show
    BY <2>2, WholeStays DEF ChangeName, Yell, Show, Write
  <2>3. CASE SetEnv \/ Empty \/ Crash
    BY <2>3 DEF SetEnv, Empty, Crash
  <2> QED BY <1>4, <2>1, <2>2, <2>3
<1>5. CASE NoPipeLeft \/ StageReadFails \/ StageWriteFails \/ EndRun
  BY <1>5, WholeStays DEF NoPipeLeft, StageReadFails, StageWriteFails, EndRun, Write
<1> QED BY <1>1, <1>2, <1>3, <1>4, <1>5 DEF Quiet, Next, Server

Calm == WholeInv /\ TurnInv /\ PipeInv

LEMMA SerialInit == Init => SerialInv
<1> SUFFICES ASSUME Init PROVE SerialInv
  OBVIOUS
<1>1. WholeInv /\ TurnInv /\ PipeInv
  BY DEF Init, WholeInv, TurnInv, PipeInv, Online
<1> QED BY <1>1, FdInit DEF SerialInv

LEMMA SerialQuiet == ASSUME TakeTurns, SerialInv, Quiet PROVE Calm'
<1> USE DEF SerialInv, FdInv
<1>1. /\ UNCHANGED <<users, is_closed, id_num, user_pipe, todo, cur>>
      /\ \/ pc' = pc
         \/ pc' \in {"killed", "crashed", "exited", "stopped"}
         \/ pc \in {"parse", "stage"} /\ pc' \in {"prompt", "hung"}
  BY QuietStep DEF table
<1>2. PipeInv' /\ Online' = Online
  BY <1>1 DEF PipeInv, Online
<1>3. CASE UNCHANGED <<link, inbox>>
  <2>1. WholeInv'
    BY <1>2, <1>3 DEF WholeInv
  <2>2. TurnInv'
    BY <1>1, <1>3 DEF TurnInv
  <2> QED BY <1>2, <2>1, <2>2 DEF Calm
<1>4. ASSUME NEW s \in Session, Connect(s), UNCHANGED inbox PROVE Calm'
  <2>1. /\ link[s] = "off" /\ link' = [link EXCEPT ![s] = "backlog"] /\ UNCHANGED pc
        /\ link \in [Session -> Links]
    BY <1>4 DEF Connect, server, TypeOK, ClientsOK
  <2>2. WholeInv'
    BY <1>2, <2>1 DEF WholeInv
  <2>3. TurnInv'
    BY <1>1, <1>4, <2>1 DEF TurnInv
  <2> QED BY <1>2, <2>2, <2>3 DEF Calm
<1>5. ASSUME NEW s \in Session, NEW l \in Inputs, Send(s, l), UNCHANGED link PROVE Calm'
  <2>1. /\ pc = "select" /\ \A t \in Session : inbox[t] = None
        /\ inbox' = [inbox EXCEPT ![s] = l] /\ UNCHANGED pc
        /\ inbox \in [Session -> Inputs \cup {None}]
    BY <1>5 DEF Send, server, TakeTurns, TypeOK, ClientsOK
  <2>2. TurnInv'
    BY <1>1, <2>1 DEF TurnInv
  <2>3. WholeInv'
    BY <1>2, <1>5 DEF WholeInv
  <2> QED BY <1>2, <2>2, <2>3 DEF Calm
<1> QED BY <1>3, <1>4, <1>5, QuietTurn

LEMMA SerialSelect == ASSUME SerialInv, Select PROVE Calm'
<1> USE DEF SerialInv, FdInv
<1>1. /\ pc = "select" /\ pc' \in {"accept", "poll"} /\ is_closed = {} /\ cur = None
      /\ todo' = {s \in users : fd[s] \in temp_fds}
      /\ UNCHANGED <<users, is_closed, id_num, user_pipe, link, inbox>>
  BY DEF Select, table, client, RoundInv
<1>2. \A s \in todo' : inbox[s] # None
  <2> SUFFICES ASSUME NEW s \in users, fd[s] \in temp_fds PROVE inbox[s] # None
    BY <1>1
  <2>1. Holders = users /\ users \subseteq Session
    BY <1>1 DEF Holders, Online, TypeOK, TableOK
  <2>2. fd[s] # socket_fd /\ \A t \in users \ {s} : fd[t] # fd[s]
    BY <2>1 DEF HolderInv, Taken
  <2>3. Ready(s)
    BY <2>2 DEF temp_fds, ReadyFds
  <2> QED BY <2>1, <2>3 DEF Ready, WholeInv
<1>3. WholeInv' /\ PipeInv'
  BY <1>1 DEF WholeInv, PipeInv, Online
<1>4. TurnInv'
  BY <1>1, <1>2 DEF TurnInv
<1> QED BY <1>3, <1>4 DEF Calm

LEMMA SerialAccept == ASSUME SerialInv, NEW s \in Session, Accept(s) PROVE Calm'
<1> USE DEF SerialInv, FdInv
<1>1. /\ pc = "accept" /\ pc' \in {"select", "poll", "killed"} /\ is_closed = {}
      /\ s \notin users /\ users' = users \cup {s}
      /\ link' = [Touched(Online) EXCEPT ![s] = "on"]
      /\ UNCHANGED <<is_closed, user_pipe, todo, inbox>>
      /\ user_pipe[s] = NoPipes
  BY DEF Accept, Backlog, RoundInv, OutsideInv, client, Outcome
<1>2. PICK id : id_num' = [id_num EXCEPT ![s] = id]
  BY DEF Accept
<1>3. /\ link \in [Session -> Links] /\ users \subseteq Session /\ id_num \in [Session -> Id]
      /\ Online = users /\ Online' = users \cup {s}
  BY <1>1 DEF TypeOK, TableOK, ClientsOK, Online
<1>4. WholeInv'
  BY <1>1, <1>3, WholeStays DEF WholeInv
<1>5. TurnInv'
  BY <1>1 DEF TurnInv
<1>6. PipeInv'
  <2>1. \A t \in users : t # s /\ id_num'[t] = id_num[t]
    BY <1>1, <1>2, <1>3
  <2> SUFFICES ASSUME NEW t \in users', NEW i \in Id, user_pipe[t][i] # NoFd
               PROVE  \E u \in Online' : id_num'[u] = i
    BY <1>1 DEF PipeInv
  <2>2. t \in users
    BY <1>1 DEF NoPipes
  <2>3. PICK u \in users : id_num[u] = i
    BY <1>3, <2>2 DEF PipeInv
  <2> QED BY <1>3, <2>1, <2>3
<1> QED BY <1>4, <1>5, <1>6 DEF Calm

LEMMA SerialPollLine == ASSUME SerialInv, NEW s \in Session, PollLine(s) PROVE Calm'
<1> USE DEF SerialInv, FdInv
<1>1. /\ pc = "poll" /\ s \in todo /\ pc' = "parse" /\ cur' = s /\ todo' = todo \ {s}
      /\ inbox[s] # None /\ inbox' = [inbox EXCEPT ![s] = None]
      /\ UNCHANGED <<users, is_closed, id_num, user_pipe, link>>
  BY DEF PollLine, Turn, First, table
<1>2. inbox \in [Session -> Inputs \cup {None}] /\ todo \subseteq users /\ users \subseteq Session
  BY DEF TypeOK, TableOK, ClientsOK
<1>3. WholeInv' /\ PipeInv'
  BY <1>1 DEF WholeInv, PipeInv, Online
<1>4. TurnInv'
  <2>1. \A t \in Session : inbox'[t] = None
    BY <1>1, <1>2 DEF TurnInv
  <2>2. todo' = {} /\ is_closed = {}
    BY <1>1, <1>2 DEF TurnInv
  <2> QED BY <1>1, <2>1, <2>2 DEF TurnInv
<1> QED BY <1>3, <1>4 DEF Calm

LEMMA SerialExit == ASSUME SerialInv, Exit PROVE Calm'
<1> USE DEF SerialInv, FdInv
<1>1. /\ pc = "parse" /\ pc' \in {"prompt", "killed"} /\ is_closed' = is_closed \cup {cur}
      /\ user_pipe' = clean_user_pipe(cur)
      /\ UNCHANGED <<users, id_num, todo, cur, inbox, link>>
  BY WholeStays DEF Exit, Parsing, Write, Outcome, fds, exec, client
<1>2. /\ cur \in users /\ cur \in Session /\ id_num[cur] \in Id /\ users \subseteq Session
      /\ user_pipe \in [Session -> [Id -> Fd \cup {NoFd}]]
  BY <1>1, LineTypes DEF TypeOK, TableOK
<1>3. WholeInv'
  BY <1>1 DEF WholeInv, Online
<1>4. TurnInv'
  BY <1>1 DEF TurnInv
<1>5. PipeInv'
  <2> SUFFICES ASSUME NEW s \in users, NEW i \in Id, user_pipe'[s][i] # NoFd
               PROVE  \E t \in Online' : id_num[t] = i
    BY <1>1 DEF PipeInv
  <2>1. user_pipe[s][i] # NoFd /\ i # id_num[cur]
    BY <1>1, <1>2 DEF clean_user_pipe
  <2>2. PICK t \in Online : id_num[t] = i
    BY <2>1 DEF PipeInv
  <2> QED BY <1>1, <2>1, <2>2 DEF Online
<1> QED BY <1>3, <1>4, <1>5 DEF Calm

LEMMA SerialStageRuns == ASSUME SerialInv, StageRuns PROVE Calm'
<1> USE DEF SerialInv, FdInv
<1>1. /\ pc = "stage" /\ pc' \in {"stage", "killed"} /\ is_closed = {}
      /\ UNCHANGED <<users, is_closed, id_num, todo, cur, inbox, link>>
      /\ CanWrite
  BY WholeStays DEF StageRuns, AtStage, Write, Outcome, table, client, TurnInv
<1>2. WholeInv' /\ TurnInv'
  BY <1>1 DEF WholeInv, TurnInv, Online
<1>3. PipeInv'
  <2> SUFFICES ASSUME NEW s \in users, NEW i \in Id, user_pipe'[s][i] # NoFd
               PROVE  \E t \in users : id_num[t] = i
    BY <1>1 DEF PipeInv, Online
  <2>1. CASE user_pipe'[s][i] = user_pipe[s][i]
    BY <2>1 DEF PipeInv, Online
  <2>2. CASE i = S.wr
    BY <1>1, <2>2, BoundsAssumption DEF CanWrite, WithId, First
  <2>3. s \in Session
    BY DEF TypeOK, TableOK
  <2>4. FdInv
    BY DEF SerialInv
  <2>5. user_pipe'[s][i] = user_pipe[s][i] \/ i = S.wr
    BY <2>3, <2>4, StagePipes
  <2> QED BY <2>1, <2>2, <2>5
<1> QED BY <1>2, <1>3 DEF Calm

LEMMA SerialServed ==
  ASSUME SerialInv, BeginRun \/ Prompt \/ ShutDown \/ Sweep PROVE Calm'
<1> USE DEF SerialInv, FdInv
<1>1. /\ link \in [Session -> Links] /\ inbox \in [Session -> Inputs \cup {None}]
      /\ users \subseteq Session /\ is_closed \subseteq users
  BY DEF TypeOK, TableOK, ClientsOK
<1>2. CASE BeginRun
  <2>1. /\ pc = "parse" /\ pc' = "stage"
        /\ UNCHANGED <<users, is_closed, id_num, user_pipe, todo, cur, link, inbox>>
    BY <1>2 DEF BeginRun, Parsing, table, client
  <2> QED BY <2>1 DEF Calm, WholeInv, TurnInv, PipeInv, Online
<1>3. CASE Prompt
  <2>1. /\ pc = "prompt" /\ pc' \in {"poll", "killed"} /\ cur \notin is_closed
        /\ UNCHANGED <<users, is_closed, id_num, user_pipe, todo, link, inbox>>
    BY <1>3, WholeStays DEF Prompt, Write, Outcome, table, client
  <2> QED BY <2>1 DEF Calm, WholeInv, TurnInv, PipeInv, Online
<1>4. CASE ShutDown
  <2>1. /\ pc = "prompt" /\ pc' = "poll" /\ cur \in is_closed
        /\ link' = [link EXCEPT ![cur] = "shut"] /\ inbox' = [inbox EXCEPT ![cur] = None]
        /\ UNCHANGED <<users, is_closed, id_num, user_pipe, todo>>
    BY <1>4 DEF ShutDown, table
  <2>2. WholeInv' /\ PipeInv'
    BY <1>1, <2>1 DEF WholeInv, PipeInv, Online
  <2>3. TurnInv'
    BY <1>1, <2>1 DEF TurnInv
  <2> QED BY <2>2, <2>3 DEF Calm
<1>5. CASE Sweep
  <2>1. /\ pc = "poll" /\ pc' = "select" /\ users' = users \ is_closed /\ is_closed' = {}
        /\ link' = [s \in Session |-> IF s \in is_closed THEN "gone" ELSE link[s]]
        /\ id_num' = [s \in Session |-> IF s \in is_closed THEN 0 ELSE id_num[s]]
        /\ user_pipe' = [s \in Session |-> IF s \in is_closed THEN NoPipes ELSE user_pipe[s]]
        /\ UNCHANGED <<todo, cur, inbox>>
    BY <1>5 DEF Sweep, Leavers, exec, client
  <2>2. WholeInv'
    BY <1>1, <2>1 DEF WholeInv, Online
  <2>3. TurnInv'
    BY <2>1 DEF TurnInv
  <2>4. \A s \in users' : s \in Online /\ user_pipe'[s] = user_pipe[s] /\ id_num'[s] = id_num[s]
    BY <1>1, <2>1 DEF Online
  <2>5. Online = users' /\ Online' = users'
    BY <2>1 DEF Online
  <2>6. PipeInv'
    <3> SUFFICES ASSUME NEW s \in users', NEW i \in Id, user_pipe'[s][i] # NoFd
                 PROVE  \E t \in Online' : id_num'[t] = i
      BY DEF PipeInv
    <3>1. s \in users /\ user_pipe[s][i] # NoFd
      BY <2>4 DEF Online
    <3>2. PICK t \in Online : id_num[t] = i
      BY <3>1 DEF PipeInv
    <3> QED BY <2>4, <2>5, <3>2
  <2> QED BY <2>2, <2>3, <2>6 DEF Calm
<1> QED BY <1>2, <1>3, <1>4, <1>5

LEMMA SerialStep == TakeTurns /\ SerialInv /\ [Next]_vars => SerialInv'
<1> SUFFICES ASSUME TakeTurns, SerialInv, [Next]_vars PROVE Calm'
  BY FdStep DEF SerialInv, Calm
<1>1. CASE Quiet
  BY <1>1, SerialQuiet
<1>2. ASSUME NEW s \in Session, Accept(s) \/ PollEof(s) \/ PollLine(s)
      PROVE  Calm'
  BY <1>2, SerialAccept, SerialPollLine, NobodyLeavesUnasked DEF SerialInv
<1>3. CASE Select \/ Exit \/ StageRuns \/ BeginRun \/ Prompt \/ ShutDown \/ Sweep
  BY <1>3, SerialSelect, SerialExit, SerialStageRuns, SerialServed
<1> QED BY <1>1, <1>2, <1>3 DEF Quiet

(* With clients that take turns and leave with exit, every user pipe leads  *)
(* to a user that is there: no later user with the same id inherits one     *)
(* (clean_user_pipe, init_wr_user_pp, give_available_id).                   *)
THEOREM PipesHaveReaders == ASSUME TakeTurns PROVE Spec => []NoOrphanPipe
<1>1. SerialInv /\ [Next]_vars => SerialInv'
  BY SerialStep
<1>2. SerialInv => NoOrphanPipe
  <2> SUFFICES ASSUME SerialInv, pc = "select", NEW s \in users, NEW i \in Id, HasPipe(s, i)
               PROVE  \E t \in users : id_num[t] = i
    BY DEF NoOrphanPipe
  <2> QED BY DEF SerialInv, PipeInv, HasPipe, Online
<1> QED BY SerialInit, <1>1, <1>2, PTL DEF Spec

LEMMA WholeSurvives ==
  ASSUME NEW T, NEW next, \A t \in T : link[t] = "on"
  PROVE  Outcome(T, next) = next
BY DEF Outcome, Reached, Dead

(* A socket that is written to is that of a user that is there.             *)
LEMMA SurvivesStep ==
  ASSUME TakeTurns, SerialInv, NoSigPipe, [Next]_vars
  PROVE  NoSigPipe'
<1> USE DEF NoSigPipe, SerialInv, FdInv
<1>1. \A t \in Online : link[t] = "on"
  BY DEF WholeInv
<1>2. pc \in {"parse", "stage"} => cur \in Online /\ Online = users
  BY DEF TurnInv, TypeOK, ServerOK, Online
<1>3. CASE UNCHANGED vars
  BY <1>3 DEF vars
<1>4. CASE Clients
  BY <1>4 DEF Clients, Connect, HangUp, Abort, ResetArrives, Send, server
<1>5. CASE Select \/ OutOfFds \/ OperatorExit \/ ShutDown \/ Sweep
  BY <1>5 DEF Select, OutOfFds, OperatorExit, ShutDown, Sweep
<1>6. ASSUME NEW s \in Session, Accept(s) \/ PollEof(s) \/ PollError(s) \/ PollLine(s)
      PROVE  pc' # "killed"
  <2>1. CASE Accept(s)
    BY <1>1, <2>1, WholeSurvives DEF Accept
  <2>2. CASE PollLine(s)
    BY <2>2 DEF PollLine
  <2> QED BY <1>6, <2>1, <2>2, NobodyLeavesUnasked
<1>7. CASE Exit \/ ChangeName \/ Yell \/ SetEnv \/ Show \/ Empty
  <2>1. pc = "parse"
    BY <1>7 DEF Exit, ChangeName, Yell, SetEnv, Show, Empty, Parsing
  <2>2. CASE Exit \/ ChangeName
    BY <1>1, <1>2, <2>1, <2>2, WholeSurvives DEF Exit, ChangeName, Write
  <2>3. CASE Yell \/ Show
    BY <1>1, <1>2, <2>1, <2>3, WholeSurvives DEF Yell, Show, Write
  <2>4. CASE SetEnv \/ Empty
    BY <2>4 DEF SetEnv, Empty
  <2> QED BY <1>7, <2>2, <2>3, <2>4
<1>8. CASE Tell
  <2>1. \A t \in WithId(line.to) : t \in Online
    BY <1>2, <1>8 DEF WithId, First, Tell, Parsing
  <2>2. cur \in Online
    BY <1>2, <1>8 DEF Tell, Parsing
  <2>3. CASE Write({cur}, "prompt")
    BY <1>1, <2>2, <2>3, WholeSurvives DEF Write
  <2>4. ASSUME NEW t \in Online, Write({t}, "prompt") PROVE pc' # "killed"
    BY <1>1, <2>4, WholeSurvives DEF Write
  <2>5. Write({cur}, "prompt") \/ (\E t \in Online : Write({t}, "prompt")) \/ pc' = "prompt"
    BY <1>8, <2>1 DEF Tell
  <2> QED BY <2>3, <2>4, <2>5
<1>9. CASE Crash
  BY <1>9 DEF Crash
<1>10. CASE BeginRun \/ NoPipeLeft \/ EndRun
  BY <1>10 DEF BeginRun, NoPipeLeft, EndRun
<1>11. CASE StageReadFails \/ StageWriteFails \/ StageRuns
  <2>1. cur \in Online
    BY <1>2, <1>11 DEF StageReadFails, StageWriteFails, StageRuns, AtStage
  <2>2. CASE StageReadFails
    <3>1. PICK next \in AfterWait : pc' = Outcome({cur}, next)
      BY <2>2 DEF StageReadFails, Write
    <3> QED BY <1>1, <2>1, <3>1, WholeSurvives DEF AfterWait
  <2>3. CASE StageWriteFails
    <3>1. PICK next \in AfterWait : pc' = Outcome(IF S.rd # -1 THEN Online ELSE {cur}, next)
      BY <2>3 DEF StageWriteFails, Write
    <3> QED BY <1>1, <2>1, <3>1, WholeSurvives DEF AfterWait
  <2>4. CASE StageRuns
    BY <1>1, <2>4, WholeSurvives DEF StageRuns, Write
  <2> QED BY <1>11, <2>2, <2>3, <2>4
<1>12. CASE Prompt
  <2>1. cur \in Online
    BY <1>12 DEF Prompt, TypeOK, ServerOK, Online
  <2> QED BY <1>1, <1>12, <2>1, WholeSurvives DEF Prompt, Write
<1> QED BY <1>3, <1>4, <1>5, <1>6, <1>7, <1>8, <1>9, <1>10, <1>11, <1>12 DEF Next, Server

(* With clients that take turns and leave with exit the server never        *)
(* writes to a socket that was shut down or reset (main, parser, exe_bin),  *)
(* whatever lines they type.                                                *)
THEOREM NeverSigPipe == ASSUME TakeTurns PROVE Spec => []NoSigPipe
<1>1. Init => SerialInv /\ NoSigPipe
  BY SerialInit DEF Init, NoSigPipe
<1>2. SerialInv /\ NoSigPipe /\ [Next]_vars => SerialInv' /\ NoSigPipe'
  BY SerialStep, SurvivesStep
<1> QED BY <1>1, <1>2, PTL DEF Spec
-------------------------------------------------------------------------------
(* There is an id for whoever waits for accept: the users are some of the   *)
(* connected clients, and so are fewer than there are ids.                  *)
LEMMA IdIsLeft ==
  ASSUME TypeOK, CountInv, EnoughIds, users \subseteq Connected,
         NEW s \in Connected, s \notin users
  PROVE  Unused # {}
<1> DEFINE f == [t \in users |-> id_num[t]]
           I == {id_num[t] : t \in users}
<1>1. IsFiniteSet(users) /\ Cardinality(users) < Cardinality(Connected)
  <2>1. IsFiniteSet(users) /\ Cardinality(users) <= Cardinality(Connected)
    BY FS_Subset DEF CountInv
  <2>2. Cardinality(Connected) # Cardinality(users)
    BY FS_Subset DEF CountInv
  <2> QED BY <2>1, <2>2, FS_CardinalityType DEF CountInv
<1>2. f \in Surjection(users, I)
  BY DEF Surjection
<1>3. IsFiniteSet(I) /\ Cardinality(I) <= Cardinality(users)
  BY <1>1, <1>2, FS_Surjection
<1>4. MaxUsers \in Nat /\ MaxOnline \in Nat
  BY BoundsAssumption
<1>5. IsFiniteSet(1..MaxUsers) /\ Cardinality(1..MaxUsers) = MaxUsers
  BY <1>4, FS_Interval
<1>6. ASSUME Unused = {} PROVE FALSE
  <2>1. 1..MaxUsers \in SUBSET I
    BY <1>6 DEF Unused
  <2>2. Cardinality(1..MaxUsers) <= Cardinality(I)
    <3> HIDE DEF I
    <3> QED BY <1>3, <2>1, FS_Subset
  <2>3. /\ Cardinality(I) \in Nat /\ Cardinality(users) \in Nat /\ Cardinality(Connected) \in Nat
        /\ Cardinality(Connected) <= MaxOnline
    BY <1>1, <1>3, FS_CardinalityType DEF CountInv
  <2> HIDE DEF I
  <2> QED BY <1>1, <1>3, <1>4, <1>5, <2>2, <2>3 DEF EnoughIds
<1> QED BY <1>6

LEMMA CountStep ==
  ASSUME TakeTurns, EnoughIds, SerialInv, CountInv, [Next]_vars PROVE CountInv'
<1> USE DEF SerialInv, FdInv
<1>1. users \subseteq Session /\ link \in [Session -> Links] /\ id_num \in [Session -> Id]
  BY DEF TypeOK, TableOK, ClientsOK
<1>2. ASSUME Connected' \subseteq Connected,
             \A s \in users' : s \in users /\ id_num'[s] = id_num[s]
      PROVE  CountInv'
  <2>1. IsFiniteSet(Connected') /\ Cardinality(Connected') <= Cardinality(Connected)
    BY <1>2, FS_Subset DEF CountInv
  <2>2. Cardinality(Connected') \in Nat /\ Cardinality(Connected) \in Nat /\ MaxOnline \in Nat
    BY <2>1, FS_CardinalityType, BoundsAssumption DEF CountInv
  <2> QED BY <1>2, <2>1, <2>2 DEF CountInv
<1>3. ASSUME NEW s \in Session, Connect(s) PROVE CountInv'
  <2>1. /\ Cardinality(Connected) < MaxOnline /\ link' = [link EXCEPT ![s] = "backlog"]
        /\ UNCHANGED <<users, id_num>>
    BY <1>3 DEF Connect, Connected, server, table
  <2>2. Connected' = Connected \cup {s}
    BY <1>1, <2>1 DEF Connected
  <2>3. IsFiniteSet(Connected') /\ Cardinality(Connected') <= Cardinality(Connected) + 1
    BY <2>2, FS_AddElement, FS_CardinalityType DEF CountInv
  <2>4. Cardinality(Connected') \in Nat /\ Cardinality(Connected) \in Nat /\ MaxOnline \in Nat
    BY <2>3, FS_CardinalityType, BoundsAssumption DEF CountInv
  <2> QED BY <2>1, <2>3, <2>4 DEF CountInv
<1>4. ASSUME NEW s \in Session, Accept(s) PROVE CountInv'
  <2>1. PICK i \in give_available_id : id_num' = [id_num EXCEPT ![s] = i]
    BY <1>4 DEF Accept
  <2>2. /\ link[s] = "backlog" /\ link' = [link EXCEPT ![s] = "on"] /\ s \notin users
        /\ users' = users \cup {s} /\ Online = users
    BY <1>4, WholeStays DEF Accept, Backlog, RoundInv, OutsideInv, Online
  <2>3. users \subseteq Connected /\ s \in Connected /\ Connected' = Connected
    BY <1>1, <2>2 DEF WholeInv, Connected
  <2>4. i \in 1..MaxUsers
    BY <2>2, <2>3, IdIsLeft DEF give_available_id, Lowest, Unused
  <2>5. \A t \in users' : id_num'[t] \in 1..MaxUsers
    BY <1>1, <2>1, <2>2, <2>4 DEF CountInv
  <2> QED BY <2>3, <2>5 DEF CountInv
<1>5. CASE Quiet
  <2>1. UNCHANGED <<users, id_num>>
    BY <1>5, QuietStep DEF table
  <2>2. CASE UNCHANGED link
    BY <1>2, <2>1, <2>2 DEF Connected
  <2> QED BY <1>3, <1>5, <2>1, <2>2, QuietTurn
<1>6. CASE Select \/ Exit \/ StageRuns \/ BeginRun \/ Prompt \/ \E s \in Session : PollLine(s)
  <2>1. UNCHANGED <<users, id_num, link>>
    BY <1>6, WholeStays DEF Select, Exit, StageRuns, BeginRun, Prompt, PollLine, Write, table
  <2> QED BY <1>2, <2>1 DEF Connected
<1>7. CASE ShutDown
  <2>1. link' = [link EXCEPT ![cur] = "shut"] /\ UNCHANGED <<users, id_num>>
    BY <1>7 DEF ShutDown, table
  <2> QED BY <1>1, <1>2, <2>1 DEF Connected
<1>8. CASE Sweep
  <2>1. /\ users' = users \ is_closed
        /\ link' = [s \in Session |-> IF s \in is_closed THEN "gone" ELSE link[s]]
        /\ id_num' = [s \in Session |-> IF s \in is_closed THEN 0 ELSE id_num[s]]
    BY <1>8 DEF Sweep, Leavers
  <2> QED BY <1>1, <1>2, <2>1 DEF Connected
<1> QED BY <1>3, <1>4, <1>5, <1>6, <1>7, <1>8, NobodyLeavesUnasked DEF Quiet

LEMMA ServiceInit == Init => ServiceInv
<1> SUFFICES ASSUME Init PROVE ServiceInv
  OBVIOUS
<1>1. Connected = {}
  BY DEF Init, Connected
<1>2. CountInv
  BY <1>1, FS_EmptySet, BoundsAssumption DEF Init, CountInv
<1>3. NamesInv /\ IdsUnique
  BY DEF Init, NamesInv, NamesUnique, IdsUnique
<1> QED BY <1>2, <1>3, SerialInit DEF ServiceInv

LEMMA ServiceStep ==
  ASSUME TakeTurns, EnoughIds, ServiceInv, [Next]_vars PROVE ServiceInv'
<1> USE DEF ServiceInv
<1>1. TypeOK
  BY DEF SerialInv, FdInv
<1> QED BY <1>1, SerialStep, NamesStep, IdsStep, CountStep
-------------------------------------------------------------------------------
(* The view of a user of RwgService depends on who is there, their ids,     *)
(* names and pipes.                                                         *)
LEMMA SameView ==
  ASSUME Online' = Online,
         \A s \in Online : /\ id_num'[s] = id_num[s] /\ name'[s] = name[s]
                           /\ user_pipe'[s] = user_pipe[s]
  PROVE  UNCHANGED Service!svars
<1>1. \A s \in Session : /\ (IF s \in Online' THEN id_num'[s] ELSE 0)
                              = (IF s \in Online THEN id_num[s] ELSE 0)
                         /\ (IF s \in Online' THEN name'[s] ELSE NoName)
                              = (IF s \in Online THEN name[s] ELSE NoName)
  OBVIOUS
<1>2. {p \in Online' \X Online' : HasPipe(p[1], id_num[p[2]])'}
        = {p \in Online \X Online : HasPipe(p[1], id_num[p[2]])}
  BY DEF HasPipe
<1> QED BY <1>1, <1>2 DEF Service!svars

(* Users that are there have ids of their own, so a pipe kept under an id   *)
(* has one reader.                                                          *)
LEMMA OneReader ==
  ASSUME ServiceInv
  PROVE  /\ \A s \in Online : id_num[s] \in 1..MaxUsers /\ id_num[s] \in Id
         /\ \A s, t \in Online : id_num[s] = id_num[t] => s = t
<1>1. \A s \in users : id_num[s] \in 1..MaxUsers /\ id_num[s] # 0 /\ id_num[s] \in Id
  BY BoundsAssumption DEF ServiceInv, CountInv
<1>2. Online \subseteq users
  BY DEF Online
<1> QED BY <1>1, <1>2 DEF ServiceInv, IdsUnique

LEMMA ServesAccept ==
  ASSUME ServiceInv, ServiceInv', NEW s \in Session, Accept(s) PROVE Service!Enter(s)
<1> USE DEF ServiceInv, SerialInv, FdInv
<1>1. PICK i \in give_available_id : id_num' = [id_num EXCEPT ![s] = i]
  BY DEF Accept
<1>2. /\ s \notin users /\ users' = users \cup {s} /\ Online = users /\ Online' = users \cup {s}
      /\ UNCHANGED <<name, user_pipe>> /\ users \subseteq Session /\ id_num \in [Session -> Id]
      /\ user_pipe[s] = NoPipes /\ name[s] = NoName
  BY DEF Accept, Backlog, RoundInv, OutsideInv, Online, TypeOK, TableOK, NamesInv
<1>3. i \in 1..MaxUsers
  BY <1>1, <1>2 DEF CountInv
<1>4. Unused # {} /\ i \in Unused /\ \A j \in Unused : i <= j
  BY <1>1, <1>3 DEF give_available_id, Lowest
<1>5. Service!Unused = Unused
  <2>1. 0 \notin 1..MaxUsers
    OBVIOUS
  <2> QED BY <1>2, <2>1 DEF Service!Unused, Unused
<1>6. [t \in Session |-> IF t \in Online THEN id_num[t] ELSE 0]'
        = [[t \in Session |-> IF t \in Online THEN id_num[t] ELSE 0] EXCEPT ![s] = i]
  BY <1>1, <1>2
<1>7. [t \in Session |-> IF t \in Online THEN name[t] ELSE NoName]'
        = [t \in Session |-> IF t \in Online THEN name[t] ELSE NoName]
  BY <1>2
<1>8. {p \in Online \X Online : HasPipe(p[1], id_num[p[2]])}'
        = {p \in Online \X Online : HasPipe(p[1], id_num[p[2]])}
  <2>1. \A t, u \in users : HasPipe(t, id_num[u])' <=> HasPipe(t, id_num[u])
    BY <1>1, <1>2 DEF HasPipe
  <2>2. \A t \in users \cup {s} : ~HasPipe(s, id_num[t])'
    BY <1>2 DEF HasPipe, NoPipes
  <2>3. \A t \in users : ~HasPipe(t, id_num[s])'
    <3> SUFFICES ASSUME NEW t \in users, i \in Id, user_pipe[t][i] # NoFd PROVE FALSE
      BY <1>1, <1>2 DEF HasPipe
    <3>1. \E u \in users : id_num[u] = i
      BY <1>2 DEF PipeInv
    <3> QED BY <1>4, <3>1 DEF Unused
  <2> QED BY <1>2, <2>1, <2>2, <2>3
<1> QED BY <1>2, <1>4, <1>5, <1>6, <1>7, <1>8 DEF Service!Enter

LEMMA ServesName ==
  ASSUME ServiceInv, ChangeName
  PROVE  \/ UNCHANGED Service!svars
         \/ cur \in Session /\ line.arg \in Names /\ Service!Rename(cur, line.arg)
<1> USE DEF ServiceInv, SerialInv, FdInv
<1>1. /\ cur \in users /\ cur \in Session /\ cur \in Online /\ line.arg \in Names
      /\ UNCHANGED <<users, is_closed, id_num, user_pipe>> /\ Online' = Online
      /\ name \in [Session -> Names \cup {NoName}] /\ Online \subseteq users
      /\ Online \subseteq Session
  BY LineTypes DEF ChangeName, Parsing, TurnInv, Online, TypeOK, TableOK, table
<1>2. CASE NameTaken(line.arg)
  <2>1. UNCHANGED name
    BY <1>2 DEF ChangeName
  <2> QED BY <1>1, <2>1, SameView
<1>3. CASE ~NameTaken(line.arg)
  <2>1. name' = [name EXCEPT ![cur] = line.arg]
    BY <1>3 DEF ChangeName
  <2>2. id_num[cur] # 0
    BY <1>1, OneReader
  <2>3. \A t \in Service!LoggedIn \ {cur} : t \in Online /\ name[t] # line.arg
    BY <1>1, <1>3 DEF Service!LoggedIn, NameTaken
  <2>4. [t \in Session |-> IF t \in Online THEN name[t] ELSE NoName]'
          = [[t \in Session |-> IF t \in Online THEN name[t] ELSE NoName] EXCEPT ![cur] = line.arg]
    BY <1>1, <2>1
  <2>5. /\ [t \in Session |-> IF t \in Online THEN id_num[t] ELSE 0]'
             = [t \in Session |-> IF t \in Online THEN id_num[t] ELSE 0]
        /\ {p \in Online \X Online : HasPipe(p[1], id_num[p[2]])}'
             = {p \in Online \X Online : HasPipe(p[1], id_num[p[2]])}
    BY <1>1 DEF HasPipe
  <2>6. Service!Rename(cur, line.arg)
    <3>1. \A t \in Service!LoggedIn \ {cur} : (IF t \in Online THEN name[t] ELSE NoName) # line.arg
      BY <2>3
    <3>2. Service!LoggedIn \subseteq Session
      BY DEF Service!LoggedIn
    <3> QED BY <1>1, <2>2, <2>4, <2>5, <3>1, <3>2 DEF Service!Rename
  <2> QED BY <1>1, <2>6
<1> QED BY <1>2, <1>3

LEMMA ServesExit == ASSUME ServiceInv, Exit PROVE Service!Leave(cur)
<1> USE DEF ServiceInv, SerialInv, FdInv
<1>1. /\ cur \in users /\ cur \in Session /\ cur \in Online /\ id_num[cur] \in Id
      /\ is_closed' = is_closed \cup {cur} /\ Online' = Online \ {cur}
      /\ UNCHANGED <<users, id_num, name>> /\ user_pipe' = clean_user_pipe(cur)
      /\ user_pipe \in [Session -> [Id -> Fd \cup {NoFd}]]
      /\ Online \subseteq users /\ Online \subseteq Session
  BY LineTypes DEF Exit, Parsing, TurnInv, Online, TypeOK, TableOK
<1>2. id_num[cur] # 0
  BY <1>1, OneReader
<1>3. [t \in Session |-> IF t \in Online THEN id_num[t] ELSE 0]'
        = [[t \in Session |-> IF t \in Online THEN id_num[t] ELSE 0] EXCEPT ![cur] = 0]
  BY <1>1
<1>4. [t \in Session |-> IF t \in Online THEN name[t] ELSE NoName]'
        = [[t \in Session |-> IF t \in Online THEN name[t] ELSE NoName] EXCEPT ![cur] = NoName]
  BY <1>1
<1>5. \A t, u \in Online \ {cur} : HasPipe(t, id_num[u])' <=> HasPipe(t, id_num[u])
  <2> SUFFICES ASSUME NEW t \in Online \ {cur}, NEW u \in Online \ {cur}
               PROVE  HasPipe(t, id_num[u])' <=> HasPipe(t, id_num[u])
    OBVIOUS
  <2>1. id_num[u] # id_num[cur] /\ id_num[u] \in Id
    BY <1>1, OneReader
  <2>2. user_pipe'[t][id_num[u]] = user_pipe[t][id_num[u]]
    BY <1>1, <2>1 DEF clean_user_pipe
  <2> QED BY <1>1, <2>1, <2>2 DEF HasPipe
<1>6. {p \in Online \X Online : HasPipe(p[1], id_num[p[2]])}'
        = {p \in {q \in Online \X Online : HasPipe(q[1], id_num[q[2]])} : cur \notin {p[1], p[2]}}
  BY <1>1, <1>5
<1> QED BY <1>1, <1>2, <1>3, <1>4, <1>6 DEF Service!Leave
(* A stage that starts takes the pipe it reads from the one user with that  *)
(* id, and makes the one it writes.                                         *)
LEMMA ServesStage ==
  ASSUME ServiceInv, StageRuns
  PROVE  LET sources == {t \in Online : S.rd # -1 /\ id_num[t] = S.rd}
             targets == {t \in Online : S.wr # -1 /\ id_num[t] = S.wr}
         IN  Service!Transfer(cur, sources, targets)
<1> USE DEF ServiceInv, SerialInv, FdInv
<1> DEFINE sources == {t \in Online : S.rd # -1 /\ id_num[t] = S.rd}
           targets == {t \in Online : S.wr # -1 /\ id_num[t] = S.wr}
           pipes   == {p \in Online \X Online : HasPipe(p[1], id_num[p[2]])}
           read    == {<<t, cur>> : t \in sources}
           made    == {<<cur, t>> : t \in targets}
<1>1. /\ cur \in users /\ cur \in Session /\ cur \in Online /\ id_num[cur] \in Id /\ AtStage
      /\ Online = users /\ Online' = Online /\ users \subseteq Session
      /\ UNCHANGED <<users, id_num, name>> /\ CanRead /\ CanWrite
      /\ user_pipe \in [Session -> [Id -> Fd \cup {NoFd}]]
  BY StageTypes DEF StageRuns, AtStage, TurnInv, Online, TypeOK, TableOK, table
<1>2. id_num[cur] # 0 /\ \A s, t \in Online : id_num[s] = id_num[t] => s = t
  BY <1>1, OneReader
<1>3. \A i : \A t \in WithId(i) : t \in Online /\ id_num[t] = i
  BY <1>1 DEF WithId, First
<1>4. \A t \in Online : id_num[t] = S.rd => t \in WithId(S.rd)
  <2>1. arrival \in [Session -> Nat]
    BY DEF TypeOK, TableOK
  <2> QED BY <1>1, <1>2, <2>1 DEF WithId, First
<1>5. \A t \in sources : HasPipe(t, id_num[cur])
  BY <1>1, <1>2, <1>3 DEF CanRead
<1>6. S.wr # -1 => ~HasPipe(cur, S.wr)
  BY <1>1 DEF CanWrite
<1>7. \A t, u \in Online :
        HasPipe(t, id_num[u])' <=> \/ HasPipe(t, id_num[u]) /\ ~(t \in sources /\ u = cur)
                                   \/ t = cur /\ u \in targets
  <2> SUFFICES ASSUME NEW t \in Online, NEW u \in Online
               PROVE  HasPipe(t, id_num[u])' <=>
                        \/ HasPipe(t, id_num[u]) /\ ~(t \in sources /\ u = cur)
                        \/ t = cur /\ u \in targets
    OBVIOUS
  <2>1. id_num[u] \in Id /\ t \in Session
    BY <1>1, OneReader
  <2>2. \A p \in [Session -> [Id -> Fd \cup {NoFd}]] :
          Unpipe(p)[t][id_num[u]] = IF t \in sources /\ u = cur THEN NoFd ELSE p[t][id_num[u]]
    <3>1. t \in sources <=> S.rd # -1 /\ t \in WithId(S.rd)
      BY <1>3, <1>4
    <3>2. id_num[u] = id_num[cur] <=> u = cur
      BY <1>1, <1>2
    <3> HIDE DEF sources
    <3> QED BY <1>1, <2>1, <3>1, <3>2 DEF Unpipe
  <2>3. CASE S.wr = -1
    <3>1. user_pipe' = Unpipe(user_pipe)
      BY <2>3 DEF StageRuns
    <3> QED BY <1>1, <2>1, <2>2, <2>3, <3>1 DEF HasPipe
  <2>4. CASE S.wr # -1
    <3>1. PICK f \in TakeLow(1) : user_pipe' = Unpipe([user_pipe EXCEPT ![cur][S.wr] = f])
      BY <2>4 DEF StageRuns
    <3>2. f \in Fd /\ f # NoFd
      BY <3>1, TakeLowFree, BoundsAssumption
    <3> DEFINE p == [user_pipe EXCEPT ![cur][S.wr] = f]
    <3>3. p \in [Session -> [Id -> Fd \cup {NoFd}]]
      BY <1>1, <3>2
    <3>4. p[t][id_num[u]] = IF t = cur /\ id_num[u] = S.wr THEN f ELSE user_pipe[t][id_num[u]]
      BY <1>1, <2>1
    <3>5. user_pipe'[t][id_num[u]] = IF t \in sources /\ u = cur THEN NoFd ELSE p[t][id_num[u]]
      BY <2>2, <3>1, <3>3
    <3>6. CASE t \in sources /\ u = cur
      <4>1. ~(t = cur /\ u \in targets)
        BY <1>5, <1>6, <3>6
      <4> QED BY <1>1, <3>5, <3>6, <4>1 DEF HasPipe
    <3>7. CASE ~(t \in sources /\ u = cur)
      <4>1. u \in targets <=> id_num[u] = S.wr
        BY <2>4
      <4> QED BY <1>1, <2>1, <3>2, <3>4, <3>5, <3>7, <4>1 DEF HasPipe
    <3> QED BY <3>6, <3>7
  <2> QED BY <2>3, <2>4
<1>8. pipes' = (pipes \ read) \cup made
  <2>1. \A t, u \in Online : /\ <<t, u>> \in read <=> t \in sources /\ u = cur
                             /\ <<t, u>> \in made <=> t = cur /\ u \in targets
    OBVIOUS
  <2>2. read \subseteq Online \X Online /\ made \subseteq Online \X Online
    BY <1>1
  <2>3. pipes' = {p \in Online \X Online : HasPipe(p[1], id_num[p[2]])'}
    BY <1>1
  <2> HIDE DEF read, made
  <2> QED BY <1>7, <2>1, <2>2, <2>3
<1>9. read \subseteq pipes /\ made \cap pipes = {}
  <2>1. \A t \in sources : <<t, cur>> \in pipes
    BY <1>1, <1>5
  <2>2. \A t \in targets : <<cur, t>> \notin pipes
    BY <1>6
  <2> QED BY <2>1, <2>2
<1>10. targets \subseteq Service!LoggedIn
  BY <1>1, OneReader DEF Service!LoggedIn
<1>11. /\ [t \in Session |-> IF t \in Online THEN id_num[t] ELSE 0]'
            = [t \in Session |-> IF t \in Online THEN id_num[t] ELSE 0]
       /\ [t \in Session |-> IF t \in Online THEN name[t] ELSE NoName]'
            = [t \in Session |-> IF t \in Online THEN name[t] ELSE NoName]
  BY <1>1
<1>12. [t \in Session |-> IF t \in Online THEN id_num[t] ELSE 0][cur] # 0
  BY <1>1, <1>2
<1> QED BY <1>8, <1>9, <1>10, <1>11, <1>12 DEF Service!Transfer

(* Every other step is none of the users' business.                         *)
LEMMA ServesRest ==
  ASSUME ServiceInv, [Next]_vars, ~Exit, ~ChangeName, ~StageRuns,
         \A s \in Session : ~(Accept(s) \/ PollEof(s))
  PROVE  UNCHANGED Service!svars
<1> USE DEF ServiceInv, SerialInv, FdInv
<1>1. Online \subseteq users /\ users \subseteq Session
  BY DEF Online, TypeOK, TableOK
<1>2. CASE Sweep
  <2>1. /\ users' = users \ is_closed /\ is_closed' = {}
        /\ name' = [s \in Session |-> IF s \in is_closed THEN NoName ELSE name[s]]
        /\ id_num' = [s \in Session |-> IF s \in is_closed THEN 0 ELSE id_num[s]]
        /\ user_pipe' = [s \in Session |-> IF s \in is_closed THEN NoPipes ELSE user_pipe[s]]
    BY <1>2 DEF Sweep, Leavers
  <2>2. Online' = Online
    BY <2>1 DEF Online
  <2>3. \A s \in Online : /\ id_num'[s] = id_num[s] /\ name'[s] = name[s]
                          /\ user_pipe'[s] = user_pipe[s]
    BY <1>1, <2>1 DEF Online
  <2> QED BY <2>2, <2>3, SameView
<1>3. CASE ~Sweep
  <2>1. UNCHANGED <<users, id_num, name>>
    BY <1>3, WhoTouchesTheTable
  <2>2. UNCHANGED <<is_closed, user_pipe>>
    <3>1. CASE Quiet
      BY <3>1, QuietStep DEF table
    <3>2. CASE Select \/ BeginRun \/ Prompt \/ ShutDown \/ \E s \in Session : PollLine(s)
      BY <3>2 DEF Select, BeginRun, Prompt, ShutDown, PollLine, table
    <3> QED BY <1>3, <3>1, <3>2 DEF Quiet
  <2> QED BY <2>1, <2>2, SameView DEF Online
<1> QED BY <1>2, <1>3

(* For clients that take turns, leave with exit and are never more than     *)
(* there are ids, np_single_proc keeps what RwgService promises: every step *)
(* of the server gives out the smallest unused id, changes one name, moves  *)
(* user pipes between two users that are there or lets one user go with all *)
(* its pipes, or is none of the users' business.                            *)
THEOREM ServesAsPromised == ASSUME TakeTurns, EnoughIds PROVE Spec => Implements
<1>1. Init => Service!Init
  <2> SUFFICES ASSUME Init PROVE Service!Init
    OBVIOUS
  <2>1. Online = {}
    BY DEF Init, Online
  <2> QED BY <2>1 DEF Service!Init
<1>2. ServiceInv /\ [Next]_vars => ServiceInv'
  BY ServiceStep
<1>3. ServiceInv /\ ServiceInv' /\ [Next]_vars => [Service!Next]_Service!svars
  <2> SUFFICES ASSUME ServiceInv, ServiceInv', [Next]_vars
               PROVE  Service!Next \/ UNCHANGED Service!svars
    OBVIOUS
  <2>1. cur \in Session \cup {None}
    BY DEF ServiceInv, SerialInv, FdInv, TypeOK, ServerOK
  <2>2. ASSUME NEW s \in Session, Accept(s) PROVE Service!Next
    BY <2>2, ServesAccept DEF Service!Next
  <2>3. ASSUME NEW s \in Session, PollEof(s) PROVE FALSE
    BY <2>3, NobodyLeavesUnasked DEF ServiceInv, SerialInv
  <2>4. CASE ChangeName
    BY <2>4, ServesName DEF Service!Next, Service!Rename
  <2>5. CASE Exit
    <3>1. cur \in Session
      BY <2>5, LineTypes DEF Exit, Parsing, ServiceInv, SerialInv, FdInv
    <3> QED BY <2>5, <3>1, ServesExit DEF Service!Next, Service!Leave
  <2>6. CASE StageRuns
    <3> DEFINE sources == {t \in Online : S.rd # -1 /\ id_num[t] = S.rd}
               targets == {t \in Online : S.wr # -1 /\ id_num[t] = S.wr}
    <3>1. Service!Transfer(cur, sources, targets)
      BY <2>6, ServesStage
    <3>2. cur \in Session /\ users \subseteq Session
      BY <2>6, StageTypes DEF StageRuns, ServiceInv, SerialInv, FdInv, TypeOK, TableOK
    <3>3. sources \in SUBSET Session /\ targets \in SUBSET Session
      BY <3>2 DEF Online
    <3> HIDE DEF sources, targets
    <3> QED BY <3>1, <3>2, <3>3 DEF Service!Next
  <2> QED BY <2>2, <2>3, <2>4, <2>5, <2>6, ServesRest
<1> QED BY <1>1, <1>2, <1>3, ServiceInit, PTL DEF Spec, Implements, Service!Spec
===============================================================================
