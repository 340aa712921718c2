--------------------------------- MODULE Fifo ---------------------------------
(***************************************************************************)
(* The user pipes of np_multi_proc behind their flags: FIFOs in the file   *)
(* system, named after the writer and the reader, which the children of    *)
(* the two shells make, open and unlink while the shells test, set and     *)
(* clear the flag in shared memory.                                        *)
(*                                                                         *)
(* A command line is one stage with the users it reads from and writes to  *)
(* (none: 0).  A user has one shell at a time and stands for its slot: it  *)
(* leaves with exit and another client may get the slot.  A FIFO is an     *)
(* inode: its name may be gone or stand for a younger one.  What a command *)
(* writes is known by the job that wrote it.                               *)
(*                                                                         *)
(* Left to MultiProc: the slots, broadcasts and mailboxes; to ExeBin: the  *)
(* other stages of a line (np_multi_proc has the same code for them).      *)
(***************************************************************************)
EXTENDS Naturals, FiniteSets

CONSTANTS
  User,         \* ids of the slots
  MaxJobs,      \* bound: command lines typed in all
  Patient,      \* a user types only when the children are ready for it
  Tidy          \* a user leaves only with no user pipe to or from it

ASSUME UserAssumption  == User \subseteq Nat \ {0} /\ IsFiniteSet(User)
ASSUME ModeAssumption  == MaxJobs \in Nat /\ Patient \in BOOLEAN /\ Tidy \in BOOLEAN

Pairs == User \X User                  \* <<writer, reader>>
Jobs  == 1..MaxJobs
Peer  == User \cup {0}

VARIABLES
  here,         \* the users that are logged in
  flag,         \* the pairs whose send_to_id is set
  sh, cmd,      \* where each shell is in exe_bin; the command it executes
  name,         \* the inode behind the name of each pair's FIFO, 0: none
  data,         \* what is in each inode
  job,          \* the child of each job: where it is, its FIFOs
  made, jobs    \* history: the job that each pair's pipe was set for; a counter

vars == <<here, flag, sh, cmd, name, data, job, made, jobs>>

NoCmd == [rd |-> 0, wr |-> 0, id |-> 0]
NoJob == [at |-> "none", u |-> 0, rd |-> 0, wr |-> 0, in |-> 0, out |-> 0, want |-> 0]

Init == /\ here = User
        /\ flag = {}
        /\ sh = [u \in User |-> "idle"] /\ cmd = [u \in User |-> NoCmd]
        /\ name = [e \in Pairs |-> 0]
        /\ data = [n \in Jobs |-> {}]
        /\ job = [k \in Jobs |-> NoJob]
        /\ made = [e \in Pairs |-> 0] /\ jobs = 0

-------------------------------------------------------------------------------
(* The kernel.  Opening a FIFO registers the opener and waits until there   *)
(* is one on the other side; both then go on, whatever the other does next. *)
Readers(n) == {k \in Jobs : job[k].in = n /\ job[k].at \in {"rdwait", "unlink", "make", "open",
                                                              "wrwait", "run"}}
Writers(n) == {k \in Jobs : job[k].out = n /\ job[k].at \in {"wrwait", "run"}}
Meets(n, waiting, next) ==
  [j \in Jobs |-> IF n # 0 /\ job[j].at = waiting /\ n \in {job[j].in, job[j].out}
                  THEN [job[j] EXCEPT !.at = next] ELSE job[j]]

(* What the child of job k can do next; a child that waits for a peer can   *)
(* do nothing.                                                              *)
AtEof(k)   == job[k].in = 0 \/ Writers(job[k].in) = {}
CanMove(k) == \/ job[k].at \in {"read", "unlink", "make", "open"}
              \/ job[k].at = "run" /\ AtEof(k)

(* A shell that shows its prompt, or that waits for a writer whose pipe     *)
(* nobody has read yet after a command of its own failed (see Type).        *)
AtRest(u) == \/ sh[u] = "idle"
             \/ sh[u] = "wait" /\ cmd[u].rd = 0 /\ cmd[u].wr = 0 /\ job[cmd[u].id].at = "wrwait"

Settled == /\ \A u \in User : AtRest(u)
           /\ \A k \in Jobs : ~CanMove(k)

(* Every shell is at rest, and the FIFOs to write are made and the FIFOs to *)
(* read are taken.                                                          *)
Ready == /\ \A u \in User : AtRest(u)
         /\ \A k \in Jobs : job[k].at \notin {"read", "rdwait", "unlink", "make"}

-------------------------------------------------------------------------------
(* The shell: a line arrives, init_rd_user_pp and init_wr_user_pp.  When    *)
(* the pipe to read is not there, or the one to write is, the stage is      *)
(* given up, and the shell waits for pre_pid, which nothing has set: for a  *)
(* child that is still there, or not at all.                                *)
CanRead(u, r)  == r = 0 \/ (r \in here /\ <<r, u>> \in flag)
CanWrite(u, w) == w = 0 \/ (w \in here /\ <<u, w>> \notin flag)

Type(u, r, w) ==
  /\ u \in here /\ sh[u] = "idle" /\ jobs < MaxJobs /\ <<r, w>> # <<0, 0>>
  /\ Patient => Ready
  /\ jobs' = jobs + 1
  /\ \/ /\ CanRead(u, r) /\ CanWrite(u, w)
        /\ flag' = flag \cup {e \in {<<u, w>>} : w # 0}
        /\ made' = [e \in Pairs |-> IF e = <<u, w>> THEN jobs + 1 ELSE made[e]]
        /\ cmd' = [cmd EXCEPT ![u] = [rd |-> r, wr |-> w, id |-> jobs + 1]]
        /\ sh' = [sh EXCEPT ![u] = "fork"]
     \/ /\ ~(CanRead(u, r) /\ CanWrite(u, w))
        /\ \/ UNCHANGED <<cmd, sh>>
           \/ \E k \in {k \in Jobs : job[k].u = u} :
                /\ cmd' = [cmd EXCEPT ![u] = [NoCmd EXCEPT !.id = k]]
                /\ sh' = [sh EXCEPT ![u] = "wait"]
        /\ UNCHANGED <<flag, made>>
  /\ UNCHANGED <<here, name, data, job>>

(* fork.  The child starts with the FIFO it reads, if any.                  *)
Fork(u) ==
  /\ sh[u] = "fork"
  /\ job' = [job EXCEPT ![cmd[u].id] =
       [NoJob EXCEPT !.at = IF cmd[u].rd # 0 THEN "read" ELSE "make",
                     !.u = u, !.rd = cmd[u].rd, !.wr = cmd[u].wr,
                     !.want = IF cmd[u].rd # 0 THEN made[<<cmd[u].rd, u>>] ELSE 0]]
  /\ sh' = [sh EXCEPT ![u] = IF cmd[u].rd # 0 THEN "clear" ELSE "wait"]
  /\ UNCHANGED <<here, flag, cmd, name, data, made, jobs>>

(* close_rd_user_pipe: the flag is cleared at once.                         *)
Cleared_Nothing(u) == flag
Cleared(u)         == flag \ {<<cmd[u].rd, u>>}

Clear(u) ==
  /\ sh[u] = "clear"
  /\ flag' = Cleared(u)
  /\ sh' = [sh EXCEPT ![u] = "wait"]
  /\ UNCHANGED <<here, cmd, name, data, job, made, jobs>>

(* The shell waits for a child that does not write to a user pipe.          *)
WaitsFor_Writer(u) == TRUE
WaitsFor(u)        == cmd[u].wr = 0

Reap(u) ==
  /\ sh[u] = "wait" /\ (WaitsFor(u) => job[cmd[u].id].at = "over")
  /\ sh' = [sh EXCEPT ![u] = "idle"]
  /\ cmd' = [cmd EXCEPT ![u] = NoCmd]
  /\ UNCHANGED <<here, flag, name, data, job, made, jobs>>

(* exit: clean_user_pipe clears the flags to and from the user; the FIFOs   *)
(* and the children that wait in them stay.                                 *)
About_Own(u) == {e \in Pairs : u = e[1]}
About(u) == {e \in Pairs : u \in {e[1], e[2]}}

Exit(u) ==
  /\ u \in here /\ sh[u] = "idle" /\ jobs < MaxJobs
  /\ Patient => Ready
  /\ Tidy => flag \cap About(u) = {}
  /\ here' = here \ {u}
  /\ flag' = flag \ About(u)
  /\ UNCHANGED <<sh, cmd, name, data, job, made, jobs>>

Login(u) ==
  /\ u \notin here
  /\ here' = here \cup {u}
  /\ UNCHANGED <<flag, sh, cmd, name, data, job, made, jobs>>

-------------------------------------------------------------------------------
(* The children: exe_command.  Reading: open the FIFO by its name; without  *)
(* one, standard input stays the client's socket.                           *)
At(k, l)  == job[k].at = l
NextAt(k) == IF job[k].wr # 0 THEN "make" ELSE "run"

OpenRead(k) ==
  /\ At(k, "read")
  /\ LET n == name[<<job[k].rd, job[k].u>>]
     IN job' = IF n # 0 /\ Writers(n) = {}
               THEN [job EXCEPT ![k].at = "rdwait", ![k].in = n]
               ELSE [Meets(n, "wrwait", "run") EXCEPT ![k].at = "unlink", ![k].in = n]
  /\ UNCHANGED <<here, flag, sh, cmd, name, data, made, jobs>>

Unlinked_Nothing(k) == name
Unlinked(k)         == [name EXCEPT ![<<job[k].rd, job[k].u>>] = 0]

Unlink(k) ==
  /\ At(k, "unlink")
  /\ name' = Unlinked(k)
  /\ job' = [job EXCEPT ![k].at = NextAt(k)]
  /\ UNCHANGED <<here, flag, sh, cmd, data, made, jobs>>

(* Writing: mkfifo, which fails when the name is there, and open.  The      *)
(* inode made by job k is k.                                                *)
MkFifo(k) ==
  /\ At(k, "make")
  /\ name' = [name EXCEPT ![<<job[k].u, job[k].wr>>] = IF @ = 0 THEN k ELSE @]
  /\ job' = [job EXCEPT ![k].at = "open"]
  /\ UNCHANGED <<here, flag, sh, cmd, data, made, jobs>>

OpenWrite(k) ==
  /\ At(k, "open")
  /\ LET n == name[<<job[k].u, job[k].wr>>]
     IN job' = IF n # 0 /\ Readers(n) = {}
               THEN [job EXCEPT ![k].at = "wrwait", ![k].out = n]
               ELSE [Meets(n, "rdwait", "unlink") EXCEPT ![k].at = "run", ![k].out = n]
  /\ UNCHANGED <<here, flag, sh, cmd, name, data, made, jobs>>

(* The command: it reads to the end of file, writes and exits.              *)
Got(k) == IF job[k].in = 0 THEN {} ELSE data[job[k].in]

Run(k) ==
  /\ At(k, "run") /\ AtEof(k)
  /\ data' = [n \in Jobs |-> IF n = job[k].in THEN {}
                             ELSE IF n = job[k].out /\ Readers(n) # {} THEN data[n] \cup {k}
                             ELSE data[n]]
  /\ job' = [job EXCEPT ![k] = [NoJob EXCEPT !.at = "over"]]
  /\ UNCHANGED <<here, flag, sh, cmd, name, made, jobs>>

Child(k) == OpenRead(k) \/ Unlink(k) \/ MkFifo(k) \/ OpenWrite(k) \/ Run(k)
Shell(u) == Fork(u) \/ Clear(u) \/ Reap(u)
Client(u) == Exit(u) \/ Login(u) \/ \E r, w \in Peer : Type(u, r, w)

Next == (\E k \in Jobs : Child(k)) \/ (\E u \in User : Shell(u) \/ Client(u))

Spec == Init /\ [][Next]_vars

(* Shells and children are processes that the system schedules.             *)
FairSpec == Spec /\ (\A k \in Jobs : WF_vars(Child(k))) /\ (\A u \in User : WF_vars(Shell(u)))

-------------------------------------------------------------------------------
(* Properties.                                                              *)
Places == {"none", "read", "rdwait", "unlink", "make", "open", "wrwait", "run", "over"}

(* The types of the state; a flag is about users that are logged in.        *)
TypeOK == /\ here \subseteq User /\ flag \subseteq here \X here
          /\ sh \in [User -> {"idle", "fork", "clear", "wait"}]
          /\ cmd \in [User -> [rd : Peer, wr : Peer, id : 0..MaxJobs]]
          /\ name \in [Pairs -> 0..MaxJobs] /\ data \in [Jobs -> SUBSET Jobs]
          /\ job \in [Jobs -> [at : Places, u : Peer, rd : Peer, wr : Peer,
                               in : 0..MaxJobs, out : 0..MaxJobs, want : 0..MaxJobs]]
          /\ made \in [Pairs -> 0..MaxJobs] /\ jobs \in 0..MaxJobs

(* "'< n' reads contents from the pipe": a command that reads a user pipe   *)
(* gets what the one that was announced with the flag wrote, all of it and  *)
(* nothing else, and not what its own client types (exe_command, with       *)
(* init_rd_user_pp and close_rd_user_pipe).                                 *)
FifoRight == [][\A k \in Jobs : At(k, "run") /\ job'[k].at = "over" /\ job[k].rd # 0
                                  => Got(k) = {job[k].want}]_vars

(* When everything has come to rest, the flags in shared memory and the     *)
(* FIFOs in the file system tell the same: each flag has its FIFO with its  *)
(* writer, and nobody else, waiting in it; and every FIFO and every child   *)
(* that waits belongs to a flag, so that it will be read (mkfifo, unlink,   *)
(* clean_user_pipe).                                                        *)
Waiting(e) == {k \in Jobs : At(k, "wrwait") /\ <<job[k].u, job[k].wr>> = e}
FlagIsFile == Settled => /\ \A e \in Pairs : Waiting(e) = {k \in {made[e]} : e \in flag}
                         /\ \A e \in Pairs : name[e] # 0 <=> e \in flag
                         /\ \A k \in Jobs : ~At(k, "rdwait")

(* The shell of a user that reads or writes a pipe gets its prompt back:    *)
(* the child it waits for is not left alone in the open of a FIFO (open,    *)
(* waitpid).                                                                *)
Using(u)   == sh[u] # "idle" /\ (cmd[u].rd # 0 \/ cmd[u].wr # 0)
PromptBack == \A u \in User : Using(u) ~> sh[u] = "idle"
===============================================================================
