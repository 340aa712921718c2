------------------------------- MODULE MultiProc -------------------------------
(***************************************************************************)
(* np_multi_proc: a parent accepts connections and forks one shell for     *)
(* each; all of them read and write the slots of a shared memory, with no  *)
(* lock.  A step ends wherever another process may get in between and      *)
(* change what comes of it.                                                *)
(*                                                                         *)
(* Slot i has the id i while it is used (the code counts slots from 0 and  *)
(* keeps id i + 1 in slot i).  A session is one connection ever made; the  *)
(* steps that let it in are taken by the parent, the others by its shell,  *)
(* so its variables are those of whichever process is at work for it.      *)
(*                                                                         *)
(* Left to other modules: the FIFOs behind the pipe flags, which children  *)
(* open, and when commands end (here a wait ends at some time or never).   *)
(***************************************************************************)
EXTENDS Integers, FiniteSets, Sequences

CONSTANTS
  Session,      \* every connection the clients make
  MaxUsers,     \* the slots (30)
  MaxOnline,    \* how many clients keep a connection open at a time
  Names,        \* what users call themselves
  NoName,       \* "(no name)"
  Inputs,       \* the lines the clients may send
  None,
  MaxLines,     \* bound: the lines each client sends
  Serial,       \* a client acts only when nothing goes on in the server
  Eof           \* clients may leave without exit

Slot  == 1..MaxUsers
Stage == [rd : Int, wr : Int]          \* user pipes read and written, -1: none
Fatal == {"blank", "badnum", "nofile"} \* lines the parser dies of, see SingleProc
Line  == [op : {"exit", "yell", "local"} \cup Fatal]
         \cup [op : {"name"}, arg : Names]
         \cup [op : {"tell"}, to : Int]
         \cup [op : {"run"}, stages : Seq(Stage)]
Kinds == {"in", "out", "received", "piped", "yell", "name", "told"}
Mail  == [what : Kinds, from : Session]

Afters == {"fork", "flush", "write", "take", "reset"}    \* what follows a broadcast

ASSUME MultiBounds == {MaxUsers, MaxLines, MaxOnline} \subseteq Nat /\ MaxUsers > 0
ASSUME MultiNames  == NoName \notin Names
ASSUME MultiInputs == Inputs \subseteq Line /\ None \notin Inputs \cup Session
ASSUME MultiNone   == None \notin Kinds /\ None \notin Afters
ASSUME MultiModes  == Serial \in BOOLEAN /\ Eof \in BOOLEAN

PCs == {"none", "scan", "fork", "idle", "clear", "parse", "check", "cast", "post", "clean",
        "reset", "forget", "stage", "write", "take", "flush", "gone", "killed"}

VARIABLES
  id_num, name, user_pipe, broadcast_msg,   \* the slots in shared memory
  parent,                                   \* the session the parent lets in
  pc, me,                                   \* where each session's process is; its slot
  line, rest,                               \* the line a shell executes, its stages to come
  j, pos, what, after,                      \* a loop over the slots; a broadcast
  buf,                                      \* what was printed and is not cleared yet
  link, inbox, sent, heard                  \* the clients

shared == <<id_num, name, user_pipe, broadcast_msg>>
loop   == <<j, pos, what, after>>
shell  == <<me, line, rest, loop, buf>>
client == <<link, inbox, sent, heard>>
vars   == <<shared, parent, pc, shell, client>>

Init ==
  /\ id_num = [i \in Slot |-> 0]
  /\ name = [i \in Slot |-> NoName]
  /\ user_pipe = [i \in Slot |-> {}]
  /\ broadcast_msg = [i \in Slot |-> << >>]
  /\ parent = None
  /\ pc = [s \in Session |-> "none"] /\ me = [s \in Session |-> 0]
  /\ line = [s \in Session |-> None] /\ rest = [s \in Session |-> << >>]
  /\ j = [s \in Session |-> 0] /\ pos = [s \in Session |-> 0]
  /\ what = [s \in Session |-> None] /\ after = [s \in Session |-> None]
  /\ buf = [s \in Session |-> << >>]
  /\ link = [s \in Session |-> "off"]
  /\ inbox = [s \in Session |-> None] /\ sent = [s \in Session |-> 0]
  /\ heard = [s \in Session |-> {}]

Goto(s, l) == pc' = [pc EXCEPT ![s] = l]

(* Nothing goes on: the parent waits in accept, the shells poll, and every  *)
(* mailbox that is read is empty.                                           *)
AtRest == /\ parent = None
          /\ \A s \in Session :
               /\ link[s] # "backlog" /\ inbox[s] = None
               /\ pc[s] \in {"none", "idle", "gone", "killed"}
               /\ pc[s] = "idle" => broadcast_msg[me[s]] = << >>

-------------------------------------------------------------------------------
(* The clients.                                                             *)
Connect(s) == /\ link[s] = "off" /\ (Serial => AtRest)
              /\ Cardinality({t \in Session : link[t] \notin {"off", "closed"}
                                              \/ pc[t] = "killed"}) < MaxOnline
              /\ link' = [link EXCEPT ![s] = "backlog"]
              /\ UNCHANGED <<shared, parent, pc, shell, inbox, sent, heard>>

Send(s, l) == /\ link[s] = "on" /\ inbox[s] = None /\ sent[s] < MaxLines
              /\ Serial => AtRest
              /\ inbox' = [inbox EXCEPT ![s] = l]
              /\ sent' = [sent EXCEPT ![s] = @ + 1]
              /\ UNCHANGED <<shared, parent, pc, shell, link, heard>>

(* The client closes its socket.  The shell does not notice: read returns 0 *)
(* and is tried again for ever.                                             *)
HangUp(s) == /\ Eof /\ link[s] = "on"
             /\ link' = [link EXCEPT ![s] = "hup"]
             /\ UNCHANGED <<shared, parent, pc, shell, inbox, sent, heard>>

-------------------------------------------------------------------------------
(* broadcast, for any process: over the slots in order, the ones in use get *)
(* the message appended.  strcat finds the end of the mailbox and then      *)
(* copies; what another process did in between is overwritten, and a        *)
(* mailbox cleared in between hides what is copied behind its start.        *)
Broadcast(s, kind, then) == /\ Goto(s, "cast")
                            /\ j' = [j EXCEPT ![s] = 1]
                            /\ what' = [what EXCEPT ![s] = kind]
                            /\ after' = [after EXCEPT ![s] = then]

Passed_Last(s) == \/ id_num[j[s]] = 0 \/ j[s] = MaxUsers
                  \/ j[s] = me[s] /\ what[s] \notin {"yell", "name"}
Passed(s) == \/ id_num[j[s]] = 0
             \/ j[s] = me[s] /\ what[s] \notin {"yell", "name"}

Advance(s) == IF j[s] < MaxUsers /\ what[s] # "told"
              THEN /\ Goto(s, "cast")
                   /\ j' = [j EXCEPT ![s] = @ + 1]
                   /\ UNCHANGED <<what, after>>
              ELSE /\ Goto(s, after[s])
                   /\ j' = [j EXCEPT ![s] = 0]
                   /\ what' = [what EXCEPT ![s] = None]
                   /\ after' = [after EXCEPT ![s] = None]

Pass(s) == /\ pc[s] = "cast" /\ Passed(s)
           /\ Advance(s)
           /\ UNCHANGED <<shared, parent, me, line, rest, pos, buf, client>>

FindEnd(s) == /\ pc[s] = "cast" /\ ~Passed(s)
              /\ pos' = [pos EXCEPT ![s] = Len(broadcast_msg[j[s]])]
              /\ Goto(s, "post")
              /\ UNCHANGED <<shared, parent, me, line, rest, j, what, after, buf, client>>

Message(s)   == [what |-> what[s], from |-> s]
Posted(s, b) == IF pos[s] <= Len(b) THEN Append(SubSeq(b, 1, pos[s]), Message(s)) ELSE b

Post(s) == /\ pc[s] = "post"
           /\ broadcast_msg' = [broadcast_msg EXCEPT ![j[s]] = Posted(s, @)]
           /\ pos' = [pos EXCEPT ![s] = 0]
           /\ Advance(s)
           /\ UNCHANGED <<id_num, name, user_pipe, parent, me, line, rest, buf, client>>

-------------------------------------------------------------------------------
(* The parent: accept, the scan for a slot, the login, fork.                *)
Accept(s) == /\ parent = None /\ link[s] = "backlog"
             /\ parent' = s
             /\ link' = [link EXCEPT ![s] = "on"]
             /\ Goto(s, "scan")
             /\ j' = [j EXCEPT ![s] = 1]
             /\ UNCHANGED <<shared, me, line, rest, pos, what, after, buf, inbox, sent, heard>>

Vacant_Unnamed(i) == name[i] = NoName
Vacant(i)         == id_num[i] = 0

ScanNext(s) == /\ pc[s] = "scan" /\ j[s] \in Slot /\ ~Vacant(j[s])
               /\ j' = [j EXCEPT ![s] = @ + 1]
               /\ UNCHANGED <<shared, parent, pc, me, line, rest, pos, what, after, buf, client>>

(* With no slot left give_available_id returns 0, the first slot.           *)
Claim(s) == /\ pc[s] = "scan" /\ (j[s] \in Slot => Vacant(j[s]))
            /\ LET i == IF j[s] \in Slot THEN j[s] ELSE 1
               IN /\ me' = [me EXCEPT ![s] = i]
                  /\ id_num' = [id_num EXCEPT ![i] = i]
            /\ Broadcast(s, "in", "fork")
            /\ UNCHANGED <<name, user_pipe, broadcast_msg, parent, line, rest, pos, buf, client>>

Fork(s) == /\ pc[s] = "fork"
           /\ parent' = None
           /\ Goto(s, "idle")
           /\ heard' = [heard EXCEPT ![s] = {s}]
           /\ UNCHANGED <<shared, shell, link, inbox, sent>>

-------------------------------------------------------------------------------
(* A shell prints its mailbox and clears it, in the poll loop and again     *)
(* after each line.  Printing to a client that closed is answered with a    *)
(* reset, and printing after that with SIGPIPE.  (The rest of what a shell  *)
(* prints only answers its own client and is left out.)                     *)
News(s, kind) == {m.from : m \in {broadcast_msg[me[s]][k] :
                                    k \in {n \in DOMAIN broadcast_msg[me[s]] :
                                             broadcast_msg[me[s]][n].what = kind}}}

PrintMail(s) ==
  /\ pc[s] \in {"idle", "flush"} /\ broadcast_msg[me[s]] # << >>
  /\ heard' = [heard EXCEPT ![s] = (@ \cup News(s, "in")) \ News(s, "out")]
  /\ buf' = [buf EXCEPT ![s] = broadcast_msg[me[s]]]
  /\ Goto(s, "clear")
  /\ link' = [link EXCEPT ![s] = IF @ = "hup" THEN "hupw" ELSE @]
  /\ UNCHANGED <<shared, parent, me, line, rest, loop, inbox, sent>>

BrokenPipe(s) ==
  /\ pc[s] \in {"idle", "flush"} /\ broadcast_msg[me[s]] # << >> /\ link[s] = "hupw"
  /\ Goto(s, "killed")
  /\ link' = [link EXCEPT ![s] = "closed"]
  /\ UNCHANGED <<shared, parent, shell, inbox, sent, heard>>

ClearMail(s) ==
  /\ pc[s] = "clear"
  /\ broadcast_msg' = [broadcast_msg EXCEPT ![me[s]] = << >>]
  /\ buf' = [buf EXCEPT ![s] = << >>]
  /\ Goto(s, "idle")
  /\ UNCHANGED <<id_num, name, user_pipe, parent, me, line, rest, loop, client>>

NoMail(s) ==
  /\ pc[s] = "flush" /\ broadcast_msg[me[s]] = << >>
  /\ Goto(s, "idle")
  /\ UNCHANGED <<shared, parent, shell, client>>

ReadLine(s) ==
  /\ pc[s] = "idle" /\ inbox[s] # None
  /\ line' = [line EXCEPT ![s] = inbox[s]]
  /\ inbox' = [inbox EXCEPT ![s] = None]
  /\ Goto(s, "parse")
  /\ UNCHANGED <<shared, parent, me, rest, loop, buf, link, sent, heard>>

-------------------------------------------------------------------------------
(* parser: one action for each kind of line, more where it takes steps.     *)
Parsing(s, op) == pc[s] = "parse" /\ line[s].op = op

(* exit: the pipes of the own slot, then the pipes to it in the other       *)
(* slots, the slot itself, the broadcast, and the slot once more.           *)
Exit(s) ==
  /\ Parsing(s, "exit")
  /\ user_pipe' = [user_pipe EXCEPT ![me[s]] = {}]
  /\ pos' = [pos EXCEPT ![s] = id_num[me[s]]]
  /\ j' = [j EXCEPT ![s] = 1]
  /\ Goto(s, "clean")
  /\ UNCHANGED <<id_num, name, broadcast_msg, parent, me, line, rest, what, after, buf, client>>

Cleaned_Own(s) == user_pipe[j[s]]
Cleaned(s)     == IF id_num[j[s]] # 0 THEN user_pipe[j[s]] \ {pos[s]} ELSE user_pipe[j[s]]

CleanNext(s) ==
  /\ pc[s] = "clean" /\ j[s] \in Slot
  /\ user_pipe' = [user_pipe EXCEPT ![j[s]] = Cleaned(s)]
  /\ j' = [j EXCEPT ![s] = @ + 1]
  /\ UNCHANGED <<id_num, name, broadcast_msg, parent, pc, me, line, rest, pos, what, after,
                 buf, client>>

FreeSlot(s) ==
  /\ pc[s] = "clean" /\ j[s] \notin Slot
  /\ id_num' = [id_num EXCEPT ![me[s]] = 0]
  /\ pos' = [pos EXCEPT ![s] = 0]
  /\ Broadcast(s, "out", "reset")
  /\ UNCHANGED <<name, user_pipe, broadcast_msg, parent, me, line, rest, buf, client>>

(* reset_logout_user: the id first, then the rest of the slot.              *)
Reset(s) ==
  /\ pc[s] = "reset"
  /\ id_num' = [id_num EXCEPT ![me[s]] = 0]
  /\ Goto(s, "forget")
  /\ UNCHANGED <<name, user_pipe, broadcast_msg, parent, shell, client>>

Forget(s) ==
  /\ pc[s] = "forget"
  /\ name' = [name EXCEPT ![me[s]] = NoName]
  /\ broadcast_msg' = [broadcast_msg EXCEPT ![me[s]] = << >>]
  /\ Goto(s, "gone")
  /\ me' = [me EXCEPT ![s] = 0] /\ line' = [line EXCEPT ![s] = None]
  /\ link' = [link EXCEPT ![s] = "closed"]
  /\ heard' = [heard EXCEPT ![s] = {}]
  /\ UNCHANGED <<id_num, user_pipe, parent, rest, loop, buf, inbox, sent>>

(* name: each other slot is looked at before the name is written.           *)
CheckName(s) ==
  /\ Parsing(s, "name")
  /\ Goto(s, "check")
  /\ j' = [j EXCEPT ![s] = 1]
  /\ UNCHANGED <<shared, parent, me, line, rest, pos, what, after, buf, client>>

CheckNext(s) ==
  /\ pc[s] = "check" /\ j[s] \in Slot
  /\ LET i     == j[s]
         taken == i # me[s] /\ id_num[i] # 0 /\ name[i] = line[s].arg
     IN /\ Goto(s, IF taken THEN "flush" ELSE "check")
        /\ j' = [j EXCEPT ![s] = IF taken THEN 0 ELSE @ + 1]
  /\ UNCHANGED <<shared, parent, me, line, rest, pos, what, after, buf, client>>

ChangeName(s) ==
  /\ pc[s] = "check" /\ j[s] \notin Slot
  /\ name' = [name EXCEPT ![me[s]] = line[s].arg]
  /\ Broadcast(s, "name", "flush")
  /\ UNCHANGED <<id_num, user_pipe, broadcast_msg, parent, me, line, rest, pos, buf, client>>

Yell(s) ==
  /\ Parsing(s, "yell")
  /\ Broadcast(s, "yell", "flush")
  /\ UNCHANGED <<shared, parent, me, line, rest, pos, buf, client>>

(* tell copies to the start of the mailbox, whatever is there.              *)
Tell(s) ==
  /\ Parsing(s, "tell")
  /\ IF line[s].to \in Slot /\ id_num[line[s].to] # 0
     THEN /\ Goto(s, "post")
          /\ j' = [j EXCEPT ![s] = line[s].to]
          /\ what' = [what EXCEPT ![s] = "told"]
          /\ after' = [after EXCEPT ![s] = "flush"]
     ELSE Goto(s, "flush") /\ UNCHANGED <<j, what, after>>
  /\ UNCHANGED <<shared, parent, me, line, rest, pos, buf, client>>

(* setenv, printenv, who and the empty line touch no other process.         *)
Local(s) ==
  /\ Parsing(s, "local")
  /\ Goto(s, "flush")
  /\ UNCHANGED <<shared, parent, shell, client>>

(* A line without a first token, a number stoi refuses, a `>` with no file: *)
(* the shell dies, its slot stays.                                          *)
Crash(s) ==
  /\ \E o \in Fatal : Parsing(s, o)
  /\ Goto(s, "killed")
  /\ link' = [link EXCEPT ![s] = "closed"]
  /\ UNCHANGED <<shared, parent, shell, inbox, sent, heard>>

-------------------------------------------------------------------------------
(* exe_bin: the pipe a stage reads is checked and announced, then the one   *)
(* it writes is checked, flagged and announced, then the stage is forked    *)
(* and the flag of the pipe it reads is taken back.  A free entry of a row  *)
(* holds 0, so that 0 is found in it.                                       *)
Run(s) ==
  /\ Parsing(s, "run")
  /\ rest' = [rest EXCEPT ![s] = line[s].stages]
  /\ Goto(s, "stage")
  /\ UNCHANGED <<shared, parent, me, line, loop, buf, client>>

Now(s)        == Head(rest[s])
Skip(s)       == rest' = [rest EXCEPT ![s] = Tail(@)]
WithId(k)     == {i \in Slot : id_num[i] = k /\ \A h \in 1..(i - 1) : id_num[h] # k}
Flagged(i, k) == k \in user_pipe[i] \cup {0}
CanRead(s)    == \E i \in WithId(Now(s).rd) : Flagged(i, id_num[me[s]])
CanWrite_Any(s) == ~Flagged(me[s], Now(s).wr)
CanWrite(s)   == WithId(Now(s).wr) # {} /\ ~Flagged(me[s], Now(s).wr)

ReadNothing(s) ==
  /\ pc[s] = "stage" /\ rest[s] # << >> /\ Now(s).rd = -1
  /\ Goto(s, "write")
  /\ UNCHANGED <<shared, parent, shell, client>>

ReadPipe(s) ==
  /\ pc[s] = "stage" /\ rest[s] # << >> /\ Now(s).rd # -1 /\ CanRead(s)
  /\ Broadcast(s, "received", "write")
  /\ UNCHANGED <<shared, parent, me, line, rest, pos, buf, client>>

ReadFails(s) ==
  /\ pc[s] = "stage" /\ rest[s] # << >> /\ Now(s).rd # -1 /\ ~CanRead(s)
  /\ Skip(s)
  /\ UNCHANGED <<shared, parent, pc, me, line, loop, buf, client>>

WriteNothing(s) ==
  /\ pc[s] = "write" /\ Now(s).wr = -1
  /\ Goto(s, "take")
  /\ UNCHANGED <<shared, parent, shell, client>>

(* Checked in one loop and set in the next; one step, since nobody else     *)
(* puts an entry into this row.                                             *)
WritePipe(s) ==
  /\ pc[s] = "write" /\ Now(s).wr # -1 /\ CanWrite(s)
  /\ user_pipe' = [user_pipe EXCEPT ![me[s]] = @ \cup {Now(s).wr}]
  /\ Broadcast(s, "piped", "take")
  /\ UNCHANGED <<id_num, name, broadcast_msg, parent, me, line, rest, pos, buf, client>>

WriteFails(s) ==
  /\ pc[s] = "write" /\ Now(s).wr # -1 /\ ~CanWrite(s)
  /\ Skip(s) /\ Goto(s, "stage")
  /\ UNCHANGED <<shared, parent, me, line, loop, buf, client>>

(* close_rd_user_pipe looks the writer up again.  If it left meanwhile, a   *)
(* pointer that was never set is used: that ends the shell or does no harm  *)
(* that shows.                                                              *)
Taken_Row(s) == [i \in Slot |-> IF i \in WithId(Now(s).rd) THEN {} ELSE user_pipe[i]]
Taken(s)     == [i \in Slot |-> IF i \in WithId(Now(s).rd)
                                THEN user_pipe[i] \ {id_num[me[s]]} ELSE user_pipe[i]]

Take(s) ==
  /\ pc[s] = "take"
  /\ user_pipe' = IF Now(s).rd = -1 THEN user_pipe ELSE Taken(s)
  /\ \E next \in {"stage"} \cup {p \in {"killed"} : Now(s).rd # -1 /\ WithId(Now(s).rd) = {}} :
       /\ Goto(s, next)
       /\ link' = [link EXCEPT ![s] = IF next = "killed" THEN "closed" ELSE @]
  /\ Skip(s)
  /\ UNCHANGED <<id_num, name, broadcast_msg, parent, me, line, loop, buf, inbox, sent, heard>>

EndRun(s) ==
  /\ pc[s] = "stage" /\ rest[s] = << >>
  /\ Goto(s, "flush")
  /\ UNCHANGED <<shared, parent, shell, client>>

-------------------------------------------------------------------------------
Parent(s) == Accept(s) \/ ScanNext(s) \/ Claim(s) \/ Fork(s)
Shell(s)  == \/ PrintMail(s) \/ BrokenPipe(s) \/ ClearMail(s) \/ NoMail(s) \/ ReadLine(s)
             \/ Exit(s) \/ CleanNext(s) \/ FreeSlot(s) \/ Reset(s) \/ Forget(s)
             \/ CheckName(s) \/ CheckNext(s) \/ ChangeName(s)
             \/ Yell(s) \/ Tell(s) \/ Local(s) \/ Crash(s)
             \/ Run(s) \/ ReadNothing(s) \/ ReadPipe(s) \/ ReadFails(s)
             \/ WriteNothing(s) \/ WritePipe(s) \/ WriteFails(s)
             \/ Take(s) \/ EndRun(s)
Either(s) == Pass(s) \/ FindEnd(s) \/ Post(s)
Client(s) == Connect(s) \/ HangUp(s) \/ \E l \in Inputs : Send(s, l)

Next == \E s \in Session : Parent(s) \/ Shell(s) \/ Either(s) \/ Client(s)

Spec == Init /\ [][Next]_vars

-------------------------------------------------------------------------------
(* Properties.                                                              *)
SharedOK == /\ id_num \in [Slot -> 0..MaxUsers] /\ name \in [Slot -> Names \cup {NoName}]
            /\ user_pipe \in [Slot -> SUBSET Slot] /\ broadcast_msg \in [Slot -> Seq(Mail)]
ShellsOK == /\ parent \in Session \cup {None}
            /\ pc \in [Session -> PCs] /\ me \in [Session -> 0..MaxUsers]
            /\ line \in [Session -> Inputs \cup {None}] /\ rest \in [Session -> Seq(Stage)]
            /\ j \in [Session -> 0..(MaxUsers + 1)] /\ pos \in [Session -> Nat]
            /\ what \in [Session -> Kinds \cup {None}]
            /\ after \in [Session -> Afters \cup {None}]
            /\ buf \in [Session -> Seq(Mail)]
ClientsOK == /\ link \in [Session -> {"off", "backlog", "on", "hup", "hupw", "closed"}]
             /\ inbox \in [Session -> Inputs \cup {None}] /\ sent \in [Session -> Nat]
             /\ heard \in [Session -> SUBSET Session]

TypeOK == SharedOK /\ ShellsOK /\ ClientsOK

Leaving(s)  == pc[s] \in {"clean", "reset", "forget"} \/ after[s] = "reset"
LoggedIn(s) == me[s] # 0 /\ ~Leaving(s)

(* A user that is logged in has the slot, and with it the id, it was given, *)
(* and shares it with nobody: "the user's id should be assigned in the      *)
(* range of 1-30".  give_available_id in the parent, exit in the shells.    *)
OneOwner == \A s \in Session : LoggedIn(s) =>
              /\ id_num[me[s]] = me[s]
              /\ \A t \in Session \ {s} : LoggedIn(t) => me[t] # me[s]

(* When nothing goes on, of any two users one came later and the other was  *)
(* told of it, and nobody believes that a user is there who left: the login *)
(* and logout broadcasts reach every mailbox and the mailboxes their users. *)
HeardRight ==
  LET here == {s \in Session : pc[s] = "idle" /\ link[s] = "on"}
  IN AtRest => \A s \in here : /\ heard[s] \subseteq here
                               /\ \A t \in here \ {s} : (s \in heard[t]) # (t \in heard[s])

(* What is broadcast or told reaches the user: a message that is written is *)
(* there, and leaves the mailbox of a slot in use only when it was printed. *)
NothingLost ==
  [][\A s \in Session :
       /\ pc[s] = "post" /\ pc'[s] # "post" =>
            LET i == j[s] IN /\ Len(broadcast_msg'[i]) > Len(broadcast_msg[i])
                             /\ SubSeq(broadcast_msg'[i], 1, Len(broadcast_msg[i])) = broadcast_msg[i]
       /\ pc[s] = "clear" /\ pc'[s] = "idle" => broadcast_msg[me[s]] = buf[s]]_vars

(* What the users are promised, see RwgService.                             *)
Service == INSTANCE RwgService WITH
  uid   <- [s \in Session |-> IF LoggedIn(s) THEN me[s] ELSE 0],
  nick  <- [s \in Session |-> IF LoggedIn(s) THEN name[me[s]] ELSE NoName],
  pipes <- {p \in {s \in Session : LoggedIn(s)} \X {s \in Session : LoggedIn(s)} :
              me[p[2]] \in user_pipe[me[p[1]]]}

Implements == Service!Spec
===============================================================================
