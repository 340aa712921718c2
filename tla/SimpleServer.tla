------------------------------ MODULE SimpleServer ------------------------------
(***************************************************************************)
(* np_simple: a process accepts a client, forks a child that runs the      *)
(* shell for it, waits for the child and accepts the next.                 *)
(*                                                                         *)
(* A shell that meets the end of its input returns into the accept loop of *)
(* main, in the child: a process that was forked for a client and has lost *)
(* it goes on as a server, with the socket of that client for its output,  *)
(* and with the end of file remembered by cin, which its children inherit. *)
(* A process other than the first is forked for one client and named after *)
(* it.                                                                     *)
(*                                                                         *)
(* Left to ExeBin: the commands a line runs.  Not modelled: a client that  *)
(* resets its connection instead of closing it.                            *)
(***************************************************************************)
EXTENDS Naturals, FiniteSets

CONSTANTS
  Client,       \* every connection the clients make
  Root,         \* the process that was started
  None,
  MaxLines,     \* bound: the lines a client sends before it leaves
  Eof           \* clients may leave without exit

Proc  == Client \cup {Root}
Lines == {"run", "exit", "blank"}

ASSUME NamesAssumption == Root \notin Client /\ None \notin Proc \cup Lines
ASSUME ModeAssumption  == MaxLines \in Nat /\ Eof \in BOOLEAN

VARIABLES
  st,           \* what each process does
  kid,          \* the child it waits for
  cin_eof,      \* its cin is at end of file
  link,         \* the connections: off, in the backlog, on, closed by the
                \* client (hup; hupw once it was written to, rst once the
                \* reset for that arrived), or gone
  inbox, sent   \* the line a client has sent and the server not read yet

vars   == <<st, kid, cin_eof, link, inbox, sent>>
client == <<inbox, sent>>

Init == /\ st = [p \in Proc |-> IF p = Root THEN "accept" ELSE "none"]
        /\ kid = [p \in Proc |-> None]
        /\ cin_eof = [p \in Proc |-> FALSE]
        /\ link = [c \in Client |-> "off"]
        /\ inbox = [c \in Client |-> None]
        /\ sent = [c \in Client |-> 0]

-------------------------------------------------------------------------------
(* The clients.                                                             *)
Connect(c) == /\ link[c] = "off"
              /\ link' = [link EXCEPT ![c] = "backlog"]
              /\ UNCHANGED <<st, kid, cin_eof, client>>

Send(c, l) == /\ link[c] = "on" /\ inbox[c] = None
              /\ l = "run" => sent[c] < MaxLines
              /\ inbox' = [inbox EXCEPT ![c] = l]
              /\ sent' = [sent EXCEPT ![c] = IF l = "run" THEN @ + 1 ELSE @]
              /\ UNCHANGED <<st, kid, cin_eof, link>>

HangUp(c) == /\ Eof /\ link[c] = "on"
             /\ link' = [link EXCEPT ![c] = "hup"]
             /\ UNCHANGED <<st, kid, cin_eof, client>>

(* The answer to what the server wrote to a closed socket.                  *)
ResetArrives(c) == /\ link[c] = "hupw"
                   /\ link' = [link EXCEPT ![c] = "rst"]
                   /\ UNCHANGED <<st, kid, cin_eof, client>>

-------------------------------------------------------------------------------
(* Process p prints: the first one to the terminal, the others to the       *)
(* socket they were forked for.  A write after a reset is SIGPIPE; the      *)
(* message at a login takes several writes, between which the reset may     *)
(* arrive.                                                                  *)
Deaf(p)    == p # Root /\ link[p] = "rst"
Fading(p)  == p # Root /\ link[p] \in {"hup", "hupw", "rst"}
Touched(p) == [c \in Client |-> IF c = p /\ link[c] = "hup" THEN "hupw" ELSE link[c]]

AfterFork_Accepts == "accept"
AfterFork         == "wait"
Inherited_Eof(p)  == TRUE
Inherited(p)      == cin_eof[p]

(* accept, print_login_msg, fork.  A process that dies of the message takes *)
(* the connection it has accepted with it.                                  *)
Accept(p, c) ==
  /\ st[p] = "accept" /\ link[c] = "backlog"
  /\ \/ /\ Fading(p)
        /\ st' = [st EXCEPT ![p] = "over"]
        /\ link' = [link EXCEPT ![p] = "gone", ![c] = "gone"]
        /\ UNCHANGED <<kid, cin_eof>>
     \/ /\ ~Deaf(p)
        /\ st' = [st EXCEPT ![p] = AfterFork, ![c] = "prompt"]
        /\ kid' = [kid EXCEPT ![p] = c]
        /\ cin_eof' = [cin_eof EXCEPT ![c] = Inherited(p)]
        /\ link' = [Touched(p) EXCEPT ![c] = "on"]
  /\ UNCHANGED client

(* waitpid and print_lost_cnt_msg.                                          *)
Ended_AnyTime(p) == st[p] = "wait"
Ended(p)         == st[p] = "wait" /\ st[kid[p]] = "over"

Reap(p) ==
  /\ Ended(p)
  /\ kid' = [kid EXCEPT ![p] = None]
  /\ \/ /\ Deaf(p)
        /\ st' = [st EXCEPT ![p] = "over"]
        /\ link' = [link EXCEPT ![p] = "gone"]
     \/ /\ ~Deaf(p)
        /\ st' = [st EXCEPT ![p] = "accept"]
        /\ link' = Touched(p)
  /\ UNCHANGED <<cin_eof, client>>

-------------------------------------------------------------------------------
(* exe_shell.  The prompt is flushed when getline asks for input, which it  *)
(* does not any more once cin is at end of file.                            *)
Prompt(c) ==
  /\ st[c] = "prompt"
  /\ \/ /\ Deaf(c) /\ ~cin_eof[c]
        /\ st' = [st EXCEPT ![c] = "over"]
        /\ link' = [link EXCEPT ![c] = "gone"]
     \/ /\ ~Deaf(c) /\ ~cin_eof[c]
        /\ st' = [st EXCEPT ![c] = "read"]
        /\ link' = Touched(c)
     \/ /\ cin_eof[c]
        /\ st' = [st EXCEPT ![c] = "read"]
        /\ UNCHANGED link
  /\ UNCHANGED <<kid, cin_eof, client>>

Reading(c, l) == st[c] = "read" /\ ~cin_eof[c] /\ inbox[c] = l

(* A command line was run; what it printed went to the client.              *)
Run(c) == /\ Reading(c, "run")
          /\ st' = [st EXCEPT ![c] = "prompt"]
          /\ inbox' = [inbox EXCEPT ![c] = None]
          /\ UNCHANGED <<kid, cin_eof, link, sent>>

(* exit ends the process; so do the lines the parser dies of ("blank"): no  *)
(* first token, a number stoi refuses, a `>` with no file.                  *)
AfterExit_Returns == "accept"
AfterExit         == "over"
Leave(c) == /\ \E l \in {"exit", "blank"} : Reading(c, l)
            /\ st' = [st EXCEPT ![c] = AfterExit]
            /\ inbox' = [inbox EXCEPT ![c] = None]
            /\ link' = [link EXCEPT ![c] = "gone"]
            /\ UNCHANGED <<kid, cin_eof, sent>>

(* getline meets the end of the input, now or before: the shell returns.    *)
ReadsOn(c)  == cin_eof[c] \/ (inbox[c] = None /\ link[c] \in {"hup", "hupw", "rst"})
EndOfInput(c) == /\ st[c] = "read" /\ ReadsOn(c)
                 /\ st' = [st EXCEPT ![c] = "accept"]
                 /\ cin_eof' = [cin_eof EXCEPT ![c] = TRUE]
                 /\ UNCHANGED <<kid, link, client>>

Step(p) == \/ \E c \in Client : Accept(p, c)
           \/ Reap(p)
           \/ p \in Client /\ (Prompt(p) \/ Run(p) \/ Leave(p) \/ EndOfInput(p))

Next == \/ \E p \in Proc : Step(p)
        \/ \E c \in Client : \/ Connect(c) \/ HangUp(c) \/ ResetArrives(c)
                             \/ \E l \in Lines : Send(c, l)

Spec == Init /\ [][Next]_vars

(* The processes are scheduled.  "Clients always use 'exit' to leave the    *)
(* shell", the assignment says: a client that stays connected types it in   *)
(* the end.                                                                 *)
FairSpec == /\ Spec
            /\ \A p \in Proc : WF_vars(Step(p))
            /\ \A c \in Client : WF_vars(Send(c, "exit"))

-------------------------------------------------------------------------------
(* Properties.                                                              *)
States == {"none", "accept", "wait", "prompt", "read", "over"}
Links  == {"off", "backlog", "on", "hup", "hupw", "rst", "gone"}

(* The types of the state; the processes that wait are the ones that have a *)
(* child to wait for.                                                       *)
TypeOK == /\ st \in [Proc -> States]
          /\ kid \in [Proc -> Client \cup {None}]
          /\ \A p \in Proc : st[p] = "wait" <=> kid[p] # None
          /\ cin_eof \in [Proc -> BOOLEAN]
          /\ link \in [Client -> Links]
          /\ inbox \in [Client -> Lines \cup {None}]
          /\ sent \in [Client -> Nat]

(* "This server allows one client connect to it": however clients leave and *)
(* whichever process accepts by then, never do two processes accept or      *)
(* serve (accept, fork and waitpid of main; the return of exe_shell).       *)
Busy      == {p \in Proc : st[p] \in {"accept", "prompt", "read"}}
OneClient == \A p, q \in Busy : p = q

(* Only a client that left without exit turns its process into a server:    *)
(* unless somebody did, the one that accepts is the one that was started,   *)
(* whose messages no client sees (exe_shell, print_login_msg).              *)
HungUp     == {c \in Client : link[c] \in {"hup", "hupw", "rst"}}
RootServes == HungUp = {} => \A c \in Client : st[c] # "accept"

(* A client that connects is let in, served and done in the end, whoever is *)
(* before it, as long as nobody leaves without exit (accept, waitpid).      *)
Served == \A c \in Client : link[c] = "backlog" ~> (link[c] = "gone" \/ HungUp # {})
===============================================================================
