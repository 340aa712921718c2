-------------------------- MODULE MultiProcHeardProofs --------------------------
(***************************************************************************)
(* The logins and logouts that the users of np_multi_proc hear of.  A      *)
(* broadcast writes to the mailboxes one after the other while their users *)
(* print and clear them, so what a user knows is what it printed and what  *)
(* its mailbox holds, and whom it must know of depends on how far the      *)
(* broadcast is.                                                           *)
(***************************************************************************)
EXTENDS MultiProcProofs

(* What the users hear.  This is for clients that take turns, leave with    *)
(* exit only and send no line the parser dies of: no shell dies, and the    *)
(* broadcasts of a login or logout find every mailbox empty.                *)
Orderly == Serial /\ ~Eof /\ \A l \in Inputs : l.op \notin Fatal

(* Nobody dies: a stage that was allowed to read a pipe still finds the     *)
(* writer when it takes the pipe.                                           *)
AliveInv == /\ \A s \in Session : pc[s] # "killed" /\ link[s] \notin {"hup", "hupw"}
            /\ \A s \in Session :
                 /\ pc[s] \in {"write", "take"} \/ after[s] \in {"write", "take"}
                 /\ Now(s).rd # -1
                 => WithId(Now(s).rd) # {}

Entering(s) == pc[s] = "fork" \/ after[s] = "fork"
Member(s)   == me[s] # 0 /\ ~Entering(s) /\ ~Leaving(s)

(* A turn begins with a connection or a line.  What it is about shows in    *)
(* the broadcasts.                                                          *)
Starting(s) == \/ link[s] = "backlog" \/ inbox[s] # None
               \/ pc[s] \in {"scan", "parse", "clean"}
Working(s)  == \/ pc[s] \in {"check", "stage", "write", "take", "flush"}
               \/ after[s] \in {"flush", "write", "take"}

(* A broadcast of s has come past the slot of t, or is over.                *)
Reached(s, t) == \/ pc[s] \in {"fork", "reset", "forget"}
                 \/ after[s] \in {"fork", "reset"} /\ me[t] < j[s]

(* What t knows once it has printed its mailbox.                            *)
View(t) == (heard[t] \cup News(t, "in")) \ News(t, "out")

IdleAndEmpty(t) == pc[t] = "idle" /\ broadcast_msg[me[t]] = << >>

(* A broadcast says what comes of it, and writes to slots in use; that of a *)
(* login or logout starts at the beginning of mailboxes of others.          *)
CastOf(s) ==
  /\ after[s] = "fork" => what[s] = "in"
  /\ after[s] = "reset" => what[s] = "out"
  /\ after[s] \in {"flush", "write", "take"} => what[s] \notin {"in", "out"}
  /\ pc[s] = "post" => id_num[j[s]] # 0
  /\ pc[s] = "post" /\ after[s] \in {"fork", "reset"} => pos[s] = 0 /\ j[s] # me[s]
CastInv == \A s \in Session : CastOf(s)

MailInv ==
  /\ \A i \in Slot : (\A s \in Session : me[s] # i) => broadcast_msg[i] = << >>
  /\ \A s \in Session : Starting(s) =>
       /\ \A i \in Slot : broadcast_msg[i] = << >>
       /\ \A t \in Session \ {s} : me[t] # 0 => pc[t] = "idle"
  /\ \A s \in Session : inbox[s] # None => pc[s] = "idle"
  /\ \A s \in Session : Entering(s) => broadcast_msg[me[s]] = << >>
  /\ \A s, t \in Session : after[s] \in {"fork", "reset"} /\ Member(t) /\ ~Reached(s, t)
                             => IdleAndEmpty(t)
  /\ \A s \in Session : Working(s) =>
       \A i \in Slot : \A n \in DOMAIN broadcast_msg[i] :
         broadcast_msg[i][n].what \notin {"in", "out"}
  /\ \A t \in Session : pc[t] = "clear" => View(t) = heard[t]

ViewInv ==
  \A t \in Session : Member(t) =>
    /\ \A u \in View(t) : \/ Member(u)
                          \/ Entering(u) /\ Reached(u, t)
                          \/ Leaving(u) /\ ~Reached(u, t)
    /\ \A u \in Session : Member(u) /\ u # t => (t \in View(u)) # (u \in View(t))
    /\ \A u \in Session : Entering(u) /\ Reached(u, t) => u \in View(t)

HeardInv == OwnerInv /\ AliveInv /\ CastInv /\ MailInv /\ ViewInv

(* While one is at work, the others are at rest or have mail to clear.      *)
LEMMA Passive ==
  ASSUME Serial, OwnerInv, NEW s \in Session, Active(s), NEW t \in Session, t # s
  PROVE  /\ ~Active(t) /\ ~Entering(t) /\ ~Leaving(t) /\ ~Starting(t) /\ ~Working(t)
         /\ after[t] = None /\ pc[t] \in {"none", "idle", "clear", "gone", "killed"}
<1>1. ~Active(t)
  BY DEF OwnerInv, TurnInv
<1>2. after[t] = None /\ pc[t] \in {"none", "idle", "clear", "gone", "killed"}
  BY <1>1 DEF Active, OwnerInv, TypeInv, ShapeInv, ShapeOf
<1> QED BY <1>1, <1>2, MultiNone DEF Active, Entering, Leaving, Starting, Working, Afters

LEMMA AtWork ==
  ASSUME TypeInv, NEW s \in Session, Starting(s) \/ Working(s) \/ Entering(s) \/ Leaving(s)
  PROVE  Active(s)
BY MultiNone DEF TypeInv, ShapeInv, ShapeOf, Active, Starting, Working, Entering, Leaving, Afters

LEMMA Reading ==
  ASSUME TypeInv, NEW s \in Session, Process(s),
         pc'[s] \in {"write", "take"} \/ after'[s] \in {"write", "take"}
  PROVE  /\ rest'[s] = rest[s] /\ id_num' = id_num
         /\ \/ pc[s] \in {"write", "take"} \/ after[s] \in {"write", "take"}
            \/ Now(s).rd = -1 \/ CanRead(s)
<1> USE DEF TypeInv, TypeOK, ShellsOK, shared, shell, loop, Goto, Broadcast
<1>0. ShapeOf(s)
  BY DEF ShapeInv
<1>1. CASE Parent(s)
  BY <1>0, <1>1, MultiNone DEF Parent, Accept, ScanNext, Claim, Fork, ShapeOf, Afters
<1>2. CASE Either(s)
  <2>1. UNCHANGED <<id_num, rest>> /\ pc[s] \in {"cast", "post"}
    BY <1>2 DEF Either, Pass, FindEnd, Post
  <2>2. \/ pc'[s] \in {"cast", "post"} /\ after' = after
        \/ pc'[s] = after[s] /\ after'[s] = None
    BY <1>2 DEF Either, Pass, FindEnd, Post, Advance
  <2> QED BY <2>1, <2>2, MultiNone DEF Afters
<1>3. CASE ReadNothing(s) \/ ReadPipe(s) \/ WriteNothing(s) \/ WritePipe(s)
  BY <1>0, <1>3 DEF ReadNothing, ReadPipe, WriteNothing, WritePipe
<1>4. CASE Shell(s) /\ ~(ReadNothing(s) \/ ReadPipe(s) \/ WriteNothing(s) \/ WritePipe(s))
  <2>1. pc'[s] \notin {"write", "take"} /\ after'[s] \notin {"write", "take"}
    <3> USE MultiNone DEF Afters
    <3>1. CASE PrintMail(s) \/ BrokenPipe(s) \/ ClearMail(s) \/ NoMail(s) \/ ReadLine(s)
      BY <1>0, <3>1 DEF PrintMail, BrokenPipe, ClearMail, NoMail, ReadLine, ShapeOf
    <3>2. CASE Exit(s) \/ CleanNext(s) \/ FreeSlot(s) \/ Reset(s) \/ Forget(s)
      BY <1>0, <3>2 DEF Exit, CleanNext, FreeSlot, Reset, Forget, Parsing, ShapeOf
    <3>3. CASE CheckName(s) \/ CheckNext(s) \/ ChangeName(s)
      BY <1>0, <3>3 DEF CheckName, CheckNext, ChangeName, Parsing, ShapeOf
    <3>4. CASE Yell(s) \/ Tell(s) \/ Local(s) \/ Crash(s)
      BY <1>0, <3>4 DEF Yell, Tell, Local, Crash, Parsing, ShapeOf
    <3>5. CASE Run(s) \/ ReadFails(s) \/ WriteFails(s) \/ Take(s) \/ EndRun(s)
      BY <1>0, <3>5 DEF Run, ReadFails, WriteFails, Take, EndRun, Parsing, Skip, ShapeOf
    <3> QED BY <1>4, <3>1, <3>2, <3>3, <3>4, <3>5 DEF Shell
  <2> QED BY <2>1
<1> QED BY <1>1, <1>2, <1>3, <1>4 DEF Process

(* Only who is at work gives out or takes back an id.                       *)
LEMMA IdsOfOthers ==
  ASSUME Serial, OwnerInv, NEW s \in Session, Process(s), NEW t \in Session, t # s, Active(t)
  PROVE  id_num' = id_num
<1>1. CASE Telling(s)
  <2>1. CASE Claim(s) \/ FreeSlot(s) \/ Reset(s) \/ Forget(s)
    <3>1. Active(s)
      BY <2>1 DEF Claim, FreeSlot, Reset, Forget, Active
    <3> QED BY <3>1, Passive
  <2> QED BY <1>1, <2>1 DEF Telling, ChangeName, WritePipe, Take, Exit, CleanNext
<1>2. CASE ~Telling(s)
  BY <1>2, SilentProcess DEF OwnerInv
<1> QED BY <1>1, <1>2

LEMMA AliveStep ==
  ASSUME Orderly, OwnerInv, AliveInv, [Next]_vars PROVE AliveInv'
<1> USE DEF OwnerInv, TypeInv, TypeOK, ShellsOK, ClientsOK, shared, shell, loop, client, Goto,
            Broadcast
<1> DEFINE Found(s) == pc[s] \in {"write", "take"} \/ after[s] \in {"write", "take"}
                         => Now(s).rd = -1 \/ WithId(Now(s).rd) # {}
<1>0. AliveInv <=> \A s \in Session : /\ pc[s] # "killed" /\ link[s] \notin {"hup", "hupw"}
                                      /\ Found(s)
  BY DEF AliveInv
<1>1. CASE UNCHANGED vars
  BY <1>1 DEF vars, AliveInv, WithId, Now
<1>2. ASSUME NEW s \in Session, Client(s) PROVE AliveInv'
  <2>1. UNCHANGED <<id_num, pc, after, rest>> /\ \A t \in Session : link'[t] \notin {"hup", "hupw"}
    BY <1>2 DEF Client, Connect, HangUp, Send, AliveInv, Orderly
  <2>2. \A t \in Session : Now(t)' = Now(t) /\ WithId(Now(t).rd)' = WithId(Now(t).rd)
    BY <2>1 DEF Now, WithId
  <2> QED BY <2>1, <2>2 DEF AliveInv
<1>3. ASSUME NEW s \in Session, Process(s) PROVE AliveInv'
  <2>1. Only(s) /\ ShapeOf(s)
    BY <1>3, StepIsOfOne DEF ShapeInv
  <2>2. ASSUME NEW t \in Session \ {s}, Found(t) PROVE Found(t)'
    <3> SUFFICES ASSUME pc[t] \in {"write", "take"} \/ after[t] \in {"write", "take"}
                 PROVE  Found(t)'
      BY <2>1 DEF Only
    <3>1. Active(t)
      BY AtWork DEF Working
    <3>2. Now(t)' = Now(t) /\ id_num' = id_num
      BY <1>3, <2>1, <3>1, IdsOfOthers DEF Orderly, Only, Now
    <3>3. WithId(Now(t).rd)' = WithId(Now(t).rd)
      BY <3>2 DEF WithId
    <3> QED BY <2>2, <3>2, <3>3
  <2>3. Found(s)'
    <3> SUFFICES ASSUME pc'[s] \in {"write", "take"} \/ after'[s] \in {"write", "take"}
                 PROVE  Now(s)'.rd = -1 \/ WithId(Now(s).rd)' # {}
      OBVIOUS
    <3>1. Now(s)' = Now(s) /\ id_num' = id_num
      BY <1>3, Reading DEF Now
    <3>2. Now(s).rd = -1 \/ WithId(Now(s).rd) # {}
      BY <1>0, <1>3, Reading DEF CanRead
    <3> QED BY <3>1, <3>2 DEF WithId
  <2>4. pc'[s] # "killed" /\ link'[s] \notin {"hup", "hupw"}
    <3>0. pc[s] # "killed" /\ link[s] \notin {"hup", "hupw"}
      BY DEF AliveInv
    <3>1. CASE Parent(s)
      BY <3>0, <3>1 DEF Parent, Accept, ScanNext, Claim, Fork
    <3>2. CASE Either(s)
      <4>1. link' = link /\ pc[s] \in {"cast", "post"} /\ after[s] \in Afters
        BY <2>1, <3>2 DEF Either, Pass, FindEnd, Post, ShapeOf
      <4>2. pc'[s] \in {"cast", "post"} \/ pc'[s] = after[s]
        BY <3>2 DEF Either, Pass, FindEnd, Post, Advance
      <4> QED BY <3>0, <4>1, <4>2 DEF Afters
    <3>3. CASE Crash(s)
      BY <2>1, <3>3 DEF Crash, Parsing, ShapeOf, Orderly
    <3>4. CASE Take(s)
      BY <3>0, <3>4 DEF Take, AliveInv
    <3>5. CASE PrintMail(s) \/ BrokenPipe(s) \/ ClearMail(s) \/ NoMail(s) \/ ReadLine(s)
      BY <3>0, <3>5 DEF PrintMail, BrokenPipe, ClearMail, NoMail, ReadLine
    <3>6. CASE Exit(s) \/ CleanNext(s) \/ FreeSlot(s) \/ Reset(s) \/ Forget(s)
      BY <3>0, <3>6 DEF Exit, CleanNext, FreeSlot, Reset, Forget
    <3>7. CASE CheckName(s) \/ CheckNext(s) \/ ChangeName(s) \/ Yell(s) \/ Tell(s) \/ Local(s)
      BY <3>0, <3>7 DEF CheckName, CheckNext, ChangeName, Yell, Tell, Local
    <3>8. CASE Run(s) \/ ReadNothing(s) \/ ReadPipe(s) \/ ReadFails(s)
      BY <3>0, <3>8 DEF Run, ReadNothing, ReadPipe, ReadFails
    <3>9. CASE WriteNothing(s) \/ WritePipe(s) \/ WriteFails(s) \/ EndRun(s)
      BY <3>0, <3>9 DEF WriteNothing, WritePipe, WriteFails, EndRun
    <3> QED BY <1>3, <3>1, <3>2, <3>3, <3>4, <3>5, <3>6, <3>7, <3>8, <3>9 DEF Process, Shell
  <2>5. \A t \in Session \ {s} : pc'[t] # "killed" /\ link'[t] \notin {"hup", "hupw"}
    BY <2>1 DEF Only, AliveInv
  <2>6. \A t \in Session : Found(t)'
    BY <1>0, <2>2, <2>3
  <2> QED BY <2>4, <2>5, <2>6 DEF AliveInv
<1> QED BY <1>1, <1>2, <1>3 DEF Next, Process
(* Where a broadcast of a login or logout is, the mailbox is empty.         *)
LEMMA EmptyAhead ==
  ASSUME Serial, OwnerInv, MailInv, NEW s \in Session, pc[s] \in {"cast", "post"},
         after[s] \in {"fork", "reset"}, j[s] # me[s], id_num[j[s]] # 0
  PROVE  \E t \in Session \ {s} : me[t] = j[s] /\ Member(t) /\ ~Reached(s, t) /\ IdleAndEmpty(t)
<1>1. j[s] \in Slot /\ Active(s)
  BY DEF OwnerInv, TypeInv, ShapeInv, ShapeOf, Active
<1>2. PICK t \in Session : me[t] = j[s] /\ ~Freed(t)
  BY <1>1, OwnSlot
<1>3. t # s /\ me[t] # 0
  BY <1>1, <1>2, MultiBounds DEF Slot
<1>4. Member(t)
  BY <1>1, <1>3, Passive DEF Member
<1>5. ~Reached(s, t)
  BY <1>1, <1>2, MultiBounds DEF Reached, Slot
<1> QED BY <1>2, <1>3, <1>4, <1>5 DEF MailInv

LEMMA CastStep ==
  ASSUME Orderly, OwnerInv, CastInv, MailInv, [Next]_vars PROVE CastInv'
<1> USE DEF OwnerInv, TypeInv, TypeOK, ShellsOK, ClientsOK, shared, shell, loop, client, Goto,
            Broadcast
<1>1. CASE UNCHANGED vars
  BY <1>1 DEF vars, CastInv, CastOf
<1>2. ASSUME NEW s \in Session, Client(s) PROVE CastInv'
  BY <1>2 DEF Client, Connect, HangUp, Send, CastInv, CastOf
<1>3. ASSUME NEW s \in Session, Process(s) PROVE CastInv'
  <2>1. Only(s) /\ ShapeOf(s) /\ CastOf(s)
    BY <1>3, StepIsOfOne DEF ShapeInv, CastInv
  <2>2. ASSUME NEW t \in Session \ {s} PROVE CastOf(t)'
    <3>1. pc[t] = "post" => id_num' = id_num
      BY <1>3, IdsOfOthers DEF Orderly, Active
    <3> QED BY <2>1, <3>1 DEF Only, CastInv, CastOf
  <2>3. CastOf(s)'
    <3> USE MultiNone DEF Afters
    <3>1. ASSUME pc'[s] = "cast",
                 \/ after'[s] = after[s] /\ what'[s] = what[s]
                 \/ <<after'[s], what'[s]>>
                      \in {<<"fork", "in">>, <<"reset", "out">>, <<"flush", "name">>,
                           <<"flush", "yell">>, <<"write", "received">>, <<"take", "piped">>}
          PROVE  CastOf(s)'
      BY <2>1, <3>1 DEF CastOf
    <3>2. ASSUME pc'[s] # "post", after'[s] = None PROVE CastOf(s)'
      BY <3>2 DEF CastOf
    <3>3. CASE Claim(s) \/ FreeSlot(s) \/ ChangeName(s) \/ Yell(s) \/ ReadPipe(s) \/ WritePipe(s)
      BY <3>1, <3>3 DEF Claim, FreeSlot, ChangeName, Yell, ReadPipe, WritePipe
    <3>4. CASE Tell(s)
      <4>1. CASE line[s].to \in Slot /\ id_num[line[s].to] # 0
        BY <3>4, <4>1 DEF Tell, CastOf
      <4>2. CASE ~(line[s].to \in Slot /\ id_num[line[s].to] # 0)
        BY <2>1, <3>2, <3>4, <4>2 DEF Tell, Parsing, ShapeOf
      <4> QED BY <4>1, <4>2
    <3>5. CASE Pass(s) \/ Post(s)
      <4>1. \/ pc'[s] = "cast" /\ after'[s] = after[s] /\ what'[s] = what[s]
            \/ pc'[s] = after[s] /\ after'[s] = None
        BY <3>5 DEF Pass, Post, Advance
      <4>2. after[s] # "post"
        BY <2>1, <3>5 DEF Pass, Post, ShapeOf
      <4> QED BY <3>1, <3>2, <4>1, <4>2
    <3>6. CASE FindEnd(s)
      <4>1. /\ pc[s] = "cast" /\ id_num[j[s]] # 0 /\ UNCHANGED <<id_num, j, what, after, me>>
            /\ j[s] = me[s] => what[s] \in {"yell", "name"}
            /\ pos'[s] = Len(broadcast_msg[j[s]])
        BY <3>6 DEF FindEnd, Passed
      <4>2. ASSUME after[s] \in {"fork", "reset"} PROVE pos'[s] = 0 /\ j[s] # me[s]
        <5>1. j[s] # me[s]
          BY <2>1, <4>1, <4>2 DEF CastOf
        <5>2. broadcast_msg[j[s]] = << >>
          BY <4>1, <4>2, <5>1, EmptyAhead DEF Orderly, IdleAndEmpty
        <5> QED BY <4>1, <5>1, <5>2
      <4> QED BY <2>1, <4>1, <4>2 DEF CastOf
    <3>7. CASE Accept(s) \/ ScanNext(s) \/ Fork(s)
      BY <2>1, <3>2, <3>7 DEF Accept, ScanNext, Fork, ShapeOf
    <3>8. CASE PrintMail(s) \/ BrokenPipe(s) \/ ClearMail(s) \/ NoMail(s) \/ ReadLine(s)
      BY <2>1, <3>2, <3>8 DEF PrintMail, BrokenPipe, ClearMail, NoMail, ReadLine, ShapeOf
    <3>9. CASE Exit(s) \/ CleanNext(s) \/ Reset(s) \/ Forget(s) \/ CheckName(s) \/ CheckNext(s)
      BY <2>1, <3>2, <3>9 DEF Exit, CleanNext, Reset, Forget, CheckName, CheckNext, Parsing, ShapeOf
    <3>10. CASE Local(s) \/ Crash(s) \/ Run(s) \/ ReadNothing(s) \/ ReadFails(s)
      BY <2>1, <3>2, <3>10 DEF Local, Crash, Run, ReadNothing, ReadFails, Parsing, ShapeOf
    <3>11. CASE WriteNothing(s) \/ WriteFails(s) \/ Take(s) \/ EndRun(s)
      BY <2>1, <3>2, <3>11 DEF WriteNothing, WriteFails, Take, EndRun, ShapeOf
    <3> QED BY <1>3, <3>3, <3>4, <3>5, <3>6, <3>7, <3>8, <3>9, <3>10, <3>11
            DEF Process, Parent, Shell, Either
  <2> QED BY <2>2, <2>3 DEF CastInv
<1> QED BY <1>1, <1>2, <1>3 DEF Next, Process
(* Steps that change no mailbox, slot or client's view.                     *)
LEMMA SameMail ==
  ASSUME NEW t, heard'[t] = heard[t], me'[t] = me[t],
         broadcast_msg'[me[t]] = broadcast_msg[me[t]]
  PROVE  View(t)' = View(t)
BY DEF View, News

LEMMA MailKept ==
  ASSUME Serial, OwnerInv, MailInv, NEW s \in Session, Active(s), Only(s),
         \A t \in Session \ {s} : inbox'[t] = inbox[t],
         UNCHANGED <<broadcast_msg, me, heard>>,
         Starting(s)' => Starting(s),
         Entering(s)' => Entering(s),
         \A t \in Session \ {s} :
           after'[s] \in {"fork", "reset"} /\ Member(t) /\ ~Reached(s, t)' => IdleAndEmpty(t),
         Working(s)' => Working(s) \/ Starting(s),
         pc'[s] # "clear",
         inbox'[s] # None => pc'[s] = "idle"
  PROVE  MailInv'
<1>1. ASSUME NEW t \in Session \ {s}
      PROVE  /\ (Starting(t)' <=> Starting(t)) /\ (Entering(t)' <=> Entering(t))
             /\ (Working(t)' <=> Working(t)) /\ (Member(t)' <=> Member(t))
             /\ (IdleAndEmpty(t)' <=> IdleAndEmpty(t))
             /\ pc'[t] = pc[t] /\ after'[t] = after[t]
  BY DEF Only, Starting, Entering, Working, Member, Leaving, IdleAndEmpty
<1>2. ASSUME NEW t \in Session \ {s}
      PROVE  /\ ~Starting(t) /\ ~Entering(t) /\ ~Working(t)
             /\ after[t] \notin {"fork", "reset"}
  BY Passive, MultiNone DEF Afters
<1>3. \A i \in Slot : (\A t \in Session : me'[t] # i) => broadcast_msg'[i] = << >>
  BY DEF MailInv
<1>4. \A u \in Session : Starting(u)' =>
        /\ \A i \in Slot : broadcast_msg'[i] = << >>
        /\ \A t \in Session \ {u} : me'[t] # 0 => pc'[t] = "idle"
  BY <1>1, <1>2 DEF MailInv
<1>5. \A t \in Session : inbox'[t] # None => pc'[t] = "idle"
  BY <1>1 DEF MailInv
<1>6. \A u \in Session : Entering(u)' => broadcast_msg'[me'[u]] = << >>
  BY <1>1 DEF MailInv
<1>7. ASSUME NEW u \in Session, NEW t \in Session,
             after'[u] \in {"fork", "reset"}, Member(t)', ~Reached(u, t)'
      PROVE  IdleAndEmpty(t)'
  <2>1. u = s
    BY <1>1, <1>2, <1>7
  <2>2. t # s
    BY <1>7, <2>1 DEF Member, Entering, Leaving
  <2> QED BY <1>1, <1>7, <2>1, <2>2
<1>8. ASSUME NEW u \in Session, Working(u)'
      PROVE  \A i \in Slot : \A n \in DOMAIN broadcast_msg'[i] :
               broadcast_msg'[i][n].what \notin {"in", "out"}
  <2>1. u = s
    BY <1>1, <1>2, <1>8
  <2>2. CASE Working(s)
    BY <2>2 DEF MailInv
  <2>3. CASE Starting(s)
    BY <2>3 DEF MailInv
  <2> QED BY <1>8, <2>1, <2>2, <2>3
<1>9. \A t \in Session : pc'[t] = "clear" => View(t)' = heard'[t]
  BY <1>1, SameMail DEF MailInv
<1> QED BY <1>3, <1>4, <1>5, <1>6, <1>7, <1>8, <1>9 DEF MailInv

LEMMA ViewOfSessions ==
  ASSUME OwnerInv PROVE \A t \in Session : me[t] # 0 => View(t) \subseteq Session
<1>1. \A t \in Session : heard[t] \subseteq Session
  BY DEF OwnerInv, TypeInv, TypeOK, ClientsOK
<1>2. \A t \in Session : me[t] # 0 => broadcast_msg[me[t]] \in Seq(Mail)
  BY OwnSlot DEF OwnerInv, TypeInv, TypeOK, SharedOK
<1>3. \A b \in Seq(Mail) : \A k \in DOMAIN b : b[k].from \in Session
  <2>1. \A b \in Seq(Mail) : \A k \in DOMAIN b : b[k] \in Mail
    OBVIOUS
  <2> QED BY <2>1 DEF Mail
<1>4. \A t \in Session : me[t] # 0 => News(t, "in") \subseteq Session
  BY <1>2, <1>3 DEF News
<1> QED BY <1>1, <1>4 DEF View

LEMMA ViewKept ==
  ASSUME Serial, OwnerInv, ViewInv, NEW s \in Session, Active(s), Only(s),
         \A t \in Session : Member(t) => View(t)' = View(t),
         Member(s)' <=> Member(s), Entering(s)' <=> Entering(s), Leaving(s)' <=> Leaving(s),
         \A t \in Session \ {s} : Member(t) /\ ~Member(s) => (Reached(s, t)' <=> Reached(s, t))
  PROVE  ViewInv'
<1>1. \A t \in Session : /\ Member(t)' <=> Member(t)
                         /\ Entering(t)' <=> Entering(t)
                         /\ Leaving(t)' <=> Leaving(t)
  BY DEF Only, Entering, Member, Leaving
<1>2. \A u, t \in Session : Member(t) /\ (Entering(u) \/ Leaving(u))
        => (Reached(u, t)' <=> Reached(u, t))
  <2>1. \A u \in Session : Entering(u) \/ Leaving(u) => u = s /\ ~Member(s)
    BY Passive DEF Member
  <2>2. \A t \in Session : Member(t) /\ ~Member(s) => t # s
    OBVIOUS
  <2> QED BY <2>1, <2>2
<1>3. \A t \in Session : Member(t) => View(t) \subseteq Session
  BY ViewOfSessions DEF Member
<1> QED BY <1>1, <1>2, <1>3 DEF ViewInv
(* Between the broadcasts of a line that says nothing of logins.            *)
LEMMA HeardWork ==
  ASSUME Orderly, HeardInv, AliveInv', NEW s \in Session,
         \/ NoMail(s) \/ CheckName(s) \/ CheckNext(s) \/ ChangeName(s)
         \/ Yell(s) \/ Tell(s) \/ Local(s) \/ Crash(s)
         \/ Run(s) \/ ReadNothing(s) \/ ReadPipe(s) \/ ReadFails(s)
         \/ WriteNothing(s) \/ WritePipe(s) \/ WriteFails(s) \/ Take(s) \/ EndRun(s)
  PROVE  MailInv' /\ ViewInv'
<1> USE DEF HeardInv, OwnerInv, TypeInv, TypeOK
<1>0. ShapeOf(s) /\ Process(s) /\ pc'[s] # "killed"
  BY DEF ShapeInv, Process, Shell, AliveInv
<1>1. /\ UNCHANGED <<broadcast_msg, me, heard, inbox>> /\ after[s] = None
      /\ pc[s] \in {"parse", "check", "stage", "write", "take", "flush"}
      /\ pc'[s] \in {"idle", "check", "cast", "post", "stage", "write", "take", "flush"}
      /\ after'[s] \in {None, "flush", "write", "take"}
      /\ link'[s] = "backlog" => link[s] = "backlog"
  <2> USE DEF ShellsOK, ClientsOK, shared, shell, loop, client, Goto, Broadcast
  <2>1. CASE NoMail(s) \/ CheckName(s) \/ CheckNext(s) \/ ChangeName(s)
    BY <1>0, <2>1 DEF NoMail, CheckName, CheckNext, ChangeName, Parsing, ShapeOf
  <2>2. CASE Yell(s) \/ Tell(s) \/ Local(s) \/ Crash(s)
    BY <1>0, <2>2 DEF Yell, Tell, Local, Crash, Parsing, ShapeOf
  <2>3. CASE Run(s) \/ ReadNothing(s) \/ ReadPipe(s) \/ ReadFails(s)
    BY <1>0, <2>3 DEF Run, ReadNothing, ReadPipe, ReadFails, Parsing, ShapeOf
  <2>4. CASE WriteNothing(s) \/ WritePipe(s) \/ WriteFails(s) \/ EndRun(s)
    BY <1>0, <2>4 DEF WriteNothing, WritePipe, WriteFails, EndRun, ShapeOf
  <2>5. CASE Take(s)
    BY <1>0, <2>5 DEF Take, ShapeOf
  <2> QED BY <2>1, <2>2, <2>3, <2>4, <2>5
<1>2. Only(s) /\ Serial
  BY <1>0, StepIsOfOne DEF Orderly
<1>3. /\ Active(s) /\ inbox[s] = None
      /\ Working(s) \/ Starting(s)
      /\ Starting(s)' => Starting(s)
      /\ ~Entering(s) /\ ~Entering(s)' /\ ~Leaving(s) /\ ~Leaving(s)'
      /\ after'[s] \notin {"fork", "reset"}
  BY <1>1, MultiNone DEF Active, Working, Starting, Entering, Leaving, MailInv, Afters
<1>4. MailInv'
  <2>1. inbox' = inbox
    BY <1>1
  <2> QED BY <1>1, <1>2, <1>3, <2>1, MailKept
<1>5. ViewInv'
  <2>1. Member(s) /\ Member(s)'
    BY <1>0, <1>1, <1>3 DEF Member, ShapeOf
  <2>2. \A t \in Session : Member(t) => View(t)' = View(t)
    BY <1>1, SameMail
  <2> QED BY <1>2, <1>3, <2>1, <2>2, ViewKept
<1> QED BY <1>4, <1>5

(* On the way to a broadcast of a login or logout.                          *)
LEMMA HeardStart ==
  ASSUME Orderly, HeardInv, NEW s \in Session,
         Accept(s) \/ ScanNext(s) \/ ReadLine(s) \/ CleanNext(s)
  PROVE  MailInv' /\ ViewInv'
<1> USE DEF HeardInv, OwnerInv, TypeInv, TypeOK
<1>0. ShapeOf(s) /\ Process(s)
  BY DEF ShapeInv, Process, Shell, Parent
<1>1. /\ UNCHANGED <<broadcast_msg, me, heard, after>> /\ after[s] = None
      /\ \/ pc[s] = "none" /\ link[s] = "backlog" /\ pc'[s] = "scan"
         \/ pc[s] = "scan" /\ pc'[s] = "scan"
         \/ pc[s] = "idle" /\ inbox[s] # None /\ pc'[s] = "parse"
         \/ pc[s] = "clean" /\ pc'[s] = "clean"
      /\ \A t \in Session \ {s} : inbox'[t] = inbox[t]
      /\ inbox'[s] # None => inbox[s] # None /\ pc[s] # "idle"
  <2> USE DEF ShellsOK, ClientsOK, shared, shell, loop, client, Goto
  <2>1. CASE Accept(s)
    BY <1>0, <2>1, MultiNone DEF Accept, ShapeOf, Afters
  <2>2. CASE ScanNext(s) \/ CleanNext(s)
    BY <1>0, <2>2 DEF ScanNext, CleanNext, ShapeOf
  <2>3. CASE ReadLine(s)
    BY <1>0, <2>3 DEF ReadLine, ShapeOf
  <2> QED BY <2>1, <2>2, <2>3
<1>2. Only(s) /\ Serial
  BY <1>0, StepIsOfOne DEF Orderly
<1>3. /\ Active(s) /\ Starting(s) /\ ~Entering(s) /\ ~Entering(s)' /\ (Leaving(s)' <=> Leaving(s))
      /\ after'[s] \notin {"fork", "reset"} /\ ~Working(s)' /\ inbox'[s] = None
  BY <1>1, MultiNone DEF Active, Working, Starting, Entering, Leaving, MailInv, Afters
<1>4. MailInv'
  <2>1. pc'[s] # "clear"
    BY <1>1
  <2> QED BY <1>1, <1>2, <1>3, <2>1, MailKept
<1>5. ViewInv'
  <2>1. Member(s)' <=> Member(s)
    BY <1>1, <1>3 DEF Member
  <2>2. \A t \in Session : Member(t) => View(t)' = View(t)
    BY <1>1, SameMail
  <2>3. \A t \in Session : ~Reached(s, t) /\ ~Reached(s, t)'
    BY <1>1, <1>3, MultiNone DEF Reached, Afters
  <2> QED BY <1>2, <1>3, <2>1, <2>2, <2>3, ViewKept
<1> QED BY <1>4, <1>5
(* exit, up to its broadcast and after it.                                  *)
LEMMA HeardExit ==
  ASSUME Orderly, HeardInv, NEW s \in Session, Exit(s)
  PROVE  MailInv' /\ ViewInv'
<1> USE DEF HeardInv, OwnerInv, TypeInv, TypeOK
<1>1. /\ UNCHANGED <<broadcast_msg, me, heard, after, inbox>> /\ after[s] = None
      /\ pc[s] = "parse" /\ pc'[s] = "clean" /\ me[s] # 0
  BY MultiNone DEF Exit, Parsing, ShellsOK, Goto, client, ShapeInv, ShapeOf, Afters
<1>2. Only(s) /\ Serial
  BY StepIsOfOne DEF Orderly, Process, Shell
<1>3. /\ Active(s) /\ Starting(s) /\ ~Entering(s) /\ ~Entering(s)' /\ ~Leaving(s) /\ Leaving(s)'
      /\ after'[s] \notin {"fork", "reset"} /\ ~Working(s)' /\ inbox'[s] = None /\ Member(s)
  BY <1>1, MultiNone DEF Active, Working, Starting, Entering, Leaving, Member, MailInv, Afters
<1>4. MailInv'
  <2>1. pc'[s] # "clear" /\ inbox' = inbox
    BY <1>1
  <2> QED BY <1>1, <1>2, <1>3, <2>1, MailKept
<1>5. ViewInv'
  <2>1. \A t \in Session : View(t)' = View(t)
    BY <1>1, SameMail
  <2>2. \A t \in Session : ~Reached(s, t)'
    BY <1>1, MultiNone DEF Reached, Afters
  <2>3. ~Member(s)'
    BY <1>3 DEF Member
  <2>4. \A t \in Session \ {s} : /\ Member(t)' <=> Member(t)
                                 /\ ~Entering(t) /\ ~Leaving(t) /\ ~Entering(t)' /\ ~Leaving(t)'
    BY <1>2, <1>3, Passive DEF Only, Member, Entering, Leaving
  <2>5. \A t \in Session : Member(t) => View(t) \subseteq {u \in Session : Member(u)}
    BY <1>3, <2>4, ViewOfSessions DEF ViewInv, Member
  <2>6. \A t \in Session : Member(t)' => Member(t) /\ t # s
    BY <2>3, <2>4
  <2>7. \A t \in Session : Member(t)' => \A u \in View(t) : Member(u)' \/ u = s
    BY <2>4, <2>5, <2>6
  <2>8. \A t \in Session : ~Entering(t)'
    BY <1>3, <2>4
  <2> QED BY <1>3, <2>1, <2>2, <2>6, <2>7, <2>8 DEF ViewInv
<1> QED BY <1>4, <1>5

LEMMA HeardFree ==
  ASSUME Orderly, HeardInv, NEW s \in Session, FreeSlot(s) \/ Reset(s)
  PROVE  MailInv' /\ ViewInv'
<1> USE DEF HeardInv, OwnerInv, TypeInv, TypeOK
<1>1. /\ UNCHANGED <<broadcast_msg, me, heard, inbox, link>> /\ me[s] # 0
      /\ \/ /\ pc[s] = "clean" /\ after[s] = None
            /\ pc'[s] = "cast" /\ after'[s] = "reset" /\ j'[s] = 1
         \/ /\ pc[s] = "reset" /\ after[s] = None
            /\ pc'[s] = "forget" /\ after'[s] = None
  <2> USE MultiNone DEF ShellsOK, Goto, Broadcast, shell, loop, client, ShapeInv, ShapeOf, Afters
  <2>1. CASE FreeSlot(s)
    BY <2>1 DEF FreeSlot
  <2>2. CASE Reset(s)
    BY <2>2 DEF Reset
  <2> QED BY <2>1, <2>2
<1>2. Only(s) /\ Serial
  BY StepIsOfOne DEF Orderly, Process, Shell
<1>3. /\ Active(s) /\ ~Entering(s) /\ ~Entering(s)' /\ Leaving(s) /\ Leaving(s)'
      /\ ~Starting(s)' /\ ~Working(s)' /\ inbox'[s] = None
  <2>1. inbox[s] = None
    BY <1>1 DEF MailInv
  <2>2. link[s] # "backlog"
    BY <1>1 DEF ShapeInv, ShapeOf
  <2> QED BY <1>1, <2>1, <2>2, MultiNone DEF Active, Working, Starting, Entering, Leaving, Afters
<1>4. \A t \in Session \ {s} : Member(t) => me[t] >= 1 /\ me[t] \in Slot
  BY OwnSlot, MultiBounds DEF Member, Slot
<1>5. MailInv'
  <2>1. pc'[s] # "clear" /\ inbox' = inbox
    BY <1>1
  <2>2. ASSUME NEW t \in Session \ {s}, after'[s] \in {"fork", "reset"}, Member(t)
        PROVE  IdleAndEmpty(t)
    <3>1. Starting(s)
      BY <1>1, <2>2, MultiNone DEF Starting, Afters
    <3> QED BY <1>4, <2>2, <3>1 DEF MailInv, IdleAndEmpty, Member
  <2> QED BY <1>1, <1>2, <1>3, <2>1, <2>2, MailKept
<1>6. ViewInv'
  <2>1. \A t \in Session : Member(t) => View(t)' = View(t)
    BY <1>1, SameMail
  <2>2. ~Member(s) /\ ~Member(s)'
    BY <1>3 DEF Member
  <2>3. \A t \in Session \ {s} : Member(t) => (Reached(s, t)' <=> Reached(s, t))
    BY <1>1, <1>4, MultiNone DEF Reached, Afters, Slot
  <2> QED BY <1>2, <1>3, <2>1, <2>2, <2>3, ViewKept
<1> QED BY <1>5, <1>6

LEMMA HeardForget ==
  ASSUME Orderly, HeardInv, NEW s \in Session, Forget(s)
  PROVE  MailInv' /\ ViewInv'
<1> USE DEF HeardInv, OwnerInv, TypeInv, TypeOK
<1>1. /\ broadcast_msg' = [broadcast_msg EXCEPT ![me[s]] = << >>]
      /\ me' = [me EXCEPT ![s] = 0] /\ heard' = [heard EXCEPT ![s] = {}]
      /\ pc[s] = "forget" /\ after[s] = None /\ after' = after /\ inbox' = inbox
      /\ pc'[s] = "gone" /\ link'[s] = "closed"
  BY MultiNone DEF Forget, ShellsOK, ClientsOK, Goto, loop, ShapeInv, ShapeOf, Afters
<1>2. Only(s) /\ Serial
  BY StepIsOfOne DEF Orderly, Process, Shell
<1>3. /\ Active(s) /\ ~Entering(s)' /\ Leaving(s) /\ ~Leaving(s)' /\ ~Member(s) /\ ~Member(s)'
      /\ ~Starting(s)' /\ ~Working(s)' /\ inbox[s] = None /\ me'[s] = 0
  BY <1>1, MultiNone
     DEF Active, Working, Starting, Entering, Leaving, Member, Afters, MailInv, ShellsOK
<1>4. me[s] \in Slot /\ broadcast_msg \in [Slot -> Seq(Mail)]
  BY <1>1, OwnSlot DEF SharedOK, ShapeInv, ShapeOf
<1>5. ASSUME NEW t \in Session \ {s}
      PROVE  /\ ~Starting(t)' /\ ~Entering(t)' /\ ~Leaving(t)' /\ ~Working(t)'
             /\ ~Entering(t) /\ ~Leaving(t)
             /\ Member(t)' <=> Member(t)
             /\ pc'[t] = pc[t] /\ after'[t] \notin {"fork", "reset"} /\ me'[t] = me[t]
             /\ me[t] # 0 => me[t] # me[s]
  <2>1. inbox'[t] = inbox[t] /\ UNCHANGED <<pc[t], after[t], link[t], me[t]>>
    BY <1>1, <1>2 DEF Only
  <2>2. /\ ~Starting(t) /\ ~Entering(t) /\ ~Leaving(t) /\ ~Working(t)
        /\ after[t] \notin {"fork", "reset"}
    BY <1>2, <1>3, Passive, MultiNone DEF Afters
  <2> QED BY <2>1, <2>2 DEF Starting, Entering, Leaving, Working, Member, SlotInv
<1>6. \A t \in Session : me[t] # 0 => me[t] \in Slot
  BY OwnSlot
<1>7. \A t \in Session \ {s} : me[t] # 0 => View(t)' = View(t) /\ heard'[t] = heard[t]
  BY <1>1, <1>4, <1>5, <1>6, SameMail DEF ClientsOK
<1>8. MailInv'
  <2>1. \A i \in Slot : (\A t \in Session : me'[t] # i) => broadcast_msg'[i] = << >>
    BY <1>1, <1>4, <1>5 DEF MailInv
  <2>2. \A t \in Session : /\ ~Starting(t)' /\ ~Entering(t)' /\ ~Working(t)'
                           /\ after'[t] \notin {"fork", "reset"}
    BY <1>1, <1>3, <1>5, MultiNone DEF Afters
  <2>3. \A t \in Session : inbox'[t] # None => pc'[t] = "idle"
    BY <1>1, <1>3, <1>5 DEF MailInv
  <2>4. \A t \in Session : pc'[t] = "clear" => View(t)' = heard'[t]
    <3>1. \A t \in Session : pc[t] = "clear" => me[t] # 0
      BY DEF ShapeInv, ShapeOf
    <3> QED BY <1>1, <1>5, <1>7, <3>1 DEF MailInv
  <2> QED BY <2>1, <2>2, <2>3, <2>4 DEF MailInv
<1>9. ViewInv'
  <2>1. \A t \in Session : Member(t) => View(t) \subseteq {u \in Session : Member(u)}
    <3>1. \A t \in Session : Reached(s, t)
      BY <1>1 DEF Reached
    <3>2. \A u \in Session : ~Entering(u) /\ (Leaving(u) => u = s)
      BY <1>3, <1>5, MultiNone, <1>1 DEF Entering, Afters
    <3> QED BY <3>1, <3>2, ViewOfSessions DEF ViewInv, Member
  <2>2. \A t \in Session : ~Entering(t)' /\ (Member(t)' <=> Member(t))
    BY <1>3, <1>5
  <2>3. \A t \in Session : Member(t) => View(t)' = View(t)
    BY <1>3, <1>7 DEF Member
  <2> QED BY <2>1, <2>2, <2>3 DEF ViewInv
<1> QED BY <1>8, <1>9
(* The parent takes the slot it found, and announces the new user.          *)
LEMMA HeardClaim ==
  ASSUME Orderly, EnoughSlots, HeardInv, NEW s \in Session, Claim(s)
  PROVE  MailInv' /\ ViewInv'
<1> USE DEF HeardInv, OwnerInv, TypeInv, TypeOK
<1>1. Only(s) /\ Serial
  BY StepIsOfOne DEF Orderly, Process, Parent
<1>2. j[s] \in Slot /\ \A t \in Session : me[t] # j[s]
  BY <1>1, SlotClaim
<1>3. /\ UNCHANGED <<broadcast_msg, heard, inbox, link>> /\ me' = [me EXCEPT ![s] = j[s]]
      /\ pc[s] = "scan" /\ me[s] = 0 /\ pc'[s] = "cast" /\ after'[s] = "fork" /\ j'[s] = 1
      /\ link[s] # "backlog"
  BY <1>2 DEF Claim, Broadcast, Goto, ShellsOK, client, ShapeInv, ShapeOf
<1>4. /\ Active(s) /\ Starting(s) /\ ~Leaving(s) /\ Entering(s)' /\ ~Leaving(s)'
      /\ ~Member(s) /\ ~Member(s)' /\ inbox[s] = None /\ ~Starting(s)' /\ ~Working(s)'
      /\ me'[s] = j[s]
  BY <1>3, MultiNone
     DEF Active, Starting, Working, Leaving, Entering, Member, MailInv, Afters,
         ShapeInv, ShapeOf, ShellsOK
<1>5. ASSUME NEW t \in Session \ {s}
      PROVE  /\ ~Starting(t)' /\ ~Entering(t)' /\ ~Leaving(t)' /\ ~Working(t)'
             /\ ~Entering(t) /\ ~Leaving(t)
             /\ Member(t)' <=> Member(t)
             /\ pc'[t] = pc[t] /\ after'[t] \notin {"fork", "reset"} /\ me'[t] = me[t]
  <2>1. inbox'[t] = inbox[t] /\ UNCHANGED <<pc[t], after[t], link[t], me[t]>>
    BY <1>1, <1>3 DEF Only
  <2>2. /\ ~Starting(t) /\ ~Entering(t) /\ ~Leaving(t) /\ ~Working(t)
        /\ after[t] \notin {"fork", "reset"}
    BY <1>1, <1>4, Passive, MultiNone DEF Afters
  <2> QED BY <2>1, <2>2 DEF Starting, Entering, Leaving, Working, Member
<1>6. \A i \in Slot : broadcast_msg'[i] = << >>
  BY <1>3, <1>4 DEF MailInv
<1>7. \A t \in Session \ {s} : Member(t) => View(t)' = View(t) /\ IdleAndEmpty(t)'
  <2>1. \A t \in Session : Member(t) => me[t] \in Slot /\ me[t] # 0
    BY OwnSlot DEF Member
  <2> QED BY <1>3, <1>4, <1>5, <1>6, <2>1, SameMail DEF MailInv, IdleAndEmpty
<1>8. MailInv'
  <2>1. \A u \in Session : ~Starting(u)' /\ ~Working(u)'
    BY <1>4, <1>5
  <2>2. \A u \in Session : Entering(u)' => broadcast_msg'[me'[u]] = << >>
    BY <1>2, <1>4, <1>5, <1>6
  <2>3. \A t \in Session : Member(t)' => IdleAndEmpty(t)'
    BY <1>4, <1>5, <1>7
  <2>4. \A t \in Session : inbox'[t] # None => pc'[t] = "idle"
    BY <1>3, <1>4, <1>5 DEF MailInv
  <2>5. \A t \in Session : pc'[t] # "clear"
    BY <1>3, <1>4, <1>5 DEF MailInv, ShapeInv, ShapeOf
  <2> QED BY <1>6, <2>1, <2>2, <2>3, <2>4, <2>5 DEF MailInv
<1>9. ViewInv'
  <2>1. \A t \in Session : Member(t) => View(t) \subseteq {u \in Session : Member(u)} /\ t # s
    <3>1. ~Entering(s)
      BY <1>3, MultiNone DEF Entering, ShapeInv, ShapeOf, Afters
    <3>2. \A u \in Session : ~Entering(u) /\ ~Leaving(u)
      BY <1>4, <1>5, <3>1
    <3> QED BY <1>4, <3>2, ViewOfSessions DEF ViewInv, Member
  <2>2. \A t \in Session : Member(t)' <=> Member(t)
    BY <1>4, <1>5
  <2>3. \A t \in Session : Member(t) => View(t)' = View(t)
    BY <1>4, <1>7
  <2>4. \A u, t \in Session : Member(t) /\ Entering(u)' => ~Reached(u, t)'
    <3>1. \A t \in Session : Member(t) => ~(me[t] < 1)
      BY OwnSlot, MultiBounds DEF Member, Slot
    <3> QED BY <1>3, <1>4, <1>5, <3>1 DEF Reached
  <2> QED BY <2>1, <2>2, <2>3, <2>4 DEF ViewInv
<1> QED BY <1>8, <1>9

(* The shell of a new user starts: everybody was told of it, and it of      *)
(* nobody.                                                                  *)
LEMMA HeardFork ==
  ASSUME Orderly, HeardInv, NEW s \in Session, Fork(s)
  PROVE  MailInv' /\ ViewInv'
<1> USE DEF HeardInv, OwnerInv, TypeInv, TypeOK
<1>1. Only(s) /\ Serial
  BY StepIsOfOne DEF Orderly, Process, Parent
<1>2. /\ UNCHANGED <<broadcast_msg, me, after, inbox, link>>
      /\ heard' = [heard EXCEPT ![s] = {s}]
      /\ pc[s] = "fork" /\ pc'[s] = "idle" /\ after[s] = None /\ me[s] # 0 /\ link[s] # "backlog"
  BY DEF Fork, Goto, ShellsOK, shared, shell, loop, ShapeInv, ShapeOf
<1>3. /\ Active(s) /\ Entering(s) /\ ~Entering(s)' /\ ~Leaving(s) /\ ~Leaving(s)' /\ ~Member(s)
      /\ Member(s)' /\ inbox[s] = None /\ ~Starting(s)' /\ ~Working(s)'
      /\ after[s] \notin {"fork", "reset"}
  BY <1>2, MultiNone
     DEF Active, Starting, Working, Leaving, Entering, Member, MailInv, Afters
<1>4. ASSUME NEW t \in Session \ {s}
      PROVE  /\ ~Starting(t)' /\ ~Entering(t)' /\ ~Working(t)'
             /\ ~Entering(t) /\ ~Leaving(t)
             /\ Member(t)' <=> Member(t)
             /\ pc'[t] = pc[t] /\ after'[t] \notin {"fork", "reset"}
             /\ View(t)' = View(t) /\ heard'[t] = heard[t]
  <2>1. inbox'[t] = inbox[t] /\ UNCHANGED <<pc[t], after[t], link[t], me[t]>>
    BY <1>1, <1>2 DEF Only
  <2>2. /\ ~Starting(t) /\ ~Entering(t) /\ ~Leaving(t) /\ ~Working(t)
        /\ after[t] \notin {"fork", "reset"}
    BY <1>1, <1>3, Passive, MultiNone DEF Afters
  <2>3. heard'[t] = heard[t] /\ View(t)' = View(t)
    BY <1>2, SameMail DEF ClientsOK
  <2> QED BY <2>1, <2>2, <2>3 DEF Starting, Entering, Leaving, Working, Member
<1>5. View(s)' = {s}
  <2>1. broadcast_msg'[me'[s]] = << >> /\ heard'[s] = {s}
    BY <1>2, <1>3 DEF MailInv, ClientsOK
  <2> QED BY <2>1 DEF View, News
<1>6. MailInv'
  <2>1. \A u \in Session : /\ ~Starting(u)' /\ ~Working(u)' /\ ~Entering(u)'
                           /\ after'[u] \notin {"fork", "reset"}
    BY <1>2, <1>3, <1>4
  <2>2. \A t \in Session : inbox'[t] # None => pc'[t] = "idle"
    BY <1>2, <1>4 DEF MailInv
  <2>3. \A t \in Session : pc'[t] = "clear" => View(t)' = heard'[t]
    BY <1>2, <1>4 DEF MailInv
  <2>4. \A i \in Slot : (\A t \in Session : me'[t] # i) => broadcast_msg'[i] = << >>
    BY <1>2 DEF MailInv
  <2> QED BY <2>1, <2>2, <2>3, <2>4 DEF MailInv
<1>7. ViewInv'
  <2>1. \A t \in Session : Member(t) => /\ t # s /\ s \in View(t)
                                        /\ \A u \in View(t) : Member(u) \/ u = s
    <3>1. \A t \in Session : Reached(s, t)
      BY <1>2 DEF Reached
    <3>2. \A u \in Session : (Entering(u) => u = s) /\ ~Leaving(u)
      BY <1>3, <1>4
    <3> QED BY <1>3, <3>1, <3>2, ViewOfSessions DEF ViewInv, Member
  <2>2. \A t \in Session : Member(t)' <=> Member(t) \/ t = s
    BY <1>3, <1>4
  <2>3. ASSUME NEW t \in Session, NEW u \in Session, Member(t)', Member(u)', u # t
        PROVE  (t \in View(u)') # (u \in View(t)')
    BY <1>4, <1>5, <2>1, <2>2, <2>3 DEF ViewInv
  <2>4. \A t \in Session : ~Entering(t)'
    BY <1>3, <1>4
  <2>5. \A t \in Session : Member(t)' => \A u \in View(t)' : Member(u)'
    <3>1. \A t \in Session : me[t] # 0 => View(t) \subseteq Session
      BY ViewOfSessions
    <3> QED BY <1>3, <1>4, <1>5, <2>1, <2>2, <3>1 DEF Member
  <2> QED BY <2>3, <2>4, <2>5 DEF ViewInv
<1> QED BY <1>6, <1>7

-------------------------------------------------------------------------------
(* A broadcast of a login or logout goes on to the next slot.               *)
LEMMA NextSlot ==
  ASSUME HeardInv, NEW s \in Session, pc[s] \in {"cast", "post"}, after[s] \in {"fork", "reset"},
         Advance(s), me' = me, Only(s)
  PROVE  /\ Entering(s)' <=> Entering(s)
         /\ Leaving(s)' <=> Leaving(s)
         /\ ~Member(s) /\ ~Member(s)' /\ ~Working(s)'
         /\ after'[s] \in {"fork", "reset", None}
         /\ pc'[s] \in {"cast", "fork", "reset"}
         /\ \A t \in Session : Member(t) => (Reached(s, t)' <=> Reached(s, t) \/ me[t] = j[s])
<1> USE DEF HeardInv, OwnerInv, TypeInv
<1>1. what[s] # "told" /\ j[s] \in Slot /\ me[s] # 0
  BY DEF CastInv, CastOf, ShapeInv, ShapeOf
<1>2. \A t \in Session : Member(t) => me[t] \in Slot
  BY OwnSlot DEF Member
<1>3. \/ /\ j[s] < MaxUsers
         /\ pc'[s] = "cast" /\ j'[s] = j[s] + 1 /\ after'[s] = after[s]
      \/ /\ ~(j[s] < MaxUsers)
         /\ pc'[s] = after[s] /\ after'[s] = None
  BY <1>1 DEF Advance, Goto, TypeOK, ShellsOK
<1>4. /\ Entering(s)' <=> Entering(s)
      /\ Leaving(s)' <=> Leaving(s)
      /\ ~Member(s) /\ ~Member(s)' /\ ~Working(s)'
      /\ after'[s] \in {"fork", "reset", None}
      /\ pc'[s] \in {"cast", "fork", "reset"}
  BY <1>3, MultiNone DEF Entering, Leaving, Member, Working, Afters
<1>5. \A t \in Session : Member(t) => (Reached(s, t)' <=> Reached(s, t) \/ me[t] = j[s])
  <2>1. CASE j[s] < MaxUsers
    BY <1>1, <1>2, <1>3, <2>1, MultiBounds DEF Reached, Slot
  <2>2. CASE ~(j[s] < MaxUsers)
    BY <1>1, <1>2, <1>3, <2>2, MultiBounds DEF Reached, Slot
  <2> QED BY <2>1, <2>2
<1> QED BY <1>4, <1>5

(* A broadcast looks at a slot.                                             *)
LEMMA HeardPass ==
  ASSUME Orderly, HeardInv, NEW s \in Session, Pass(s) \/ FindEnd(s)
  PROVE  MailInv' /\ ViewInv'
<1> USE DEF HeardInv, OwnerInv, TypeInv, TypeOK
<1>1. /\ UNCHANGED <<broadcast_msg, me, heard, inbox, link>>
      /\ pc[s] = "cast" /\ after[s] \in Afters /\ inbox[s] = None /\ me[s] # 0
      /\ j[s] \in Slot /\ what[s] \in Kinds
  <2>1. UNCHANGED <<broadcast_msg, me, heard, inbox, link>> /\ pc[s] = "cast"
    BY DEF Pass, FindEnd, client, shared
  <2>2. ShapeOf(s) /\ after[s] \in Afters \cup {None}
    BY DEF ShapeInv, ShellsOK
  <2>3. inbox[s] = None
    BY <2>1 DEF MailInv
  <2> QED BY <2>1, <2>2, <2>3 DEF ShapeOf
<1>2. Only(s) /\ Serial
  BY StepIsOfOne DEF Orderly, Process, Either
<1>3. Active(s) /\ (Starting(s)' => Starting(s)) /\ pc'[s] # "clear"
  <2>1. pc'[s] \in {"cast", "post"} \cup Afters
    BY <1>1 DEF Pass, FindEnd, Advance, Goto, ShellsOK
  <2> QED BY <1>1, <2>1 DEF Active, Starting, Afters
<1>4. CASE after[s] \in {"fork", "reset"}
  <2>1. /\ Entering(s)' <=> Entering(s)
        /\ Leaving(s)' <=> Leaving(s)
        /\ ~Working(s)' /\ (Member(s)' <=> Member(s))
        /\ after'[s] \in {"fork", "reset"} => after'[s] = after[s]
        /\ \A t \in Session \ {s} : Member(t) => (Reached(s, t)' <=> Reached(s, t))
    <3>1. CASE Pass(s)
      <4>1. \A t \in Session \ {s} : Member(t) => me[t] # j[s]
        <5>1. \A t \in Session : Member(t) => id_num[me[t]] # 0
          BY OwnSlot DEF Member, LoggedIn
        <5> QED BY <1>1, <3>1, <5>1 DEF Pass, Passed, SlotInv
      <4>2. after'[s] \in {after[s], None}
        BY <3>1 DEF Pass, Advance, ShellsOK
      <4>3. Advance(s) /\ me' = me
        BY <1>1, <3>1 DEF Pass
      <4> QED BY <1>1, <1>2, <1>4, <4>1, <4>2, <4>3, NextSlot, MultiNone DEF Afters
    <3>2. CASE FindEnd(s)
      <4>1. UNCHANGED <<j, after>> /\ pc'[s] = "post"
        BY <3>2 DEF FindEnd, Goto, ShellsOK
      <4> QED BY <1>1, <1>4, <4>1
              DEF Entering, Leaving, Working, Member, Reached
    <3> QED BY <3>1, <3>2
  <2>2. MailInv'
    <3>1. \A t \in Session \ {s} :
            after'[s] \in {"fork", "reset"} /\ Member(t) /\ ~Reached(s, t)' => IdleAndEmpty(t)
      BY <1>4, <2>1 DEF MailInv
    <3> QED BY <1>1, <1>2, <1>3, <2>1, <3>1, MailKept
  <2>3. ViewInv'
    <3>1. \A t \in Session : Member(t) => View(t)' = View(t)
      BY <1>1, SameMail
    <3> QED BY <1>2, <1>3, <2>1, <3>1, ViewKept
  <2> QED BY <2>2, <2>3
<1>5. CASE after[s] \in {"flush", "write", "take"}
  <2>1. /\ pc'[s] \in {"cast", "post", "flush", "write", "take"}
        /\ after'[s] \in {after[s], None}
        /\ pc'[s] \in {"cast", "post"} => after'[s] = after[s]
    BY <1>1, <1>5 DEF Pass, FindEnd, Advance, Goto, ShellsOK
  <2>2. /\ Working(s) /\ ~Entering(s) /\ ~Entering(s)' /\ ~Leaving(s) /\ ~Leaving(s)'
        /\ Member(s) /\ Member(s)' /\ after'[s] \notin {"fork", "reset"}
    BY <1>1, <1>5, <2>1, MultiNone DEF Working, Entering, Leaving, Member, Afters
  <2>3. MailInv'
    BY <1>1, <1>2, <1>3, <2>2, MailKept
  <2>4. ViewInv'
    <3>1. \A t \in Session : Member(t) => View(t)' = View(t)
      BY <1>1, SameMail
    <3> QED BY <1>2, <1>3, <2>2, <3>1, ViewKept
  <2> QED BY <2>3, <2>4
<1> QED BY <1>1, <1>4, <1>5 DEF Afters

(* A broadcast, or tell, writes to a slot: the login or logout to a mailbox *)
(* that is empty, and any other message says nothing of who is there.       *)
LEMMA PostShape ==
  ASSUME Orderly, HeardInv, NEW s \in Session, Post(s)
  PROVE  /\ UNCHANGED <<me, heard, inbox, link>> /\ Advance(s) /\ Only(s)
         /\ broadcast_msg' = [broadcast_msg EXCEPT ![j[s]] = Posted(s, @)]
         /\ pc[s] = "post" /\ after[s] \in Afters /\ me[s] # 0 /\ j[s] \in Slot
         /\ \E o \in Session : me[o] = j[s]
         /\ ~Starting(s)' /\ pc'[s] \notin {"clear", "idle"} /\ inbox[s] = None
         /\ \A t \in Session \ {s} :
              /\ ~Starting(t)' /\ ~Entering(t)' /\ ~Leaving(t)' /\ ~Working(t)'
              /\ ~Entering(t) /\ ~Leaving(t)
              /\ Member(t)' <=> Member(t)
              /\ pc'[t] = pc[t] /\ after'[t] \notin {"fork", "reset"}
<1> USE DEF HeardInv, OwnerInv, TypeInv, TypeOK
<1>1. /\ UNCHANGED <<me, heard, inbox, link>> /\ pc[s] = "post" /\ Advance(s)
      /\ broadcast_msg' = [broadcast_msg EXCEPT ![j[s]] = Posted(s, @)]
  BY DEF Post, client
<1>2. /\ after[s] \in Afters /\ me[s] # 0 /\ j[s] \in Slot /\ link[s] # "backlog"
      /\ inbox[s] = None
  <2>1. ShapeOf(s) /\ after[s] \in Afters \cup {None}
    BY DEF ShapeInv, ShellsOK
  <2>2. inbox[s] = None
    BY <1>1 DEF MailInv
  <2> QED BY <1>1, <2>1, <2>2 DEF ShapeOf
<1>3. Only(s)
  BY StepIsOfOne DEF Process, Either
<1>4. \E o \in Session : me[o] = j[s]
  BY <1>1, <1>2, OwnSlot DEF CastInv, CastOf
<1>5. pc'[s] \in {"cast"} \cup Afters
  BY <1>1, <1>2 DEF Advance, Goto, ShellsOK
<1>6. ~Starting(s)' /\ pc'[s] \notin {"clear", "idle"}
  BY <1>1, <1>2, <1>5 DEF Starting, Afters
<1>7. ASSUME NEW t \in Session \ {s}
      PROVE  /\ ~Starting(t)' /\ ~Entering(t)' /\ ~Leaving(t)' /\ ~Working(t)'
             /\ ~Entering(t) /\ ~Leaving(t)
             /\ Member(t)' <=> Member(t)
             /\ pc'[t] = pc[t] /\ after'[t] \notin {"fork", "reset"}
  <2>1. inbox'[t] = inbox[t] /\ UNCHANGED <<pc[t], after[t], link[t], me[t]>>
    BY <1>1, <1>3 DEF Only
  <2>2. /\ ~Starting(t) /\ ~Entering(t) /\ ~Leaving(t) /\ ~Working(t)
        /\ after[t] \notin {"fork", "reset"}
    <3>1. Active(s)
      BY <1>1 DEF Active
    <3> QED BY <3>1, Passive, MultiNone DEF Orderly, Afters
  <2> QED BY <2>1, <2>2 DEF Starting, Entering, Leaving, Working, Member
<1> QED BY <1>1, <1>2, <1>3, <1>4, <1>6, <1>7

LEMMA HeardPost ==
  ASSUME Orderly, HeardInv, NEW s \in Session, Post(s), after[s] \in {"flush", "write", "take"}
  PROVE  MailInv' /\ ViewInv'
<1> USE DEF HeardInv, OwnerInv, TypeInv, TypeOK
<1>1. /\ Working(s) /\ ~Entering(s) /\ ~Entering(s)' /\ ~Leaving(s) /\ ~Leaving(s)'
      /\ Member(s) /\ Member(s)' /\ after'[s] \notin {"fork", "reset"}
  <2>1. /\ pc'[s] \in {"cast", "flush", "write", "take"}
        /\ after'[s] \in {after[s], None}
    BY PostShape DEF Advance, Goto, ShellsOK
  <2> QED BY <2>1, PostShape, MultiNone DEF Working, Entering, Leaving, Member, Afters
<1> DEFINE Plain(b) == \A n \in DOMAIN b : b[n].what \notin {"in", "out"}
<1>2. \A i \in Slot : Plain(broadcast_msg[i])
  BY <1>1 DEF MailInv
<1>3. \A i \in Slot : Plain(broadcast_msg'[i]) /\ (i # j[s] => broadcast_msg'[i] = broadcast_msg[i])
  <2>1. Message(s).what \notin {"in", "out"}
    BY DEF Message, CastInv, CastOf
  <2>2. \A b \in Seq(Mail) : Plain(b) => Plain(Posted(s, b))
    <3> SUFFICES ASSUME NEW b \in Seq(Mail), Plain(b), pos[s] <= Len(b)
                 PROVE  Plain(Append(SubSeq(b, 1, pos[s]), Message(s)))
      BY DEF Posted
    <3>1. pos[s] \in Nat /\ pos[s] <= Len(b)
      BY DEF ShellsOK
    <3>2. /\ SubSeq(b, 1, pos[s]) \in Seq(Mail) /\ Len(SubSeq(b, 1, pos[s])) = pos[s]
          /\ \A n \in 1..pos[s] : SubSeq(b, 1, pos[s])[n] = b[n]
      BY <3>1
    <3> HIDE DEF Plain
    <3>3. \A n \in 1..(pos[s] + 1) :
            Append(SubSeq(b, 1, pos[s]), Message(s))[n] = IF n <= pos[s] THEN b[n] ELSE Message(s)
      BY <3>1, <3>2
    <3>4. DOMAIN Append(SubSeq(b, 1, pos[s]), Message(s)) = 1..(pos[s] + 1)
      BY <3>1, <3>2
    <3> QED BY <2>1, <3>1, <3>3, <3>4 DEF Plain
  <2> HIDE DEF Plain
  <2>3. broadcast_msg \in [Slot -> Seq(Mail)]
    BY DEF SharedOK
  <2> QED BY <1>2, <2>2, <2>3, PostShape
<1>4. \A t \in Session : me[t] # 0 => View(t)' = View(t) /\ View(t) = heard[t]
  <2>1. \A t \in Session : me[t] # 0 => me[t] \in Slot
    BY OwnSlot
  <2>2. \A t \in Session : me[t] # 0 => /\ News(t, "in") = {} /\ News(t, "out") = {}
                                        /\ News(t, "in")' = {} /\ News(t, "out")' = {}
    BY <1>2, <1>3, <2>1, PostShape DEF News
  <2> QED BY <2>2, PostShape DEF View
<1>5. MailInv'
  <2>1. \A i \in Slot : (\A t \in Session : me'[t] # i) => broadcast_msg'[i] = << >>
    BY <1>3, PostShape DEF MailInv
  <2>2. \A u \in Session : ~Starting(u)' /\ ~Entering(u)' /\ after'[u] \notin {"fork", "reset"}
    BY <1>1, PostShape
  <2>3. \A t \in Session : inbox'[t] # None => pc'[t] = "idle"
    BY PostShape DEF MailInv
  <2>4. \A t \in Session : pc'[t] = "clear" => View(t)' = heard'[t]
    <3>1. \A t \in Session : pc[t] = "clear" => me[t] # 0
      BY DEF ShapeInv, ShapeOf
    <3> QED BY <1>4, <3>1, PostShape
  <2> QED BY <1>3, <2>1, <2>2, <2>3, <2>4 DEF MailInv
<1>6. ViewInv'
  <2>1. \A t \in Session : Member(t) => View(t)' = View(t)
    BY <1>4 DEF Member
  <2>2. Active(s) /\ Only(s) /\ Serial
    BY PostShape DEF Active, Orderly
  <2> QED BY <1>1, <2>1, <2>2, ViewKept
<1> QED BY <1>5, <1>6

LEMMA HeardTold ==
  ASSUME Orderly, HeardInv, NEW s \in Session, Post(s), after[s] \in {"fork", "reset"}
  PROVE  MailInv' /\ ViewInv'
<1> USE DEF HeardInv, OwnerInv, TypeInv, TypeOK
<1>1. PICK o \in Session \ {s} : me[o] = j[s] /\ Member(o) /\ ~Reached(s, o) /\ IdleAndEmpty(o)
  <2>1. pc[s] = "post"
    BY PostShape
  <2>2. id_num[j[s]] # 0 /\ j[s] # me[s]
    BY <2>1 DEF CastInv, CastOf
  <2> QED BY <2>1, <2>2, EmptyAhead DEF Orderly
<1>2. /\ Entering(s)' <=> Entering(s)
      /\ Leaving(s)' <=> Leaving(s)
      /\ ~Member(s) /\ ~Member(s)' /\ ~Working(s)'
      /\ after'[s] \in {"fork", "reset", None}
      /\ \A t \in Session : Member(t) => (Reached(s, t)' <=> Reached(s, t) \/ me[t] = j[s])
  BY PostShape, NextSlot
<1>3. \A t \in Session : me[t] # 0 => me[t] \in Slot /\ (me[t] = j[s] => t = o)
  BY <1>1, OwnSlot DEF SlotInv
<1>4. broadcast_msg'[j[s]] = << Message(s) >> /\ \A i \in Slot \ {j[s]} :
                                                   broadcast_msg'[i] = broadcast_msg[i]
  <2>1. broadcast_msg[j[s]] = << >> /\ pos[s] = 0
    BY <1>1, PostShape DEF IdleAndEmpty, CastInv, CastOf
  <2>2. Posted(s, << >>) = << Message(s) >>
    <3>1. Posted(s, << >>) = Append(SubSeq(<< >>, 1, 0), Message(s))
      BY <2>1 DEF Posted
    <3>2. SubSeq(<< >>, 1, 0) = << >>
      OBVIOUS
    <3>3. \A m : Append(<< >>, m) = << m >>
      OBVIOUS
    <3> QED BY <3>1, <3>2, <3>3
  <2>3. broadcast_msg \in [Slot -> Seq(Mail)]
    BY DEF SharedOK
  <2> QED BY <2>1, <2>2, <2>3, PostShape
<1>5. \A t \in Session \ {o} : me[t] # 0 => View(t)' = View(t) /\ broadcast_msg'[me[t]] = broadcast_msg[me[t]]
  BY <1>3, <1>4, PostShape, SameMail
<1>6. /\ what[s] = "in" => View(o)' = View(o) \cup {s}
      /\ what[s] = "out" => View(o)' = View(o) \ {s}
  <2>1. View(o) = heard[o]
    BY <1>1 DEF View, News, IdleAndEmpty
  <2>2. News(o, "in")' = IF what[s] = "in" THEN {s} ELSE {}
    BY <1>1, <1>4, PostShape DEF News, Message
  <2>3. News(o, "out")' = IF what[s] = "out" THEN {s} ELSE {}
    BY <1>1, <1>4, PostShape DEF News, Message
  <2> QED BY <2>1, <2>2, <2>3, PostShape DEF View
<1>7. MailInv'
  <2>1. \A i \in Slot : (\A t \in Session : me'[t] # i) => broadcast_msg'[i] = << >>
    BY <1>4, PostShape DEF MailInv
  <2>2. \A u \in Session : ~Starting(u)' /\ ~Working(u)'
    BY <1>2, PostShape
  <2>3. \A t \in Session : inbox'[t] # None => pc'[t] = "idle"
    BY PostShape DEF MailInv
  <2>4. \A u \in Session : Entering(u)' => broadcast_msg'[me'[u]] = << >>
    <3>1. \A u \in Session : Entering(u)' => u = s /\ Entering(s)
      BY <1>2, PostShape
    <3>2. broadcast_msg'[me[s]] = broadcast_msg[me[s]] /\ me' = me
      BY <1>1, <1>5, PostShape
    <3> QED BY <3>1, <3>2 DEF MailInv
  <2>5. ASSUME NEW u \in Session, NEW t \in Session,
               after'[u] \in {"fork", "reset"}, Member(t)', ~Reached(u, t)'
        PROVE  IdleAndEmpty(t)'
    <3>1. u = s /\ t # s
      BY <1>2, <2>5, PostShape
    <3>2. Member(t) /\ ~Reached(s, t) /\ me[t] # j[s]
      BY <1>2, <2>5, <3>1, PostShape
    <3>3. IdleAndEmpty(t) /\ t # o /\ me[t] # 0
      BY <1>1, <3>2 DEF MailInv, Member
    <3> QED BY <1>5, <3>1, <3>3, PostShape DEF IdleAndEmpty
  <2>6. \A t \in Session : pc'[t] = "clear" => View(t)' = heard'[t]
    <3>1. \A t \in Session : pc[t] = "clear" => me[t] # 0
      BY DEF ShapeInv, ShapeOf
    <3>2. \A t \in Session : pc'[t] = "clear" => t # o /\ pc[t] = "clear"
      BY <1>1, PostShape DEF IdleAndEmpty
    <3> QED BY <1>5, <3>1, <3>2, PostShape DEF MailInv
  <2> QED BY <2>1, <2>2, <2>3, <2>4, <2>5, <2>6 DEF MailInv
<1>8. ViewInv'
  <2>1. \A t \in Session : Member(t)' <=> Member(t)
    BY <1>2, PostShape
  <2>2. \A t \in Session : /\ Entering(t) => t = s /\ what[s] = "in"
                           /\ Leaving(t) => t = s /\ what[s] = "out"
    <3>1. after[s] = "fork" => what[s] = "in" /\ ~Leaving(s)
      BY PostShape DEF CastInv, CastOf, Leaving
    <3>2. after[s] = "reset" => what[s] = "out" /\ ~Entering(s)
      BY PostShape DEF CastInv, CastOf, Entering
    <3> QED BY <3>1, <3>2, PostShape
  <2>3. what[s] \in {"in", "out"}
    BY DEF CastInv, CastOf
  <2>4. \A t \in Session : Entering(t)' <=> Entering(t)
    BY <1>2, PostShape
  <2>5. \A t \in Session : Leaving(t)' <=> Leaving(t)
    BY <1>2, PostShape
  <2>6. \A t \in Session : Member(t) => /\ t # s
                                        /\ \A u \in Session \ {s} : u \in View(t)' <=> u \in View(t)
                                        /\ s \in View(t)' <=> \/ t = o /\ what[s] = "in"
                                                              \/ t # o /\ s \in View(t)
    BY <1>2, <1>5, <1>6, <2>3 DEF Member
  <2>7. \A t \in Session : Member(t) => View(t) \subseteq Session /\ View(t)' \subseteq Session
    <3>1. \A t \in Session : Member(t) => View(t) \subseteq Session /\ me[t] # 0
      BY ViewOfSessions DEF Member
    <3>2. View(o)' \subseteq Session
      BY <1>1, <1>6, <2>3, <3>1
    <3> QED BY <1>5, <3>1, <3>2
  <2>8. \A t \in Session : Member(t) => (Reached(s, t)' <=> Reached(s, t) \/ t = o)
    BY <1>1, <1>2, <1>3 DEF Member
  <2> SUFFICES ASSUME NEW t \in Session, Member(t)
               PROVE  /\ \A u \in View(t)' : \/ Member(u)'
                                             \/ Entering(u)' /\ Reached(u, t)'
                                             \/ Leaving(u)' /\ ~Reached(u, t)'
                      /\ \A u \in Session : Member(u)' /\ u # t => (t \in View(u)') # (u \in View(t)')
                      /\ \A u \in Session : Entering(u)' /\ Reached(u, t)' => u \in View(t)'
    BY <2>1 DEF ViewInv
  <2>9. ASSUME NEW u \in View(t)'
        PROVE  Member(u)' \/ (Entering(u)' /\ Reached(u, t)') \/ (Leaving(u)' /\ ~Reached(u, t)')
    <3>0. u \in Session
      BY <2>7, <2>9
    <3>1. CASE u # s
      <4>1. u \in View(t)
        BY <2>6, <2>9, <3>0, <3>1
      <4> QED BY <2>1, <2>2, <3>0, <3>1, <4>1 DEF ViewInv
    <3>2. CASE u = s /\ t = o
      <4>1. what[s] = "in" /\ after[s] = "fork"
        BY <2>6, <2>9, <3>2, PostShape DEF CastInv, CastOf
      <4> QED BY <2>4, <2>8, <3>2, <4>1 DEF Entering
    <3>3. CASE u = s /\ t # o
      <4>1. u \in View(t)
        BY <2>6, <2>9, <3>3
      <4> QED BY <2>1, <2>4, <2>5, <2>8, <3>3, <4>1 DEF ViewInv
    <3> QED BY <3>1, <3>2, <3>3
  <2>10. \A u \in Session : Member(u)' /\ u # t => (t \in View(u)') # (u \in View(t)')
    BY <2>1, <2>6 DEF ViewInv
  <2>11. \A u \in Session : Entering(u)' /\ Reached(u, t)' => u \in View(t)'
    BY <2>2, <2>4, <2>6, <2>8 DEF ViewInv
  <2> QED BY <2>9, <2>10, <2>11
<1> QED BY <1>7, <1>8

-------------------------------------------------------------------------------
(* A shell reads its mailbox, possibly while another process is at work.    *)
LEMMA SameUsers ==
  ASSUME ViewInv, OwnerInv, NEW s \in Session, Only(s), me' = me, after[s] = None,
         after'[s] = None, pc[s] \in {"idle", "flush", "clear"}, pc'[s] \in {"idle", "clear"},
         \A t \in Session : Member(t) => View(t)' = View(t)
  PROVE  ViewInv'
<1>1. \A t \in Session : /\ Member(t)' <=> Member(t)
                         /\ Entering(t)' <=> Entering(t)
                         /\ Leaving(t)' <=> Leaving(t)
  BY MultiNone DEF Only, Member, Entering, Leaving, Afters
<1>2. \A u, t \in Session : Reached(u, t)' <=> Reached(u, t)
  BY MultiNone DEF Only, Reached, Afters
<1>3. \A t \in Session : Member(t) => View(t) \subseteq Session
  BY ViewOfSessions DEF Member
<1> QED BY <1>1, <1>2, <1>3 DEF ViewInv

LEMMA HeardPrint ==
  ASSUME Orderly, HeardInv, NEW s \in Session, PrintMail(s)
  PROVE  MailInv' /\ ViewInv'
<1> USE DEF HeardInv, OwnerInv, TypeInv, TypeOK
<1>1. /\ UNCHANGED <<broadcast_msg, me, after, inbox, link>>
      /\ heard' = [heard EXCEPT ![s] = View(s)]
      /\ pc[s] \in {"idle", "flush"} /\ pc'[s] = "clear" /\ broadcast_msg[me[s]] # << >>
  <2>1. link[s] # "hup"
    BY DEF AliveInv
  <2>2. link' = link
    BY <2>1 DEF PrintMail, ClientsOK
  <2>3. heard' = [heard EXCEPT ![s] = View(s)]
    BY DEF PrintMail, View
  <2>4. /\ UNCHANGED <<broadcast_msg, me, after, inbox>>
        /\ pc[s] \in {"idle", "flush"} /\ pc'[s] = "clear" /\ broadcast_msg[me[s]] # << >>
    BY DEF PrintMail, Goto, loop, shared, ShellsOK
  <2> QED BY <2>2, <2>3, <2>4
<1>2. Only(s)
  BY StepIsOfOne DEF Process, Shell
<1>3. after[s] = None /\ me[s] \in Slot /\ link[s] # "backlog"
  BY <1>1, OwnSlot DEF ShapeInv, ShapeOf
<1>4. \A t \in Session : View(t)' = View(t)
  <2>1. \A t \in Session : News(t, "in")' = News(t, "in") /\ News(t, "out")' = News(t, "out")
    BY <1>1 DEF News
  <2>2. heard'[s] = View(s) /\ \A t \in Session \ {s} : heard'[t] = heard[t]
    BY <1>1 DEF ClientsOK
  <2> QED BY <2>1, <2>2 DEF View
<1>5. \A u \in Session : ~Starting(u)
  BY <1>1, <1>3 DEF MailInv
<1>6. ~Starting(s)' /\ ~Entering(s)' /\ ~Working(s)'
  BY <1>1, <1>3, <1>5, MultiNone DEF Starting, Entering, Working, Afters
<1>7. ASSUME NEW t \in Session \ {s}
      PROVE  /\ ~Starting(t)' /\ (Entering(t)' <=> Entering(t)) /\ (Working(t)' <=> Working(t))
             /\ pc'[t] = pc[t]
  <2>1. inbox'[t] = inbox[t] /\ UNCHANGED <<pc[t], after[t], link[t], me[t]>>
    BY <1>1, <1>2 DEF Only
  <2> QED BY <1>5, <2>1 DEF Starting, Entering, Working
<1>8. \A t \in Session : Member(t)' <=> Member(t)
  BY <1>1, <1>2, <1>3, MultiNone DEF Only, Member, Entering, Leaving, Afters
<1>9. MailInv'
  <2>1. \A i \in Slot : (\A t \in Session : me'[t] # i) => broadcast_msg'[i] = << >>
    BY <1>1 DEF MailInv
  <2>2. \A u \in Session : ~Starting(u)'
    BY <1>6, <1>7
  <2>3. \A t \in Session : inbox'[t] # None => pc'[t] = "idle"
    BY <1>1, <1>5, <1>7 DEF Starting, MailInv
  <2>4. \A u \in Session : Entering(u)' => broadcast_msg'[me'[u]] = << >>
    BY <1>1, <1>6, <1>7 DEF MailInv
  <2>5. ASSUME NEW u \in Session, NEW t \in Session,
               after'[u] \in {"fork", "reset"}, Member(t)', ~Reached(u, t)'
        PROVE  IdleAndEmpty(t)'
    <3>1. after[u] \in {"fork", "reset"} /\ u # s
      BY <1>1, <1>3, <2>5, MultiNone DEF Afters
    <3>2. ~Reached(u, t)
      BY <1>1, <1>2, <2>5, <3>1 DEF Only, Reached
    <3>3. IdleAndEmpty(t)
      BY <1>8, <2>5, <3>1, <3>2 DEF MailInv
    <3>4. t # s
      BY <1>1, <3>3 DEF IdleAndEmpty
    <3> QED BY <1>1, <1>7, <3>3, <3>4 DEF IdleAndEmpty
  <2>6. ASSUME NEW u \in Session, Working(u)'
        PROVE  \A i \in Slot : \A n \in DOMAIN broadcast_msg'[i] :
                 broadcast_msg'[i][n].what \notin {"in", "out"}
    BY <1>1, <1>6, <1>7, <2>6 DEF MailInv
  <2>7. \A t \in Session : pc'[t] = "clear" => View(t)' = heard'[t]
    BY <1>1, <1>4, <1>7 DEF MailInv, ClientsOK
  <2> QED BY <2>1, <2>2, <2>3, <2>4, <2>5, <2>6, <2>7 DEF MailInv
<1>10. ViewInv'
  BY <1>1, <1>2, <1>3, <1>4, SameUsers
<1> QED BY <1>9, <1>10

LEMMA HeardClear ==
  ASSUME Orderly, HeardInv, NEW s \in Session, ClearMail(s)
  PROVE  MailInv' /\ ViewInv'
<1> USE DEF HeardInv, OwnerInv, TypeInv, TypeOK
<1>1. /\ UNCHANGED <<me, heard, after, inbox, link>>
      /\ broadcast_msg' = [broadcast_msg EXCEPT ![me[s]] = << >>]
      /\ pc[s] = "clear" /\ pc'[s] = "idle"
  BY DEF ClearMail, Goto, loop, client, ShellsOK
<1>2. Only(s)
  BY StepIsOfOne DEF Process, Shell
<1>3. /\ after[s] = None /\ me[s] \in Slot /\ me[s] # 0 /\ link[s] # "backlog"
      /\ inbox[s] = None
  <2>1. inbox[s] = None
    BY <1>1 DEF MailInv
  <2> QED BY <1>1, <2>1, OwnSlot DEF ShapeInv, ShapeOf
<1>4. /\ broadcast_msg'[me[s]] = << >>
      /\ \A i \in Slot : i # me[s] => broadcast_msg'[i] = broadcast_msg[i]
  BY <1>1, <1>3 DEF SharedOK
<1>5. \A t \in Session : me[t] # 0 => /\ me[t] \in Slot
                                      /\ t # s => me[t] # me[s]
                                      /\ View(t)' = View(t)
  <2>1. \A t \in Session : me[t] # 0 => me[t] \in Slot /\ (t # s => me[t] # me[s])
    BY OwnSlot DEF SlotInv
  <2>2. \A t \in Session \ {s} : me[t] # 0 => View(t)' = View(t)
    BY <1>1, <1>4, <2>1, SameMail
  <2>3. View(s) = heard[s]
    BY <1>1 DEF MailInv
  <2>4. News(s, "in")' = {} /\ News(s, "out")' = {}
    BY <1>1, <1>4 DEF News
  <2>5. View(s)' = heard[s]
    BY <1>1, <2>4 DEF View
  <2> QED BY <2>1, <2>2, <2>3, <2>5
<1>6. \A u \in Session : ~Starting(u)
  BY <1>1, <1>3 DEF MailInv, Starting
<1>7. ~Starting(s)' /\ ~Entering(s)' /\ ~Working(s)'
  BY <1>1, <1>3, MultiNone DEF Starting, Entering, Working, Afters
<1>8. ASSUME NEW t \in Session \ {s}
      PROVE  /\ ~Starting(t)' /\ (Entering(t)' <=> Entering(t)) /\ (Working(t)' <=> Working(t))
             /\ pc'[t] = pc[t]
  <2>1. inbox'[t] = inbox[t] /\ UNCHANGED <<pc[t], after[t], link[t], me[t]>>
    BY <1>1, <1>2 DEF Only
  <2> QED BY <1>6, <2>1 DEF Starting, Entering, Working
<1>9. \A t \in Session : Member(t)' <=> Member(t)
  BY <1>1, <1>2, <1>3, MultiNone DEF Only, Member, Entering, Leaving, Afters
<1>10. MailInv'
  <2>1. \A i \in Slot : (\A t \in Session : me'[t] # i) => broadcast_msg'[i] = << >>
    BY <1>1, <1>4 DEF MailInv
  <2>2. \A u \in Session : ~Starting(u)'
    BY <1>7, <1>8
  <2>3. \A t \in Session : inbox'[t] # None => pc'[t] = "idle"
    BY <1>1, <1>8 DEF MailInv
  <2>4. ASSUME NEW u \in Session, Entering(u)' PROVE broadcast_msg'[me'[u]] = << >>
    <3>1. Entering(u) /\ u # s /\ me[u] # 0
      BY <1>7, <1>8, <2>4, MultiNone DEF Entering, ShapeInv, ShapeOf, Afters
    <3> QED BY <1>1, <1>4, <1>5, <3>1 DEF MailInv
  <2>5. ASSUME NEW u \in Session, NEW t \in Session,
               after'[u] \in {"fork", "reset"}, Member(t)', ~Reached(u, t)'
        PROVE  IdleAndEmpty(t)'
    <3>1. after[u] \in {"fork", "reset"} /\ u # s
      BY <1>1, <1>3, <2>5, MultiNone DEF Afters
    <3>2. ~Reached(u, t)
      BY <1>1, <1>2, <2>5, <3>1 DEF Only, Reached
    <3>3. IdleAndEmpty(t) /\ me[t] # 0
      BY <1>9, <2>5, <3>1, <3>2 DEF MailInv, Member
    <3>4. t # s
      BY <1>1, <3>3 DEF IdleAndEmpty
    <3> QED BY <1>1, <1>4, <1>5, <1>8, <3>3, <3>4 DEF IdleAndEmpty
  <2>6. ASSUME NEW u \in Session, Working(u)'
        PROVE  \A i \in Slot : \A n \in DOMAIN broadcast_msg'[i] :
                 broadcast_msg'[i][n].what \notin {"in", "out"}
    <3>1. Working(u)
      BY <1>7, <1>8, <2>6
    <3> QED BY <1>4, <3>1 DEF MailInv
  <2>7. \A t \in Session : pc'[t] = "clear" => View(t)' = heard'[t]
    <3>1. \A t \in Session : pc'[t] = "clear" => t # s /\ pc[t] = "clear" /\ me[t] # 0
      BY <1>1, <1>8 DEF ShapeInv, ShapeOf
    <3> QED BY <1>1, <1>5, <3>1 DEF MailInv
  <2> QED BY <2>1, <2>2, <2>3, <2>4, <2>5, <2>6, <2>7 DEF MailInv
<1>11. ViewInv'
  BY <1>1, <1>2, <1>3, <1>5, SameUsers DEF Member
<1> QED BY <1>10, <1>11

(* A client connects or sends a line when nothing goes on.                  *)
LEMMA HeardClient ==
  ASSUME Orderly, HeardInv, NEW s \in Session, Client(s)
  PROVE  MailInv' /\ ViewInv'
<1> USE DEF HeardInv, OwnerInv, TypeInv, TypeOK
<1>1. /\ UNCHANGED <<broadcast_msg, me, pc, after, j, heard>> /\ AtRest
      /\ \A t \in Session : inbox'[t] # None => inbox[t] # None \/ link[t] = "on"
  <2>1. CASE Connect(s)
    BY <2>1 DEF Connect, shared, shell, loop, Orderly
  <2>2. CASE \E l \in Inputs : Send(s, l)
    BY <2>2 DEF Send, shared, shell, loop, Orderly, ClientsOK
  <2> QED BY <2>1, <2>2 DEF Client, HangUp, Orderly
<1>2. \A t \in Session : /\ pc[t] \in {"none", "idle", "gone"}
                         /\ me[t] # 0 => pc[t] = "idle" /\ broadcast_msg[me[t]] = << >>
                         /\ link[t] = "on" => pc[t] = "idle"
  BY <1>1 DEF AtRest, AliveInv, ShapeInv, ShapeOf
<1>3. \A i \in Slot : broadcast_msg[i] = << >>
  BY <1>2, MultiBounds DEF MailInv, Slot
<1>4. \A t \in Session : after[t] = None
  BY <1>2 DEF ShapeInv, ShapeOf, ShellsOK
<1>5. \A t \in Session : /\ Member(t)' <=> Member(t)
                         /\ Entering(t)' <=> Entering(t)
                         /\ Leaving(t)' <=> Leaving(t)
                         /\ View(t)' = View(t)
                         /\ ~Entering(t)' /\ ~Working(t)'
  BY <1>1, <1>2, <1>4, SameMail, MultiNone
     DEF Member, Entering, Leaving, Working, Afters
<1>6. MailInv'
  <2>1. \A t \in Session : inbox'[t] # None => pc'[t] = "idle"
    BY <1>1, <1>2 DEF MailInv
  <2>2. \A t \in Session : pc'[t] # "clear" /\ after'[t] \notin {"fork", "reset"}
    BY <1>1, <1>2, <1>4, MultiNone DEF Afters
  <2> QED BY <1>1, <1>2, <1>3, <1>5, <2>1, <2>2 DEF MailInv
<1>7. ViewInv'
  <2>1. \A u, t \in Session : Reached(u, t)' <=> Reached(u, t)
    BY <1>1 DEF Reached
  <2>2. \A t \in Session : Member(t) => View(t) \subseteq Session
    BY ViewOfSessions DEF Member
  <2> QED BY <1>5, <2>1, <2>2 DEF ViewInv
<1> QED BY <1>6, <1>7

LEMMA HeardInit == Init => HeardInv
<1> SUFFICES ASSUME Init PROVE HeardInv
  OBVIOUS
<1>1. /\ \A s \in Session : pc[s] = "none" /\ after[s] = None /\ me[s] = 0 /\ link[s] = "off"
                            /\ inbox[s] = None
      /\ \A i \in Slot : broadcast_msg[i] = << >>
  BY DEF Init
<1>2. OwnerInv
  BY OwnerInit
<1>3. \A s \in Session : /\ ~Member(s) /\ ~Entering(s) /\ ~Working(s) /\ ~Starting(s)
                         /\ after[s] \notin Afters
  BY <1>1, MultiNone DEF Member, Entering, Working, Starting, Afters
<1>4. AliveInv
  BY <1>1, <1>3 DEF AliveInv, Afters
<1>5. CastInv
  BY <1>1, <1>3 DEF CastInv, CastOf, Afters
<1>6. MailInv
  BY <1>1, <1>3 DEF MailInv, Afters
<1>7. ViewInv
  BY <1>3 DEF ViewInv
<1> QED BY <1>2, <1>4, <1>5, <1>6, <1>7 DEF HeardInv

LEMMA HeardStep ==
  ASSUME Orderly, EnoughSlots, HeardInv, [Next]_vars PROVE HeardInv'
<1>1. OwnerInv'
  BY OwnerStep DEF HeardInv, Orderly
<1>2. AliveInv' /\ CastInv'
  BY AliveStep, CastStep DEF HeardInv
<1>3. MailInv' /\ ViewInv'
  <2>1. CASE UNCHANGED vars
    <3>1. UNCHANGED <<broadcast_msg, pc, me, j, after, link, inbox, heard>>
      BY <2>1 DEF vars, shared, shell, loop, client
    <3>2. \A s \in Session : /\ Starting(s)' <=> Starting(s)
                             /\ Working(s)' <=> Working(s)
                             /\ Entering(s)' <=> Entering(s)
                             /\ Leaving(s)' <=> Leaving(s)
                             /\ Member(s)' <=> Member(s)
                             /\ IdleAndEmpty(s)' <=> IdleAndEmpty(s)
                             /\ View(s)' = View(s)
      BY <3>1, SameMail
         DEF Starting, Working, Entering, Leaving, Member, IdleAndEmpty
    <3>3. \A s, t \in Session : Reached(s, t)' <=> Reached(s, t)
      BY <3>1 DEF Reached
    <3>4. MailInv'
      BY <3>1, <3>2, <3>3 DEF HeardInv, MailInv
    <3>5. ViewInv'
      <4>1. \A t \in Session : Member(t) => View(t) \subseteq Session
        BY ViewOfSessions DEF HeardInv, Member
      <4> QED BY <3>2, <3>3, <4>1 DEF HeardInv, ViewInv
    <3> QED BY <3>4, <3>5
  <2>2. ASSUME NEW s \in Session, Client(s) PROVE MailInv' /\ ViewInv'
    BY <2>2, HeardClient
  <2>3. ASSUME NEW s \in Session, Either(s) PROVE MailInv' /\ ViewInv'
    <3>1. CASE Pass(s) \/ FindEnd(s)
      BY <3>1, HeardPass
    <3>2. CASE Post(s)
      <4>1. after[s] \in Afters
        BY <3>2, PostShape
      <4> QED BY <3>2, <4>1, HeardPost, HeardTold DEF Afters
    <3> QED BY <2>3, <3>1, <3>2 DEF Either
  <2>4. ASSUME NEW s \in Session, Parent(s) PROVE MailInv' /\ ViewInv'
    BY <2>4, HeardStart, HeardClaim, HeardFork DEF Parent
  <2>5. ASSUME NEW s \in Session, Shell(s) PROVE MailInv' /\ ViewInv'
    <3>1. ~BrokenPipe(s)
      BY DEF BrokenPipe, HeardInv, AliveInv
    <3>2. CASE PrintMail(s) \/ ClearMail(s) \/ ReadLine(s) \/ Exit(s) \/ CleanNext(s)
                 \/ FreeSlot(s) \/ Reset(s) \/ Forget(s)
      BY <3>2, HeardPrint, HeardClear, HeardStart, HeardExit, HeardFree, HeardForget
    <3>3. CASE \/ NoMail(s) \/ CheckName(s) \/ CheckNext(s) \/ ChangeName(s)
               \/ Yell(s) \/ Tell(s) \/ Local(s) \/ Crash(s)
               \/ Run(s) \/ ReadNothing(s) \/ ReadPipe(s) \/ ReadFails(s)
               \/ WriteNothing(s) \/ WritePipe(s) \/ WriteFails(s) \/ Take(s) \/ EndRun(s)
      BY <1>2, <3>3, HeardWork
    <3> QED BY <2>5, <3>1, <3>2, <3>3 DEF Shell
  <2> QED BY <2>1, <2>2, <2>3, <2>4, <2>5 DEF Next
<1> QED BY <1>1, <1>2, <1>3 DEF HeardInv

(* HeardRight: when nothing goes on, of any two users one was told that the *)
(* other came, and nobody believes that a user is there who left.  It holds *)
(* of any number of clients that take turns, leave with exit and send no    *)
(* line the parser dies of, if there is a slot for each: the login and      *)
(* logout broadcasts reach every slot in use and find its mailbox empty.    *)
THEOREM MultiMessagesAreRight ==
  ASSUME Orderly, EnoughSlots PROVE Spec => []HeardRight
<1>1. HeardInv => HeardRight
  <2> SUFFICES ASSUME HeardInv, AtRest
               PROVE  LET here == {s \in Session : pc[s] = "idle" /\ link[s] = "on"}
                      IN \A s \in here : /\ heard[s] \subseteq here
                                         /\ \A t \in here \ {s} : (s \in heard[t]) # (t \in heard[s])
    BY DEF HeardRight
  <2> USE DEF HeardInv, OwnerInv, TypeInv
  <2>1. \A s \in Session : pc[s] \in {"none", "idle", "gone"} /\ after[s] = None
    BY DEF AtRest, AliveInv, ShapeInv, ShapeOf, TypeOK, ShellsOK
  <2>2. \A s \in Session : ~Entering(s) /\ ~Leaving(s)
    BY <2>1, MultiNone DEF Entering, Leaving, Afters
  <2>3. \A s \in Session : pc[s] = "idle" /\ link[s] = "on" <=> Member(s)
    BY <2>1, <2>2 DEF Member, ShapeInv, ShapeOf, AliveInv
  <2>4. \A s \in Session : Member(s) => View(s) = heard[s]
    BY <2>1, <2>3 DEF AtRest, View, News
  <2>5. \A s \in Session : Member(s) => View(s) \subseteq Session
    BY ViewOfSessions DEF Member
  <2>6. ASSUME NEW s \in Session, Member(s)
        PROVE  /\ \A u \in heard[s] : u \in Session /\ Member(u)
               /\ \A t \in Session : Member(t) /\ t # s => (s \in heard[t]) # (t \in heard[s])
    BY <2>2, <2>4, <2>5, <2>6 DEF ViewInv
  <2> QED BY <2>3, <2>6
<1> QED BY <1>1, HeardInit, HeardStep, PTL DEF Spec
===============================================================================
