---------------------------- MODULE MultiProcProofs ----------------------------
(* What MultiProc satisfies for any number of clients and slots, and how   *)
(* it serves them.                                                          *)
EXTENDS MultiProc, FiniteSetTheorems, SequenceTheorems, TLAPS

(* Where a process is tells which of its variables are set.                 *)
ShapeOf(s) ==
  /\ me[s] = 0 <=> pc[s] \in {"none", "scan", "gone"}
  /\ pc[s] \in {"cast", "post"} <=> after[s] # None
  /\ pc[s] \in {"cast", "post"} => j[s] \in Slot /\ what[s] \in Kinds
  /\ pc[s] \in {"scan", "clean", "check"} => j[s] # 0
  /\ pc[s] \in {"parse", "check"} => line[s] # None
  /\ pc[s] = "check" => line[s].op = "name"
  /\ pc[s] \in {"write", "take"} \/ after[s] \in {"write", "take"} => rest[s] # << >>
  /\ pc[s] \in {"scan", "fork"} \/ after[s] = "fork" => parent = s
  /\ pc[s] = "none" => link[s] \in {"off", "backlog"}
  /\ pc[s] \in {"gone", "killed"} => link[s] = "closed"
  /\ pc[s] \notin {"none", "gone", "killed"} => link[s] \in {"on", "hup", "hupw"}
ShapeInv == \A s \in Session : ShapeOf(s)

TypeInv == TypeOK /\ ShapeInv

(* A step of the process of s leaves those of the others where they are.    *)
Only(s) == \A t \in Session \ {s} : UNCHANGED <<me[t], pc[t], after[t], j[t], what[t],
                                                line[t], rest[t], pos[t], link[t]>>

LEMMA ShapeKept ==
  ASSUME ShapeInv, NEW s \in Session, Only(s), ShapeOf(s)',
         parent' = parent \/ parent = s \/ parent = None
  PROVE  ShapeInv'
<1> SUFFICES ASSUME NEW t \in Session PROVE ShapeOf(t)'
  BY DEF ShapeInv
<1>1. CASE t = s
  BY <1>1
<1>2. CASE t # s
  <2>1. UNCHANGED <<me[t], pc[t], after[t], j[t], what[t], line[t], rest[t],
                  link[t]>>
    BY <1>2 DEF Only
  <2>2. ShapeOf(t)
    BY DEF ShapeInv
  <2>3. parent = t => parent' = t
    BY <1>2, MultiInputs
  <2> QED BY <2>1, <2>2, <2>3 DEF ShapeOf
<1> QED BY <1>1, <1>2

LEMMA TypeInit == Init => TypeInv
<1> SUFFICES ASSUME Init PROVE TypeInv
  OBVIOUS
<1> USE MultiBounds, MultiNone DEF Init
<1>1. SharedOK /\ ClientsOK
  BY DEF SharedOK, ClientsOK, Slot
<1>2. ShellsOK
  BY DEF ShellsOK, PCs
<1>3. ShapeInv
  BY DEF ShapeInv, ShapeOf, Afters
<1> QED BY <1>1, <1>2, <1>3 DEF TypeInv, TypeOK
(* The clients and the parent.                                              *)
LEMMA TypeClients ==
  ASSUME TypeInv, NEW s \in Session, Client(s) \/ Parent(s)
  PROVE  TypeInv'
<1> USE DEF TypeInv, TypeOK
<1> SUFFICES SharedOK' /\ ShellsOK' /\ ClientsOK' /\ Only(s) /\ ShapeOf(s)'
  <2>1. parent' = parent \/ parent = s \/ parent = None
    <3>1. CASE Fork(s)
      BY <3>1, MultiNone DEF Fork, ShapeInv, ShapeOf
    <3>2. CASE Accept(s)
      BY <3>2 DEF Accept
    <3> QED BY <3>1, <3>2 DEF Client, Parent, Connect, HangUp, Send, ScanNext, Claim
  <2> QED BY <2>1, ShapeKept
<1>1. ShapeOf(s)
  BY DEF ShapeInv
<1>2. SharedOK'
  BY MultiBounds DEF Client, Parent, Connect, HangUp, Send, Accept, ScanNext, Claim, Fork,
                     SharedOK, shared, Slot
<1>3. ClientsOK'
  BY DEF Client, Parent, Connect, HangUp, Send, Accept, ScanNext, Claim, Fork,
         ClientsOK, client
<1>4. CASE Client(s)
  <2>1. UNCHANGED <<parent, pc, shell>>
    BY <1>4 DEF Client, Connect, HangUp, Send
  <2>2. ShellsOK' /\ Only(s)
    BY <1>4, <2>1 DEF ShellsOK, Only, shell, loop, Client, Connect, HangUp, Send, ClientsOK
  <2>3. \/ link'[s] = link[s]
        \/ link[s] = "off" /\ link'[s] = "backlog"
        \/ link[s] = "on" /\ link'[s] = "hup"
    BY <1>4 DEF Client, Connect, HangUp, Send, ClientsOK
  <2>4. ShapeOf(s)'
    BY <1>1, <2>1, <2>3 DEF ShapeOf, shell, loop
  <2> QED BY <1>2, <1>3, <2>2, <2>4
<1>5. CASE Fork(s)
  <2>1. ShellsOK' /\ Only(s)
    BY <1>5 DEF Fork, ShellsOK, Only, shell, loop, Goto, PCs, ClientsOK
  <2>2. pc'[s] = "idle" /\ pc[s] = "fork"
        /\ UNCHANGED <<me, after, j, what, line, rest, link>>
    BY <1>5 DEF Fork, Goto, ShellsOK, shell, loop
  <2>3. ShapeOf(s)'
    BY <1>1, <2>2, MultiNone DEF ShapeOf, Afters
  <2> QED BY <1>2, <1>3, <2>1, <2>3
<1>6. CASE Accept(s)
  <2>1. ShellsOK' /\ Only(s)
    BY <1>6, MultiBounds DEF Accept, ShellsOK, Only, Goto, PCs, ClientsOK
  <2>2. ShapeOf(s)'
    BY <1>1, <1>6, MultiNone DEF Accept, ShapeOf, ShellsOK, Goto, Afters, ClientsOK
  <2> QED BY <1>2, <1>3, <2>1, <2>2
<1>7. CASE ScanNext(s)
  <2>1. ShellsOK' /\ Only(s)
    BY <1>7, MultiBounds DEF ScanNext, ShellsOK, Only, Slot, client
  <2>2. ShapeOf(s)'
    BY <1>1, <1>7, MultiBounds DEF ScanNext, ShapeOf, ShellsOK, Slot, client
  <2> QED BY <1>2, <1>3, <2>1, <2>2
<1>8. CASE Claim(s)
  <2> USE <1>8 DEF Claim, Broadcast, Goto, client
  <2>1. ShellsOK' /\ Only(s)
    BY MultiBounds DEF ShellsOK, Only, PCs, Slot, Kinds, Afters
  <2>2. ShapeOf(s)'
    BY <1>1, MultiBounds, MultiNone DEF ShapeOf, ShellsOK, Slot, Kinds, Afters
  <2> QED BY <1>2, <1>3, <2>1, <2>2
<1> QED BY <1>4, <1>5, <1>6, <1>7, <1>8 DEF Parent
(* A broadcast goes on to the next slot, or to what follows it.             *)
LEMMA TypeAdvance ==
  ASSUME TypeInv, NEW s \in Session, pc[s] \in {"cast", "post"}, Advance(s),
         UNCHANGED <<parent, me, line, rest, buf, client>>,
         SharedOK', pos' = pos \/ pos' = [pos EXCEPT ![s] = 0]
  PROVE  TypeInv'
<1> USE DEF TypeInv, TypeOK
<1>1. ShapeOf(s) /\ ClientsOK' /\ pos' \in [Session -> Nat]
  BY DEF ShapeInv, ClientsOK, client, ShellsOK
<1>2. ShellsOK' /\ Only(s) /\ ShapeOf(s)'
  <2>1. CASE j[s] < MaxUsers /\ what[s] # "told"
    <3>1. j[s] \in Slot /\ j[s] + 1 \in Slot
      BY <1>1, <2>1, MultiBounds DEF ShapeOf, Slot
    <3>2. /\ pc' = [pc EXCEPT ![s] = "cast"] /\ j' = [j EXCEPT ![s] = @ + 1]
          /\ UNCHANGED <<what, after>>
      BY <2>1 DEF Advance, Goto
    <3>3. ShellsOK' /\ Only(s)
      <4>1. j' \in [Session -> 0..(MaxUsers + 1)] /\ pc' \in [Session -> PCs]
        BY <3>1, <3>2, MultiBounds DEF ShellsOK, PCs, Slot
      <4>2. ShellsOK'
        BY <1>1, <3>2, <4>1 DEF ShellsOK
      <4>3. Only(s)
        BY <3>2 DEF ShellsOK, Only, client
      <4> QED BY <4>2, <4>3
    <3>4. ShapeOf(s)'
      BY <1>1, <3>1, <3>2 DEF ShapeOf, ShellsOK, client
    <3> QED BY <3>3, <3>4
  <2>2. CASE ~(j[s] < MaxUsers /\ what[s] # "told")
    <3>1. /\ pc' = [pc EXCEPT ![s] = after[s]] /\ j' = [j EXCEPT ![s] = 0]
          /\ what' = [what EXCEPT ![s] = None] /\ after' = [after EXCEPT ![s] = None]
      BY <2>2 DEF Advance, Goto
    <3>2. after[s] \in Afters
      BY <1>1 DEF ShapeOf, ShellsOK
    <3>3. ShellsOK' /\ Only(s)
      BY <1>1, <3>1, <3>2, MultiBounds DEF ShellsOK, Only, PCs, Afters, client
    <3>4. ShapeOf(s)'
      BY <1>1, <3>1, <3>2, MultiNone DEF ShapeOf, ShellsOK, client, Afters
    <3> QED BY <3>3, <3>4
  <2> QED BY <2>1, <2>2
<1> QED BY <1>1, <1>2, ShapeKept

LEMMA TypeCast ==
  ASSUME TypeInv, NEW s \in Session, Either(s)
  PROVE  TypeInv'
<1> USE DEF TypeInv, TypeOK
<1>0. ShapeOf(s)
  BY DEF ShapeInv
<1>1. CASE Pass(s)
  <2>1. SharedOK'
    BY <1>1 DEF Pass, shared, SharedOK
  <2> QED BY <1>1, <2>1, TypeAdvance DEF Pass
<1>2. CASE FindEnd(s)
  <2>1. SharedOK' /\ ClientsOK'
    BY <1>2 DEF FindEnd, shared, client, SharedOK, ClientsOK
  <2>2. ShellsOK' /\ Only(s)
    <3>1. Len(broadcast_msg[j[s]]) \in Nat
      BY <1>0, <1>2 DEF FindEnd, SharedOK, ShapeOf
    <3> QED BY <1>2, <3>1 DEF FindEnd, ShellsOK, Only, Goto, PCs, client
  <2>3. ShapeOf(s)'
    BY <1>0, <1>2 DEF FindEnd, ShapeOf, ShellsOK, Goto, client
  <2> QED BY <1>2, <2>1, <2>2, <2>3, ShapeKept DEF FindEnd
<1>3. CASE Post(s)
  <2>1. j[s] \in Slot /\ Message(s) \in Mail /\ pos[s] \in Nat
    BY <1>0, <1>3 DEF Post, ShapeOf, ShellsOK, Message, Mail
  <2>2. ASSUME NEW b \in Seq(Mail) PROVE Posted(s, b) \in Seq(Mail)
    <3>1. CASE pos[s] <= Len(b)
      <4>1. SubSeq(b, 1, pos[s]) \in Seq(Mail)
        BY <2>1, <3>1
      <4> QED BY <2>1, <3>1, <4>1 DEF Posted
    <3> QED BY <3>1 DEF Posted
  <2>3. SharedOK'
    BY <1>3, <2>1, <2>2 DEF Post, SharedOK
  <2> QED BY <1>3, <2>3, TypeAdvance DEF Post
<1> QED BY <1>1, <1>2, <1>3 DEF Either

(* A shell in its poll loop.                                                *)
LEMMA TypePoll ==
  ASSUME TypeInv, NEW s \in Session,
         PrintMail(s) \/ BrokenPipe(s) \/ ClearMail(s) \/ NoMail(s) \/ ReadLine(s)
  PROVE  TypeInv'
<1> USE DEF TypeInv, TypeOK, shared, loop, shell, client, Goto
<1>1. ShapeOf(s) /\ UNCHANGED parent
  BY DEF ShapeInv, PrintMail, BrokenPipe, ClearMail, NoMail, ReadLine
<1>2. CASE PrintMail(s)
  <2>1. me[s] \in Slot
    BY <1>1, <1>2, MultiBounds DEF PrintMail, ShapeOf, ShellsOK, Slot
  <2>2. broadcast_msg[me[s]] \in Seq(Mail)
    BY <2>1 DEF SharedOK
  <2>3. News(s, "in") \subseteq Session
    <3>1. \A k \in DOMAIN broadcast_msg[me[s]] : broadcast_msg[me[s]][k] \in Mail
      BY <2>2
    <3> QED BY <3>1 DEF News, Mail
  <2>4. SharedOK' /\ ClientsOK'
    BY <1>2, <2>3 DEF PrintMail, SharedOK, ClientsOK
  <2>5. ShellsOK' /\ Only(s)
    BY <1>2, <2>2 DEF PrintMail, ShellsOK, Only, PCs, ClientsOK
  <2>6. ShapeOf(s)'
    BY <1>1, <1>2 DEF PrintMail, ShapeOf, ShellsOK, ClientsOK
  <2> QED BY <1>1, <2>4, <2>5, <2>6, ShapeKept
<1>3. CASE BrokenPipe(s)
  <2>1. SharedOK' /\ ClientsOK'
    BY <1>3 DEF BrokenPipe, SharedOK, ClientsOK
  <2>2. ShellsOK' /\ Only(s)
    BY <1>3 DEF BrokenPipe, ShellsOK, Only, PCs, ClientsOK
  <2>3. ShapeOf(s)'
    BY <1>1, <1>3 DEF BrokenPipe, ShapeOf, ShellsOK, ClientsOK
  <2> QED BY <1>1, <2>1, <2>2, <2>3, ShapeKept
<1>4. CASE ClearMail(s)
  <2>1. << >> \in Seq(Mail)
    OBVIOUS
  <2>2. SharedOK' /\ ClientsOK'
    BY <1>4, <2>1 DEF ClearMail, SharedOK, ClientsOK
  <2>3. ShellsOK' /\ Only(s)
    BY <1>4, <2>1 DEF ClearMail, ShellsOK, Only, PCs, ClientsOK
  <2>4. ShapeOf(s)'
    BY <1>1, <1>4 DEF ClearMail, ShapeOf, ShellsOK, ClientsOK
  <2> QED BY <1>1, <2>2, <2>3, <2>4, ShapeKept
<1>5. CASE NoMail(s)
  <2>1. SharedOK' /\ ClientsOK'
    BY <1>5 DEF NoMail, SharedOK, ClientsOK
  <2>2. ShellsOK' /\ Only(s)
    BY <1>5 DEF NoMail, ShellsOK, Only, PCs, ClientsOK
  <2>3. ShapeOf(s)'
    BY <1>1, <1>5 DEF NoMail, ShapeOf, ShellsOK, ClientsOK
  <2> QED BY <1>1, <2>1, <2>2, <2>3, ShapeKept
<1>6. CASE ReadLine(s)
  <2>1. SharedOK' /\ ClientsOK'
    BY <1>6 DEF ReadLine, SharedOK, ClientsOK
  <2>2. ShellsOK' /\ Only(s)
    BY <1>6 DEF ReadLine, ShellsOK, Only, PCs, ClientsOK
  <2>3. ShapeOf(s)'
    BY <1>1, <1>6 DEF ReadLine, ShapeOf, ShellsOK, ClientsOK
  <2> QED BY <1>1, <2>1, <2>2, <2>3, ShapeKept
<1> QED BY <1>2, <1>3, <1>4, <1>5, <1>6
(* exit, name and the other built-in commands.                              *)
LEMMA TypeExit ==
  ASSUME TypeInv, NEW s \in Session,
         Exit(s) \/ CleanNext(s) \/ FreeSlot(s) \/ Reset(s) \/ Forget(s)
  PROVE  TypeInv'
<1> USE DEF TypeInv, TypeOK, shared, loop, shell, client, Goto
<1>1. ShapeOf(s) /\ UNCHANGED parent
  BY DEF ShapeInv, Exit, CleanNext, FreeSlot, Reset, Forget
<1>2. me[s] \in Slot
  BY <1>1, MultiBounds DEF Exit, CleanNext, FreeSlot, Reset, Forget, Parsing,
                           ShapeOf, ShellsOK, Slot
<1>3. SharedOK'
  <2>1. CASE Exit(s)
    BY <1>2, <2>1 DEF Exit, SharedOK
  <2>2. CASE CleanNext(s)
    <3>1. j[s] \in Slot /\ Cleaned(s) \subseteq Slot
      BY <2>2 DEF CleanNext, Cleaned, SharedOK
    <3> QED BY <2>2, <3>1 DEF CleanNext, SharedOK
  <2>3. CASE FreeSlot(s) \/ Reset(s)
    <3>1. /\ id_num' = [id_num EXCEPT ![me[s]] = 0]
          /\ UNCHANGED <<name, user_pipe, broadcast_msg>>
      BY <2>3 DEF FreeSlot, Reset
    <3> QED BY <1>2, <3>1, MultiBounds DEF SharedOK
  <2>4. CASE Forget(s)
    <3>1. << >> \in Seq(Mail)
      OBVIOUS
    <3> QED BY <1>2, <2>4, <3>1 DEF Forget, SharedOK
  <2> QED BY <2>1, <2>2, <2>3, <2>4
<1>4. ClientsOK'
  BY DEF Exit, CleanNext, FreeSlot, Reset, Forget, ClientsOK
<1>5. CASE Exit(s)
  <2>1. id_num[me[s]] \in Nat
    BY <1>2, MultiBounds DEF SharedOK
  <2>2. ShellsOK' /\ Only(s)
    BY <1>5, <2>1, MultiBounds DEF Exit, ShellsOK, Only, PCs
  <2>3. ShapeOf(s)'
    BY <1>1, <1>5 DEF Exit, Parsing, ShapeOf, ShellsOK
  <2> QED BY <1>1, <1>3, <1>4, <2>2, <2>3, ShapeKept
<1>6. CASE CleanNext(s)
  <2>1. ShellsOK' /\ Only(s)
    BY <1>6, MultiBounds DEF CleanNext, ShellsOK, Only, Slot
  <2>2. ShapeOf(s)'
    BY <1>1, <1>6, MultiBounds DEF CleanNext, ShapeOf, ShellsOK, Slot
  <2> QED BY <1>1, <1>3, <1>4, <2>1, <2>2, ShapeKept
<1>7. CASE FreeSlot(s)
  <2>1. ShellsOK' /\ Only(s)
    BY <1>7, MultiBounds DEF FreeSlot, Broadcast, ShellsOK, Only, PCs, Kinds, Afters
  <2>2. ShapeOf(s)'
    BY <1>1, <1>7, MultiBounds, MultiNone
       DEF FreeSlot, Broadcast, ShapeOf, ShellsOK, Slot, Kinds, Afters
  <2> QED BY <1>1, <1>3, <1>4, <2>1, <2>2, ShapeKept
<1>8. CASE Reset(s)
  <2>1. ShellsOK' /\ Only(s)
    BY <1>8 DEF Reset, ShellsOK, Only, PCs
  <2>2. ShapeOf(s)'
    BY <1>1, <1>8 DEF Reset, ShapeOf, ShellsOK
  <2> QED BY <1>1, <1>3, <1>4, <2>1, <2>2, ShapeKept
<1>9. CASE Forget(s)
  <2>1. ShellsOK' /\ Only(s)
    BY <1>9, MultiBounds DEF Forget, ShellsOK, Only, PCs, ClientsOK
  <2>2. ShapeOf(s)'
    BY <1>1, <1>9 DEF Forget, ShapeOf, ShellsOK, ClientsOK
  <2> QED BY <1>1, <1>3, <1>4, <2>1, <2>2, ShapeKept
<1> QED BY <1>5, <1>6, <1>7, <1>8, <1>9

LEMMA TypeBuiltIn ==
  ASSUME TypeInv, NEW s \in Session,
         \/ CheckName(s) \/ CheckNext(s) \/ ChangeName(s)
         \/ Yell(s) \/ Tell(s) \/ Local(s) \/ Crash(s)
  PROVE  TypeInv'
<1> USE DEF TypeInv, TypeOK, shared, loop, shell, client, Goto
<1>1. ShapeOf(s) /\ UNCHANGED parent
  BY DEF ShapeInv, CheckName, CheckNext, ChangeName, Yell, Tell, Local, Crash
<1>2. me[s] \in Slot /\ line[s] \in Line
  BY <1>1, MultiBounds, MultiInputs
     DEF CheckName, CheckNext, ChangeName, Yell, Tell, Local, Crash, Parsing,
         ShapeOf, ShellsOK, Slot
<1>3. SharedOK'
  <2>1. CASE ChangeName(s)
    <3>1. line[s].arg \in Names
      BY <1>1, <1>2, <2>1 DEF ChangeName, ShapeOf, Line, Fatal
    <3> QED BY <1>2, <2>1, <3>1 DEF ChangeName, SharedOK
  <2> QED BY <2>1 DEF CheckName, CheckNext, Yell, Tell, Local, Crash, SharedOK
<1>4. ClientsOK'
  BY DEF CheckName, CheckNext, ChangeName, Yell, Tell, Local, Crash, ClientsOK
<1>5. CASE CheckName(s)
  <2>1. ShellsOK' /\ Only(s)
    BY <1>5, MultiBounds DEF CheckName, ShellsOK, Only, PCs
  <2>2. ShapeOf(s)'
    BY <1>1, <1>5 DEF CheckName, Parsing, ShapeOf, ShellsOK
  <2> QED BY <1>1, <1>3, <1>4, <2>1, <2>2, ShapeKept
<1>6. CASE CheckNext(s)
  <2>1. PICK next \in {"flush", "check"}, k \in {0, j[s] + 1} :
           /\ pc' = [pc EXCEPT ![s] = next] /\ j' = [j EXCEPT ![s] = k]
           /\ next = "check" => k = j[s] + 1
    BY <1>6 DEF CheckNext, ShellsOK
  <2>2. k \in 0..(MaxUsers + 1) /\ j[s] + 1 # 0 /\ pc[s] = "check"
        /\ UNCHANGED <<me, line, rest, pos, what, after, buf, client>>
    BY <1>6, <2>1, MultiBounds DEF CheckNext, Slot
  <2>3. ShellsOK' /\ Only(s)
    <3>1. pc' \in [Session -> PCs] /\ j' \in [Session -> 0..(MaxUsers + 1)]
      BY <2>1, <2>2 DEF ShellsOK, PCs
    <3> QED BY <1>1, <2>1, <2>2, <3>1 DEF ShellsOK, Only
  <2>4. ShapeOf(s)'
    BY <1>1, <2>1, <2>2 DEF ShapeOf, ShellsOK
  <2> QED BY <1>1, <1>3, <1>4, <2>3, <2>4, ShapeKept
<1>7. CASE ChangeName(s)
  <2>1. ShellsOK' /\ Only(s)
    BY <1>7, MultiBounds DEF ChangeName, Broadcast, ShellsOK, Only, PCs, Kinds, Afters
  <2>2. ShapeOf(s)'
    BY <1>1, <1>7, MultiBounds, MultiNone
       DEF ChangeName, Broadcast, ShapeOf, ShellsOK, Slot, Kinds, Afters
  <2> QED BY <1>1, <1>3, <1>4, <2>1, <2>2, ShapeKept
<1>8. CASE Yell(s)
  <2>1. ShellsOK' /\ Only(s)
    BY <1>8, MultiBounds DEF Yell, Broadcast, ShellsOK, Only, PCs, Kinds, Afters
  <2>2. ShapeOf(s)'
    BY <1>1, <1>8, MultiBounds, MultiNone
       DEF Yell, Parsing, Broadcast, ShapeOf, ShellsOK, Slot, Kinds, Afters
  <2> QED BY <1>1, <1>3, <1>4, <2>1, <2>2, ShapeKept
<1>9. CASE Tell(s) /\ line[s].to \in Slot /\ id_num[line[s].to] # 0
  <2>1. ShellsOK' /\ Only(s)
    <3>1. /\ pc' = [pc EXCEPT ![s] = "post"] /\ j' = [j EXCEPT ![s] = line[s].to]
          /\ what' = [what EXCEPT ![s] = "told"] /\ after' = [after EXCEPT ![s] = "flush"]
          /\ UNCHANGED <<me, line, rest, pos, buf, client>>
      BY <1>9 DEF Tell
    <3>2. pc' \in [Session -> PCs] /\ j' \in [Session -> 0..(MaxUsers + 1)]
      BY <1>9, <3>1, MultiBounds DEF ShellsOK, PCs, Slot
    <3>3. what' \in [Session -> Kinds \cup {None}] /\ after' \in [Session -> Afters \cup {None}]
      BY <3>1 DEF ShellsOK, Kinds, Afters
    <3>4. ShellsOK'
      BY <1>1, <3>1, <3>2, <3>3 DEF ShellsOK
    <3> QED BY <3>1, <3>4 DEF ShellsOK, Only
  <2>2. ShapeOf(s)'
    BY <1>1, <1>9, MultiBounds, MultiNone
       DEF Tell, Parsing, ShapeOf, ShellsOK, Slot, Kinds, Afters
  <2> QED BY <1>1, <1>3, <1>4, <2>1, <2>2, ShapeKept
<1>10. CASE (Tell(s) /\ ~(line[s].to \in Slot /\ id_num[line[s].to] # 0)) \/ Local(s)
  <2>1. /\ pc[s] = "parse" /\ pc' = [pc EXCEPT ![s] = "flush"]
        /\ UNCHANGED <<me, line, rest, j, pos, what, after, buf, link>>
    BY <1>10 DEF Tell, Local, Parsing
  <2>2. ShellsOK' /\ Only(s)
    BY <1>1, <2>1 DEF ShellsOK, Only, PCs
  <2>3. ShapeOf(s)'
    BY <1>1, <2>1 DEF ShapeOf, ShellsOK
  <2> QED BY <1>1, <1>3, <1>4, <2>2, <2>3, ShapeKept
<1>11. CASE Crash(s)
  <2>1. ShellsOK' /\ Only(s)
    BY <1>11 DEF Crash, ShellsOK, Only, PCs, ClientsOK
  <2>2. ShapeOf(s)'
    BY <1>1, <1>11 DEF Crash, Parsing, ShapeOf, ShellsOK, ClientsOK
  <2> QED BY <1>1, <1>3, <1>4, <2>1, <2>2, ShapeKept
<1> QED BY <1>5, <1>6, <1>7, <1>8, <1>9, <1>10, <1>11
(* exe_bin.                                                                 *)
LEMMA TypeStage ==
  ASSUME TypeInv, NEW s \in Session,
         \/ Run(s) \/ ReadNothing(s) \/ ReadPipe(s) \/ ReadFails(s)
         \/ WriteNothing(s) \/ WritePipe(s) \/ WriteFails(s) \/ Take(s) \/ EndRun(s)
  PROVE  TypeInv'
<1> USE DEF TypeInv, TypeOK, shared, loop, shell, client, Goto
<1>1. ShapeOf(s) /\ UNCHANGED parent
  BY DEF ShapeInv, Run, ReadNothing, ReadPipe, ReadFails, WriteNothing, WritePipe, WriteFails,
         Take, EndRun
<1>2. /\ me[s] \in Slot /\ rest[s] \in Seq(Stage)
      /\ rest[s] # << >> => Tail(rest[s]) \in Seq(Stage)
  BY <1>1, MultiBounds
     DEF Run, ReadNothing, ReadPipe, ReadFails, WriteNothing, WritePipe, WriteFails,
         Take, EndRun, Parsing, ShapeOf, ShellsOK, Slot
<1>3. SharedOK'
  <2>1. CASE WritePipe(s)
    <3>1. Now(s).wr \in Slot
      BY <2>1 DEF WritePipe, CanWrite, Flagged, WithId, SharedOK, Slot
    <3> QED BY <1>2, <2>1, <3>1 DEF WritePipe, SharedOK
  <2>2. CASE Take(s)
    BY <2>2 DEF Take, Taken, SharedOK
  <2> QED BY <2>1, <2>2 DEF Run, ReadNothing, ReadPipe, ReadFails, WriteNothing, WriteFails,
                            EndRun, SharedOK
<1>4. ClientsOK'
  BY DEF Run, ReadNothing, ReadPipe, ReadFails, WriteNothing, WritePipe, WriteFails,
         Take, EndRun, ClientsOK
<1>5. CASE Run(s)
  <2>1. line[s].stages \in Seq(Stage)
    BY <1>1, <1>5, MultiInputs DEF Run, Parsing, ShapeOf, ShellsOK, Line, Fatal
  <2>2. ShellsOK' /\ Only(s)
    BY <1>5, <2>1 DEF Run, ShellsOK, Only, PCs
  <2>3. ShapeOf(s)'
    BY <1>1, <1>5, MultiNone DEF Run, Parsing, ShapeOf, ShellsOK, Afters
  <2> QED BY <1>1, <1>3, <1>4, <2>2, <2>3, ShapeKept
<1>6. CASE ReadNothing(s) \/ WriteNothing(s) \/ EndRun(s)
  <2>1. PICK next \in {"write", "take", "flush"} :
          /\ pc' = [pc EXCEPT ![s] = next]
          /\ pc[s] \in {"stage", "write"} /\ (next # "flush" => rest[s] # << >>)
          /\ UNCHANGED <<me, line, rest, j, pos, what, after, buf, link>>
    BY <1>1, <1>6 DEF ReadNothing, WriteNothing, EndRun, ShapeOf
  <2>2. ShellsOK' /\ Only(s)
    BY <1>1, <2>1 DEF ShellsOK, Only, PCs
  <2>3. ShapeOf(s)'
    BY <1>1, <2>1 DEF ShapeOf, ShellsOK
  <2> QED BY <1>1, <1>3, <1>4, <2>2, <2>3, ShapeKept
<1>7. CASE ReadPipe(s) \/ WritePipe(s)
  <2>1. PICK kind \in {"received", "piped"}, then \in {"write", "take"} :
          /\ pc' = [pc EXCEPT ![s] = "cast"] /\ j' = [j EXCEPT ![s] = 1]
          /\ what' = [what EXCEPT ![s] = kind] /\ after' = [after EXCEPT ![s] = then]
          /\ pc[s] \in {"stage", "write"} /\ rest[s] # << >>
          /\ UNCHANGED <<me, line, rest, pos, buf, link>>
    BY <1>1, <1>7 DEF ReadPipe, WritePipe, Broadcast, ShapeOf
  <2>2. ShellsOK' /\ Only(s)
    <3>1. pc' \in [Session -> PCs] /\ j' \in [Session -> 0..(MaxUsers + 1)]
      BY <2>1, MultiBounds DEF ShellsOK, PCs
    <3>2. what' \in [Session -> Kinds \cup {None}] /\ after' \in [Session -> Afters \cup {None}]
      BY <2>1 DEF ShellsOK, Kinds, Afters
    <3> QED BY <1>1, <2>1, <3>1, <3>2 DEF ShellsOK, Only
  <2>3. ShapeOf(s)'
    BY <1>1, <2>1, MultiBounds, MultiNone DEF ShapeOf, ShellsOK, Slot, Kinds, Afters
  <2> QED BY <1>1, <1>3, <1>4, <2>2, <2>3, ShapeKept
<1>8. CASE ReadFails(s) \/ WriteFails(s) \/ Take(s)
  <2>1. PICK next \in {"stage", "killed"} :
          /\ pc' = [pc EXCEPT ![s] = next]
          /\ link' = [link EXCEPT ![s] = IF next = "killed" THEN "closed" ELSE @]
          /\ rest' = [rest EXCEPT ![s] = Tail(@)]
          /\ pc[s] \in {"stage", "write", "take"} /\ rest[s] # << >>
          /\ UNCHANGED <<me, line, j, pos, what, after, buf>>
    <3>1. CASE ReadFails(s) \/ WriteFails(s)
      BY <1>1, <3>1 DEF ReadFails, WriteFails, Skip, ShapeOf, ShellsOK, ClientsOK
    <3>2. CASE Take(s)
      BY <1>1, <3>2 DEF Take, Skip, ShapeOf
    <3> QED BY <1>8, <3>1, <3>2
  <2>2. ShellsOK' /\ Only(s)
    <3>1. pc' \in [Session -> PCs] /\ rest' \in [Session -> Seq(Stage)]
      BY <1>2, <2>1 DEF ShellsOK, PCs
    <3> QED BY <1>1, <2>1, <3>1 DEF ShellsOK, Only, ClientsOK
  <2>3. ShapeOf(s)'
    BY <1>1, <2>1, MultiNone DEF ShapeOf, ShellsOK, ClientsOK, Afters
  <2> QED BY <1>1, <1>3, <1>4, <2>2, <2>3, ShapeKept
<1> QED BY <1>5, <1>6, <1>7, <1>8

LEMMA TypeStep == TypeInv /\ [Next]_vars => TypeInv'
<1> SUFFICES ASSUME TypeInv, [Next]_vars PROVE TypeInv'
  OBVIOUS
<1>1. CASE UNCHANGED vars
  BY <1>1 DEF TypeInv, TypeOK, SharedOK, ShellsOK, ClientsOK, ShapeInv, ShapeOf, vars, shared,
              shell, loop, client
<1>2. ASSUME NEW s \in Session, Shell(s) PROVE TypeInv'
  BY <1>2, TypePoll, TypeExit, TypeBuiltIn, TypeStage DEF Shell
<1> QED BY <1>1, <1>2, TypeClients, TypeCast DEF Next

(* In every execution the shared memory and the variables of every process  *)
(* have the types they are declared with, whatever the processes overwrite  *)
(* of each other: no loop over the slots runs past them, and no stage of a  *)
(* line is looked at when there is none (broadcast, exe_bin, main).         *)
THEOREM MultiTypeCorrect == Spec => []TypeOK
<1>1. TypeInv => TypeOK
  BY DEF TypeInv
<1> QED BY <1>1, TypeInit, TypeStep, PTL DEF Spec

-------------------------------------------------------------------------------
(***************************************************************************)
(* Who owns a slot in np_multi_proc, and that it serves as RwgService      *)
(* says.  Neither holds of clients that do what they like: while one shell *)
(* leaves, the parent may pass over the slot it frees or hand it out       *)
(* before it is clean.  The theorems are for clients that take turns, and  *)
(* for clients that act at once and do not leave.                          *)
(***************************************************************************)

NoExit   == \A l \in Inputs : l.op # "exit"
NoRename == \A l \in Inputs : l.op # "name"

(* No more clients at a time than slots: give_available_id takes it that    *)
(* one is free.                                                             *)
EnoughSlots == MaxOnline <= MaxUsers

-------------------------------------------------------------------------------
(* With turns, one process works at a time.  Without exit, no slot is ever  *)
(* given back.                                                              *)
Active(s) == \/ link[s] = "backlog" \/ inbox[s] # None
             \/ pc[s] \notin {"none", "idle", "clear", "gone", "killed"}
TurnInv == /\ Serial => \A s, t \in Session : Active(s) /\ Active(t) => s = t
           /\ NoExit => \A s \in Session : ~Leaving(s) /\ pc[s] # "gone"

(* A slot has the id of the one session that owns it, until exit took the   *)
(* id back; a slot with an id is owned; the parent passed over used slots.  *)
Freed(s) == after[s] = "reset" \/ pc[s] \in {"reset", "forget"}
SlotInv == /\ \A s \in Session : me[s] # 0 => id_num[me[s]] = IF Freed(s) THEN 0 ELSE me[s]
           /\ \A s, t \in Session : me[s] = me[t] /\ me[s] # 0 => s = t
           /\ \A i \in Slot : id_num[i] # 0 => \E s \in Session : me[s] = i
           /\ \A s \in Session : pc[s] = "scan" =>
                \A i \in Slot : i < j[s] => id_num[i] # 0

(* A client that is connected, or that left its slot behind, counts.        *)
Counted  == {s \in Session : link[s] \notin {"off", "closed"} \/ pc[s] = "killed"}
CountInv == IsFiniteSet(Counted) /\ Cardinality(Counted) <= MaxOnline

OwnerInv == TypeInv /\ TurnInv /\ SlotInv /\ CountInv

-------------------------------------------------------------------------------
(* A step of one session's process, or of its client, does not touch what   *)
(* the others keep.                                                         *)
Process(s) == Parent(s) \/ Shell(s) \/ Either(s)

LEMMA StepIsOfOne ==
  ASSUME TypeOK, NEW s \in Session, Process(s) \/ Client(s)
  PROVE  Only(s) /\ \A t \in Session \ {s} : inbox'[t] = inbox[t]
<1> USE DEF TypeOK, ShellsOK, ClientsOK, Only, shell, loop, client, Goto, Broadcast
<1>1. CASE Client(s) \/ Parent(s)
  BY <1>1 DEF Client, Connect, HangUp, Send, Parent, Accept, ScanNext, Claim, Fork
<1>2. CASE Either(s)
  BY <1>2 DEF Either, Pass, FindEnd, Post, Advance
<1>3. CASE PrintMail(s) \/ BrokenPipe(s) \/ ClearMail(s) \/ NoMail(s) \/ ReadLine(s)
  BY <1>3 DEF PrintMail, BrokenPipe, ClearMail, NoMail, ReadLine
<1>4. CASE Exit(s) \/ CleanNext(s) \/ FreeSlot(s) \/ Reset(s) \/ Forget(s)
  BY <1>4 DEF Exit, CleanNext, FreeSlot, Reset, Forget
<1>5. CASE CheckName(s) \/ CheckNext(s) \/ ChangeName(s)
  BY <1>5 DEF CheckName, CheckNext, ChangeName
<1>6. CASE Yell(s) \/ Tell(s) \/ Local(s) \/ Crash(s)
  BY <1>6 DEF Yell, Tell, Local, Crash
<1>7. CASE Run(s) \/ ReadNothing(s) \/ ReadPipe(s) \/ ReadFails(s)
  BY <1>7 DEF Run, ReadNothing, ReadPipe, ReadFails, Skip
<1>8. CASE WriteNothing(s) \/ WritePipe(s) \/ WriteFails(s) \/ Take(s) \/ EndRun(s)
  BY <1>8 DEF WriteNothing, WritePipe, WriteFails, Take, EndRun, Skip
<1> QED BY <1>1, <1>2, <1>3, <1>4, <1>5, <1>6, <1>7, <1>8 DEF Process, Shell
(* Of what a process does, only accept brings it to work, and only exit     *)
(* makes it leave.                                                          *)
LEMMA ProcessStays ==
  ASSUME TypeInv, NEW s \in Session, Process(s)
  PROVE  /\ Active(s)' => Active(s)
         /\ s \in Counted' => s \in Counted
         /\ (Leaving(s)' => Leaving(s)) \/ Exit(s)
         /\ pc'[s] = "gone" => pc[s] = "gone" \/ Leaving(s)
<1> USE DEF TypeInv, TypeOK, ShellsOK, ClientsOK, Active, Counted, Leaving, shell, loop, client,
            Goto, Broadcast
<1>0. ShapeOf(s)
  BY DEF ShapeInv
<1>1. CASE Parent(s)
  BY <1>0, <1>1 DEF Parent, Accept, ScanNext, Claim, Fork, ShapeOf
<1>2. CASE Either(s)
  <2>1. pc[s] \in {"cast", "post"} /\ after[s] \in Afters /\ UNCHANGED <<link, inbox>>
    BY <1>0, <1>2 DEF Either, Pass, FindEnd, Post, ShapeOf
  <2>2. \/ pc'[s] \in {"cast", "post"} /\ after' = after
        \/ pc'[s] = after[s] /\ after'[s] = None
    BY <1>2 DEF Either, Pass, FindEnd, Post, Advance
  <2> QED BY <2>1, <2>2, MultiNone DEF Afters
<1>3. CASE PrintMail(s) \/ BrokenPipe(s) \/ ClearMail(s) \/ NoMail(s) \/ ReadLine(s)
  BY <1>0, <1>3 DEF PrintMail, BrokenPipe, ClearMail, NoMail, ReadLine, ShapeOf
<1>4. CASE Exit(s) \/ CleanNext(s) \/ FreeSlot(s) \/ Reset(s) \/ Forget(s)
  BY <1>0, <1>4 DEF Exit, CleanNext, FreeSlot, Reset, Forget, Parsing, ShapeOf
<1>5. CASE CheckName(s) \/ CheckNext(s) \/ ChangeName(s)
  BY <1>0, <1>5 DEF CheckName, CheckNext, ChangeName, Parsing, ShapeOf
<1>6. CASE Yell(s) \/ Tell(s) \/ Local(s) \/ Crash(s)
  BY <1>0, <1>6 DEF Yell, Tell, Local, Crash, Parsing, ShapeOf
<1>7. CASE Run(s) \/ ReadNothing(s) \/ ReadPipe(s) \/ ReadFails(s)
  BY <1>0, <1>7 DEF Run, ReadNothing, ReadPipe, ReadFails, Parsing, Skip, ShapeOf
<1>8. CASE WriteNothing(s) \/ WritePipe(s) \/ WriteFails(s) \/ Take(s) \/ EndRun(s)
  BY <1>0, <1>8 DEF WriteNothing, WritePipe, WriteFails, Take, EndRun, Skip, ShapeOf
<1> QED BY <1>1, <1>2, <1>3, <1>4, <1>5, <1>6, <1>7, <1>8 DEF Process, Shell

LEMMA TurnStep == TypeInv /\ TurnInv /\ [Next]_vars => TurnInv'
<1> SUFFICES ASSUME TypeInv, TurnInv, [Next]_vars PROVE TurnInv'
  OBVIOUS
<1>1. ASSUME NEW s \in Session, Process(s) \/ Client(s)
      PROVE  \A t \in Session \ {s} : (Active(t)' => Active(t)) /\ (Leaving(t)' => Leaving(t))
                                      /\ pc'[t] = pc[t]
  BY <1>1, StepIsOfOne DEF Only, Active, Leaving, TypeInv
<1>2. ASSUME NEW s \in Session, Process(s) PROVE TurnInv'
  <2>1. NoExit => ~Exit(s)
    BY DEF NoExit, Exit, Parsing, TypeInv, TypeOK, ShellsOK, ShapeInv, ShapeOf
  <2>2. NoExit => ~Leaving(s)' /\ pc'[s] # "gone"
    BY <1>2, <2>1, ProcessStays DEF TurnInv
  <2>3. ASSUME Serial, NEW t \in Session, NEW u \in Session, Active(t)', Active(u)' PROVE t = u
    BY <1>1, <1>2, <2>3, ProcessStays DEF TurnInv
  <2> QED BY <1>1, <1>2, <2>2, <2>3 DEF TurnInv
<1>3. ASSUME NEW s \in Session, Client(s) PROVE TurnInv'
  <2>1. UNCHANGED <<pc, after>>
    BY <1>3 DEF Client, Connect, Send, HangUp, shell, loop
  <2>2. NoExit => ~Leaving(s)' /\ pc'[s] # "gone"
    BY <2>1 DEF TurnInv, Leaving
  <2>3. CASE HangUp(s)
    <3>1. Active(s)' => Active(s)
      BY <2>1, <2>3 DEF HangUp, Active, TypeInv, TypeOK, ClientsOK
    <3> QED BY <1>1, <1>3, <2>2, <3>1 DEF TurnInv
  <2>4. CASE ~HangUp(s)
    <3>1. Serial => \A t \in Session : ~Active(t)
      BY <1>3, <2>4 DEF Client, Connect, Send, AtRest, Active
    <3> QED BY <1>1, <1>3, <2>2, <3>1 DEF TurnInv
  <2> QED BY <2>3, <2>4
<1>4. CASE UNCHANGED vars
  BY <1>4 DEF vars, shell, loop, client, TurnInv, Active, Leaving
<1> QED BY <1>2, <1>3, <1>4 DEF Next, Process
LEMMA CountStep == TypeInv /\ CountInv /\ [Next]_vars => CountInv'
<1> SUFFICES ASSUME TypeInv, CountInv, [Next]_vars PROVE CountInv'
  OBVIOUS
<1>1. ASSUME Counted' \subseteq Counted PROVE CountInv'
  <2>1. IsFiniteSet(Counted') /\ Cardinality(Counted') <= Cardinality(Counted)
    BY <1>1, FS_Subset DEF CountInv
  <2>2. Cardinality(Counted') \in Nat /\ Cardinality(Counted) \in Nat /\ MaxOnline \in Nat
    BY <2>1, FS_CardinalityType, MultiBounds DEF CountInv
  <2> QED BY <2>1, <2>2 DEF CountInv
<1>2. ASSUME NEW s \in Session, Connect(s) PROVE CountInv'
  <2>1. Cardinality(Counted) < MaxOnline /\ Counted' = Counted \cup {s}
    BY <1>2 DEF Connect, Counted, TypeInv, TypeOK, ClientsOK
  <2>2. IsFiniteSet(Counted') /\ Cardinality(Counted') <= Cardinality(Counted) + 1
    <3>1. Cardinality(Counted) \in Nat /\ IsFiniteSet(Counted)
      BY FS_CardinalityType DEF CountInv
    <3>2. /\ IsFiniteSet(Counted \cup {s})
          /\ Cardinality(Counted \cup {s}) <= Cardinality(Counted) + 1
      BY <3>1, FS_AddElement
    <3> QED BY <2>1, <3>2
  <2>3. Cardinality(Counted') \in Nat /\ Cardinality(Counted) \in Nat /\ MaxOnline \in Nat
    BY <2>2, FS_CardinalityType, MultiBounds DEF CountInv
  <2> QED BY <2>1, <2>2, <2>3 DEF CountInv
<1>3. ASSUME NEW s \in Session, HangUp(s) \/ \E l \in Inputs : Send(s, l) PROVE CountInv'
  BY <1>1, <1>3 DEF HangUp, Send, Counted, TypeInv, TypeOK, ClientsOK
<1>4. ASSUME NEW s \in Session, Process(s) PROVE CountInv'
  <2>1. \A t \in Session \ {s} : t \in Counted' => t \in Counted
    BY <1>4, StepIsOfOne DEF Only, Counted, TypeInv
  <2>2. Counted' \subseteq Session
    BY DEF Counted
  <2> QED BY <1>1, <1>4, <2>1, <2>2, ProcessStays
<1>5. CASE UNCHANGED vars
  BY <1>1, <1>5 DEF vars, client, Counted
<1> QED BY <1>2, <1>3, <1>4, <1>5 DEF Next, Process, Client

(* Whoever waits for a slot finds one: the others have one each at most,    *)
(* and all of them are counted.                                             *)
LEMMA SlotIsLeft ==
  ASSUME EnoughSlots, OwnerInv, NEW s \in Session, pc[s] = "scan"
  PROVE  \E i \in Slot : id_num[i] = 0
<1> SUFFICES ASSUME \A i \in Slot : id_num[i] # 0 PROVE FALSE
  OBVIOUS
<1> DEFINE Placed == {t \in Session : me[t] # 0}
           f      == [t \in Placed |-> me[t]]
           I      == {me[t] : t \in Placed}
<1>1. Placed \subseteq Counted /\ s \in Counted /\ s \notin Placed
  BY DEF OwnerInv, TypeInv, ShapeInv, ShapeOf, Counted
<1>2. IsFiniteSet(Placed) /\ Cardinality(Placed) < Cardinality(Counted)
  <2> HIDE DEF Placed
  <2>1. IsFiniteSet(Placed) /\ Cardinality(Placed) <= Cardinality(Counted)
    BY <1>1, FS_Subset DEF OwnerInv, CountInv
  <2>2. Cardinality(Counted) # Cardinality(Placed)
    BY <1>1, FS_Subset DEF OwnerInv, CountInv
  <2> QED BY <2>1, <2>2, FS_CardinalityType DEF OwnerInv, CountInv
<1>3. f \in Surjection(Placed, I)
  BY DEF Surjection
<1>4. IsFiniteSet(I) /\ Cardinality(I) <= Cardinality(Placed)
  <2> HIDE DEF Placed, f, I
  <2> QED BY <1>2, <1>3, FS_Surjection
<1>5. MaxUsers \in Nat /\ MaxOnline \in Nat
  BY MultiBounds
<1>6. IsFiniteSet(Slot) /\ Cardinality(Slot) = MaxUsers
  BY <1>5, FS_Interval DEF Slot
<1>7. Slot \in SUBSET I
  <2>1. \A i \in Slot : i # 0
    BY <1>5 DEF Slot
  <2> QED BY <2>1 DEF OwnerInv, SlotInv
<1> HIDE DEF Placed, f, I
<1>8. Cardinality(Slot) <= Cardinality(I)
  BY <1>4, <1>7, FS_Subset
<1>9. /\ Cardinality(I) \in Nat /\ Cardinality(Placed) \in Nat /\ Cardinality(Counted) \in Nat
      /\ Cardinality(Counted) <= MaxOnline
  BY <1>2, <1>4, FS_CardinalityType DEF OwnerInv, CountInv
<1> QED BY <1>2, <1>4, <1>5, <1>6, <1>8, <1>9 DEF EnoughSlots

(* Whoever gives its slot back is the only one at work.                     *)
LEMMA Alone ==
  ASSUME Serial \/ NoExit, TypeInv, TurnInv, NEW s \in Session, NEW t \in Session,
         Leaving(s), Active(t)
  PROVE  s = t
<1>1. Leaving(s) => Active(s)
  BY MultiNone DEF Active, Leaving, TypeInv, ShapeInv, ShapeOf, Afters
<1> QED BY <1>1 DEF TurnInv

-------------------------------------------------------------------------------
(* SlotInv.                                                                 *)
LEMMA SlotKept ==
  ASSUME OwnerInv, NEW s \in Session, Only(s), UNCHANGED <<id_num, me>>,
         Freed(s)' <=> Freed(s),
         pc'[s] = "scan" => \A i \in Slot : i < j'[s] => id_num[i] # 0
  PROVE  SlotInv'
<1>1. \A t \in Session \ {s} : (Freed(t)' <=> Freed(t)) /\ pc'[t] = pc[t] /\ j'[t] = j[t]
  BY DEF Only, Freed
<1> QED BY <1>1 DEF OwnerInv, SlotInv

LEMMA SlotClaim ==
  ASSUME Serial \/ NoExit, EnoughSlots, OwnerInv, NEW s \in Session, Claim(s), Only(s)
  PROVE  SlotInv' /\ j[s] \in Slot /\ \A t \in Session : me[t] # j[s]
<1> USE DEF OwnerInv
<1>1. pc[s] = "scan" /\ me[s] = 0 /\ parent = s
  BY DEF Claim, TypeInv, ShapeInv, ShapeOf
<1>2. j[s] \in Slot /\ id_num[j[s]] = 0
  <2>1. PICK i \in Slot : id_num[i] = 0
    BY <1>1, SlotIsLeft
  <2>2. ~(i < j[s]) /\ j[s] \in 0..(MaxUsers + 1) /\ j[s] # 0
    BY <1>1, <2>1 DEF SlotInv, TypeInv, TypeOK, ShellsOK, ShapeInv, ShapeOf
  <2>3. j[s] \in Slot
    BY <2>1, <2>2, MultiBounds DEF Slot
  <2> QED BY <2>3 DEF Claim, Vacant
<1>3. \A t \in Session : me[t] # j[s]
  <2> SUFFICES ASSUME NEW t \in Session, me[t] = j[s] PROVE FALSE
    OBVIOUS
  <2>1. me[t] # 0 /\ Freed(t)
    BY <1>2, MultiBounds DEF SlotInv, Slot
  <2>2. Leaving(t) /\ Active(s)
    BY <1>1, <2>1 DEF Freed, Leaving, Active
  <2> QED BY <1>1, <2>1, <2>2, Alone
<1>4. /\ me' = [me EXCEPT ![s] = j[s]] /\ id_num' = [id_num EXCEPT ![j[s]] = j[s]]
      /\ pc'[s] = "cast" /\ after'[s] = "fork"
  BY <1>2 DEF Claim, Broadcast, Goto, TypeInv, TypeOK, ShellsOK
<1>5. me \in [Session -> 0..MaxUsers] /\ id_num \in [Slot -> 0..MaxUsers] /\ j[s] # 0
  BY <1>1 DEF TypeInv, TypeOK, ShellsOK, SharedOK, ShapeInv, ShapeOf
<1>6. \A t \in Session : me'[t] # 0 => id_num'[me'[t]] = IF Freed(t)' THEN 0 ELSE me'[t]
  <2>1. ASSUME NEW t \in Session, t # s, me'[t] # 0
        PROVE  id_num'[me'[t]] = IF Freed(t)' THEN 0 ELSE me'[t]
    <3>1. me'[t] = me[t] /\ me[t] # j[s] /\ me[t] \in Slot /\ (Freed(t)' <=> Freed(t))
      BY <1>3, <1>4, <1>5, <2>1, MultiBounds DEF Only, Freed, Slot
    <3> QED BY <1>4, <1>5, <2>1, <3>1 DEF SlotInv
  <2>2. ~Freed(s)'
    BY <1>4 DEF Freed
  <2> QED BY <1>2, <1>4, <1>5, <2>1, <2>2
<1>7. \A t, u \in Session : me'[t] = me'[u] /\ me'[t] # 0 => t = u
  BY <1>3, <1>4, <1>5 DEF SlotInv
<1>8. \A i \in Slot : id_num'[i] # 0 => \E t \in Session : me'[t] = i
  <2> SUFFICES ASSUME NEW i \in Slot, id_num'[i] # 0, i # j[s]
               PROVE  \E t \in Session : me'[t] = i
    BY <1>4, <1>5
  <2>1. PICK t \in Session : me[t] = i
    BY <1>4, <1>5 DEF SlotInv
  <2>2. me'[t] = i
    BY <1>1, <1>4, <1>5, <2>1, MultiBounds DEF Slot
  <2> QED BY <2>2
<1>9. \A t \in Session : pc'[t] # "scan"
  BY <1>1, <1>4 DEF Only, TypeInv, ShapeInv, ShapeOf
<1> QED BY <1>2, <1>3, <1>6, <1>7, <1>8, <1>9 DEF SlotInv

LEMMA SlotExit ==
  ASSUME Serial \/ NoExit, OwnerInv, NEW s \in Session, Only(s),
         FreeSlot(s) \/ Reset(s) \/ Forget(s)
  PROVE  SlotInv'
<1> USE DEF OwnerInv
<1>1. Leaving(s) /\ pc[s] # "scan" /\ me[s] \in Slot /\ pc'[s] # "scan"
  BY MultiBounds DEF FreeSlot, Reset, Forget, Broadcast, Leaving, Goto, TypeInv, TypeOK, ShellsOK,
                     ShapeInv, ShapeOf, Slot
<1>2. \A t \in Session : pc'[t] # "scan"
  <2>1. \A t \in Session : pc[t] = "scan" => t = s
    BY <1>1, Alone DEF Active
  <2> QED BY <1>1, <2>1 DEF Only
<1>3. \A t \in Session \ {s} : (Freed(t)' <=> Freed(t)) /\ me'[t] = me[t] /\ me[t] # me[s]
  BY <1>1, MultiBounds DEF Only, Freed, SlotInv, Slot
<1>4. me \in [Session -> 0..MaxUsers] /\ id_num \in [Slot -> 0..MaxUsers]
  BY DEF TypeInv, TypeOK, ShellsOK, SharedOK
<1>5. CASE FreeSlot(s) \/ Reset(s)
  <2>1. id_num' = [id_num EXCEPT ![me[s]] = 0] /\ me' = me /\ Freed(s)'
    BY <1>5 DEF FreeSlot, Reset, Broadcast, Goto, Freed, shell, TypeInv, TypeOK, ShellsOK
  <2>2. \A t \in Session : me'[t] # 0 => id_num'[me'[t]] = IF Freed(t)' THEN 0 ELSE me'[t]
    <3>1. \A t \in Session : me[t] # 0 => me[t] \in Slot
      BY <1>4, MultiBounds DEF Slot
    <3> QED BY <1>1, <1>3, <1>4, <2>1, <3>1 DEF SlotInv
  <2>3. \A i \in Slot : id_num'[i] # 0 => \E t \in Session : me'[t] = i
    BY <1>4, <2>1 DEF SlotInv
  <2>4. \A t, u \in Session : me'[t] = me'[u] /\ me'[t] # 0 => t = u
    BY <2>1 DEF SlotInv
  <2> QED BY <1>2, <2>2, <2>3, <2>4 DEF SlotInv
<1>6. CASE Forget(s)
  <2>1. id_num' = id_num /\ me' = [me EXCEPT ![s] = 0] /\ Freed(s)
    BY <1>6 DEF Forget, Freed
  <2>2. \A t \in Session : me'[t] # 0 => id_num'[me'[t]] = IF Freed(t)' THEN 0 ELSE me'[t]
    BY <1>3, <1>4, <2>1 DEF SlotInv
  <2>3. \A i \in Slot : id_num'[i] # 0 => \E t \in Session : me'[t] = i
    BY <1>1, <1>4, <2>1, MultiBounds DEF SlotInv, Slot
  <2>4. \A t, u \in Session : me'[t] = me'[u] /\ me'[t] # 0 => t = u
    BY <1>4, <2>1 DEF SlotInv
  <2> QED BY <1>2, <2>2, <2>3, <2>4 DEF SlotInv
<1> QED BY <1>5, <1>6
LEMMA SlotStep ==
  ASSUME Serial \/ NoExit, EnoughSlots, OwnerInv, [Next]_vars PROVE SlotInv'
<1> USE DEF OwnerInv, TypeInv, TypeOK, ShellsOK, shared, shell, loop, Goto, Broadcast
<1>1. CASE UNCHANGED vars
  BY <1>1 DEF vars, SlotInv, Freed
<1>2. ASSUME NEW s \in Session, Client(s) PROVE SlotInv'
  BY <1>2 DEF Client, Connect, HangUp, Send, SlotInv, Freed
<1>3. ASSUME NEW s \in Session, Process(s) PROVE SlotInv'
  <2>1. Only(s) /\ ShapeOf(s)
    BY <1>3, StepIsOfOne DEF ShapeInv
  <2>2. CASE Claim(s) \/ FreeSlot(s) \/ Reset(s) \/ Forget(s)
    BY <2>1, <2>2, SlotClaim, SlotExit
  <2>3. CASE Accept(s) \/ ScanNext(s) \/ Fork(s)
    <3>1. UNCHANGED <<id_num, me>> /\ (Freed(s)' <=> Freed(s))
      BY <2>1, <2>3 DEF Accept, ScanNext, Fork, Freed, ShapeOf
    <3>2. pc'[s] = "scan" => \A i \in Slot : i < j'[s] => id_num[i] # 0
      <4>1. CASE Accept(s)
        BY <4>1 DEF Accept, Slot
      <4>2. CASE ScanNext(s)
        BY <4>2, MultiBounds DEF ScanNext, SlotInv, Slot, Vacant
      <4>3. CASE Fork(s)
        BY <4>3 DEF Fork
      <4> QED BY <2>3, <4>1, <4>2, <4>3
    <3> QED BY <2>1, <3>1, <3>2, SlotKept
  <2>4. CASE Either(s)
    <3>1. UNCHANGED <<id_num, me>> /\ pc[s] \in {"cast", "post"} /\ after[s] \in Afters
      BY <2>1, <2>4 DEF Either, Pass, FindEnd, Post, ShapeOf
    <3>2. \/ pc'[s] \in {"cast", "post"} /\ after' = after
          \/ pc'[s] = after[s] /\ after'[s] = None
      BY <2>4 DEF Either, Pass, FindEnd, Post, Advance
    <3>3. (Freed(s)' <=> Freed(s)) /\ pc'[s] # "scan"
      BY <2>1, <3>1, <3>2, MultiNone DEF Freed, Afters
    <3> QED BY <2>1, <3>1, <3>3, SlotKept
  <2>5. CASE Shell(s) /\ ~(FreeSlot(s) \/ Reset(s) \/ Forget(s))
    <3>1. UNCHANGED <<id_num, me>> /\ after[s] = None
          /\ pc'[s] \notin {"scan", "reset", "forget"} /\ after'[s] \in {None, "flush", "write", "take"}
      <4>1. CASE PrintMail(s) \/ BrokenPipe(s) \/ ClearMail(s) \/ NoMail(s) \/ ReadLine(s)
        BY <2>1, <4>1 DEF PrintMail, BrokenPipe, ClearMail, NoMail, ReadLine, ShapeOf
      <4>2. CASE Exit(s) \/ CleanNext(s)
        BY <2>1, <4>2 DEF Exit, CleanNext, Parsing, ShapeOf
      <4>3. CASE CheckName(s) \/ CheckNext(s) \/ ChangeName(s)
        BY <2>1, <4>3 DEF CheckName, CheckNext, ChangeName, Parsing, ShapeOf
      <4>4. CASE Yell(s) \/ Tell(s) \/ Local(s) \/ Crash(s)
        BY <2>1, <4>4 DEF Yell, Tell, Local, Crash, Parsing, ShapeOf
      <4>5. CASE Run(s) \/ ReadNothing(s) \/ ReadPipe(s) \/ ReadFails(s)
        BY <2>1, <4>5 DEF Run, ReadNothing, ReadPipe, ReadFails, Parsing, Skip, ShapeOf
      <4>6. CASE WriteNothing(s) \/ WritePipe(s) \/ WriteFails(s) \/ Take(s) \/ EndRun(s)
        BY <2>1, <4>6 DEF WriteNothing, WritePipe, WriteFails, Take, EndRun, Skip, ShapeOf
      <4> QED BY <2>5, <4>1, <4>2, <4>3, <4>4, <4>5, <4>6 DEF Shell
    <3>2. pc[s] \notin {"reset", "forget"}
      BY <2>5 DEF Shell, PrintMail, BrokenPipe, ClearMail, NoMail, ReadLine, Exit, CleanNext,
                  CheckName, CheckNext, ChangeName, Yell, Tell, Local, Crash, Parsing, Run,
                  ReadNothing, ReadPipe, ReadFails, WriteNothing, WritePipe, WriteFails, Take,
                  EndRun
    <3>3. ~Freed(s) /\ ~Freed(s)'
      BY <3>1, <3>2, MultiNone DEF Freed, Afters
    <3> QED BY <2>1, <3>1, <3>3, SlotKept
  <2> QED BY <1>3, <2>2, <2>3, <2>4, <2>5 DEF Process, Parent
<1> QED BY <1>1, <1>2, <1>3 DEF Next, Process

LEMMA OwnerInit == Init => OwnerInv
<1> SUFFICES ASSUME Init PROVE OwnerInv
  OBVIOUS
<1>1. Counted = {}
  BY DEF Init, Counted
<1>2. CountInv
  BY <1>1, FS_EmptySet, MultiBounds DEF CountInv
<1>3. TurnInv /\ SlotInv
  BY MultiNone DEF Init, TurnInv, SlotInv, Active, Leaving, Afters
<1> QED BY <1>2, <1>3, TypeInit DEF OwnerInv

LEMMA OwnerStep ==
  ASSUME Serial \/ NoExit, EnoughSlots, OwnerInv, [Next]_vars PROVE OwnerInv'
BY TypeStep, TurnStep, CountStep, SlotStep DEF OwnerInv

(* Between clients that take turns, and between clients that act at once    *)
(* and do not type exit, a slot is never two users': each keeps the id that *)
(* the parent found for it, because no id is zero again behind the place    *)
(* the parent's scan has come to and the scan finds a zero before the end   *)
(* (give_available_id, exit, reset_logout_user).                            *)
THEOREM SlotsHaveOneOwner ==
  ASSUME Serial \/ NoExit, EnoughSlots PROVE Spec => []OneOwner
<1>1. OwnerInv /\ [Next]_vars => OwnerInv'
  BY OwnerStep
<1>2. OwnerInv => OneOwner
  BY DEF OwnerInv, SlotInv, OneOwner, LoggedIn, Leaving, Freed
<1> QED BY <1>1, <1>2, OwnerInit, PTL DEF Spec

-------------------------------------------------------------------------------
(* A slot without owner has no name, and a name is compared to every slot   *)
(* before it is taken.                                                      *)
NameInv == /\ \A i \in Slot : name[i] # NoName => \E s \in Session : me[s] = i
           /\ \A s \in Session : pc[s] = "check" =>
                \A i \in Slot : i < j[s] /\ i # me[s] /\ id_num[i] # 0 => name[i] # line[s].arg

(* A pipe joins two slots that are owned; whoever leaves makes none, and    *)
(* has none behind the place its clean up has come to.                      *)
PipeInv == /\ \A i \in Slot : \A k \in user_pipe[i] :
                (\E s \in Session : me[s] = i) /\ (\E t \in Session : me[t] = k)
           /\ \A s \in Session : Leaving(s) =>
                /\ user_pipe[me[s]] = {}
                /\ pc[s] = "clean" => pos[s] = me[s]
                /\ \A i \in Slot : me[s] \in user_pipe[i] => pc[s] = "clean" /\ j[s] <= i

ServiceInv == OwnerInv /\ NameInv /\ PipeInv

(* The steps of which users see something, or that undo what they saw.      *)
Telling(s) == \/ Claim(s) \/ ChangeName(s) \/ WritePipe(s) \/ Take(s)
              \/ Exit(s) \/ CleanNext(s) \/ FreeSlot(s) \/ Reset(s) \/ Forget(s)

LEMMA SilentProcess ==
  ASSUME TypeInv, NEW s \in Session, Process(s), ~Telling(s)
  PROVE  /\ UNCHANGED <<id_num, name, user_pipe, me>>
         /\ Leaving(s)' <=> Leaving(s)
         /\ pc[s] # "clean" /\ pc'[s] # "clean"
         /\ pc'[s] = "check" => CheckName(s) \/ CheckNext(s)
<1> USE DEF TypeInv, TypeOK, ShellsOK, shared, shell, loop, Goto, Broadcast
<1>0. ShapeOf(s)
  BY DEF ShapeInv
<1>1. CASE Accept(s) \/ ScanNext(s) \/ Fork(s)
  BY <1>0, <1>1 DEF Accept, ScanNext, Fork, Leaving, ShapeOf
<1>2. CASE Either(s)
  <2>1. /\ UNCHANGED <<id_num, name, user_pipe, me>>
        /\ pc[s] \in {"cast", "post"} /\ after[s] \in Afters
    BY <1>0, <1>2 DEF Either, Pass, FindEnd, Post, ShapeOf
  <2>2. \/ pc'[s] \in {"cast", "post"} /\ after' = after
        \/ pc'[s] = after[s] /\ after'[s] = None
    BY <1>2 DEF Either, Pass, FindEnd, Post, Advance
  <2> QED BY <2>1, <2>2, MultiNone DEF Leaving, Afters
<1>3. CASE Shell(s)
  <2>1. /\ UNCHANGED <<id_num, name, user_pipe, me>> /\ after[s] = None
        /\ pc[s] \notin {"clean", "reset", "forget"}
        /\ pc'[s] \notin {"clean", "reset", "forget"}
        /\ after'[s] \in {None, "flush", "write"}
        /\ pc'[s] = "check" => CheckName(s) \/ CheckNext(s)
    <3> USE DEF Telling
    <3>1. CASE PrintMail(s) \/ BrokenPipe(s) \/ ClearMail(s) \/ NoMail(s) \/ ReadLine(s)
      BY <1>0, <3>1 DEF PrintMail, BrokenPipe, ClearMail, NoMail, ReadLine, ShapeOf
    <3>2. CASE CheckName(s) \/ CheckNext(s)
      BY <1>0, <3>2 DEF CheckName, CheckNext, Parsing, ShapeOf
    <3>3. CASE Yell(s) \/ Tell(s) \/ Local(s) \/ Crash(s)
      BY <1>0, <3>3 DEF Yell, Tell, Local, Crash, Parsing, ShapeOf
    <3>4. CASE Run(s) \/ ReadNothing(s) \/ ReadPipe(s) \/ ReadFails(s)
      BY <1>0, <3>4 DEF Run, ReadNothing, ReadPipe, ReadFails, Parsing, Skip, ShapeOf
    <3>5. CASE WriteNothing(s) \/ WriteFails(s) \/ EndRun(s)
      BY <1>0, <3>5 DEF WriteNothing, WriteFails, EndRun, Skip, ShapeOf
    <3> QED BY <1>3, <3>1, <3>2, <3>3, <3>4, <3>5 DEF Shell
  <2> QED BY <2>1, MultiNone DEF Leaving, Afters
<1> QED BY <1>1, <1>2, <1>3 DEF Process, Parent, Telling

(* What the steps that tell do to a slot, once one knows who owns it.       *)
LEMMA OwnSlot ==
  ASSUME OwnerInv
  PROVE  /\ \A s \in Session : me[s] # 0 => me[s] \in Slot
         /\ \A s \in Session : LoggedIn(s) => id_num[me[s]] = me[s] /\ me[s] \in Slot
         /\ \A i \in Slot : id_num[i] # 0 => id_num[i] = i
                                             /\ \E s \in Session : me[s] = i /\ ~Freed(s)
<1>1. \A s \in Session : me[s] \in 0..MaxUsers
  BY DEF OwnerInv, TypeInv, TypeOK, ShellsOK
<1>2. \A s \in Session : me[s] # 0 => me[s] \in Slot
  BY <1>1, MultiBounds DEF Slot
<1>3. \A s \in Session : LoggedIn(s) => ~Freed(s) /\ me[s] # 0
  BY DEF LoggedIn, Leaving, Freed
<1>4. \A i \in Slot : i # 0
  BY MultiBounds DEF Slot
<1> QED BY <1>2, <1>3, <1>4 DEF OwnerInv, SlotInv

(* When someone at work does not leave, nobody does.                        *)
LEMMA NobodyLeaves ==
  ASSUME Serial \/ NoExit, OwnerInv, NEW s \in Session, Active(s), ~Leaving(s)
  PROVE  \A t \in Session : ~Leaving(t)
BY Alone DEF OwnerInv

-------------------------------------------------------------------------------
(* NameInv and PipeInv.                                                     *)
LEMMA NameStep ==
  ASSUME Serial \/ (NoExit /\ NoRename), EnoughSlots, OwnerInv, NameInv, [Next]_vars PROVE NameInv'
<1> USE DEF OwnerInv, TypeInv, TypeOK, shared, shell, loop, Goto, Broadcast
<1>0. Serial \/ NoExit
  OBVIOUS
<1>1. CASE UNCHANGED vars
  BY <1>1 DEF vars, NameInv
<1>2. ASSUME NEW s \in Session, Client(s) PROVE NameInv'
  BY <1>2 DEF Client, Connect, HangUp, Send, NameInv
<1>3. ASSUME NEW s \in Session, Process(s) PROVE NameInv'
  <2>1. Only(s) /\ ShapeOf(s)
    BY <1>3, StepIsOfOne DEF ShapeInv
  <2>2. \A t \in Session : pc[t] = "check" /\ Active(s) => t = s
    <3> SUFFICES ASSUME NEW t \in Session, pc[t] = "check", Active(s) PROVE t = s
      OBVIOUS
    <3>1. line[t] \in Inputs /\ line[t].op = "name"
      BY DEF ShapeInv, ShapeOf, ShellsOK
    <3>2. Serial
      BY <3>1 DEF NoRename
    <3> QED BY <3>2 DEF TurnInv, Active
  <2>3. \A i \in Slot : i # 0
    BY MultiBounds DEF Slot
  <2>4. ASSUME NEW t \in Session \ {s}, pc'[t] = "check", UNCHANGED <<id_num, name>> \/ Active(s)
        PROVE  \A i \in Slot : i < j'[t] /\ i # me'[t] /\ id_num'[i] # 0 => name'[i] # line'[t].arg
    <3>1. UNCHANGED <<id_num, name>>
      BY <2>1, <2>2, <2>4 DEF Only
    <3> QED BY <2>1, <2>4, <3>1 DEF Only, NameInv
  <2>5. CASE ~Telling(s)
    <3>1. UNCHANGED <<id_num, name, me>>
      BY <1>3, <2>5, SilentProcess
    <3>2. ASSUME pc'[s] = "check"
          PROVE  \A i \in Slot : i < j'[s] /\ i # me'[s] /\ id_num'[i] # 0 => name'[i] # line'[s].arg
      <4>1. CASE CheckName(s)
        BY <3>1, <4>1, MultiBounds DEF CheckName, Slot, ShellsOK
      <4>2. CASE CheckNext(s)
        <5>1. /\ pc[s] = "check" /\ j[s] \in Slot /\ j'[s] = j[s] + 1 /\ line' = line
              /\ ~(j[s] # me[s] /\ id_num[j[s]] # 0 /\ name[j[s]] = line[s].arg)
          BY <3>2, <4>2 DEF CheckNext, ShellsOK
        <5>2. \A i \in Slot : i < j'[s] => i < j[s] \/ i = j[s]
          BY <5>1, MultiBounds DEF Slot
        <5> QED BY <3>1, <5>1, <5>2 DEF NameInv
      <4> QED BY <1>3, <2>5, <3>2, <4>1, <4>2, SilentProcess
    <3> QED BY <2>4, <3>1, <3>2 DEF NameInv
  <2>6. CASE Claim(s)
    <3>1. /\ name' = name /\ pc'[s] = "cast" /\ Active(s) /\ me[s] = 0
          /\ me' = [me EXCEPT ![s] = me'[s]]
      BY <2>1, <2>6 DEF Claim, Active, ShapeOf, ShellsOK
    <3>2. \A i \in Slot : name'[i] # NoName => \E t \in Session : me'[t] = i
      BY <2>3, <3>1 DEF NameInv, ShellsOK
    <3> QED BY <2>4, <3>1, <3>2 DEF NameInv
  <2>7. CASE ChangeName(s)
    <3>1. /\ name' = [name EXCEPT ![me[s]] = line[s].arg] /\ me' = me /\ pc'[s] = "cast"
          /\ Active(s)
      BY <2>7 DEF ChangeName, Active, ShellsOK
    <3>2. \A i \in Slot : name'[i] # NoName => \E t \in Session : me'[t] = i
      BY <3>1 DEF NameInv, SharedOK
    <3> QED BY <2>4, <3>1, <3>2 DEF NameInv
  <2>8. CASE Forget(s)
    <3>1. /\ name' = [name EXCEPT ![me[s]] = NoName] /\ me' = [me EXCEPT ![s] = 0]
          /\ pc'[s] = "gone" /\ Active(s)
      BY <2>8 DEF Forget, Active, ShellsOK
    <3>2. \A i \in Slot : name'[i] # NoName => \E t \in Session : me'[t] = i
      BY <3>1 DEF NameInv, SharedOK, ShellsOK
    <3> QED BY <2>4, <3>1, <3>2 DEF NameInv
  <2>9. CASE FreeSlot(s) \/ Reset(s)
    <3>1. name' = name /\ me' = me /\ pc'[s] # "check" /\ Active(s)
      BY <2>9 DEF FreeSlot, Reset, Active, ShellsOK
    <3> QED BY <2>4, <3>1 DEF NameInv
  <2>10. CASE WritePipe(s) \/ Take(s) \/ Exit(s) \/ CleanNext(s)
    <3>1. name' = name /\ id_num' = id_num /\ me' = me /\ pc'[s] # "check"
      BY <2>10 DEF WritePipe, Take, Exit, CleanNext, ShellsOK
    <3> QED BY <2>4, <3>1 DEF NameInv
  <2> QED BY <2>5, <2>6, <2>7, <2>8, <2>9, <2>10 DEF Telling
<1> QED BY <1>1, <1>2, <1>3 DEF Next, Process
LEMMA PipeStep ==
  ASSUME Serial \/ NoExit, EnoughSlots, OwnerInv, PipeInv, [Next]_vars PROVE PipeInv'
<1> USE DEF OwnerInv, TypeInv, TypeOK, shared, shell, loop, Goto, Broadcast
<1>1. CASE UNCHANGED vars
  BY <1>1 DEF vars, PipeInv, Leaving
<1>2. ASSUME NEW s \in Session, Client(s) PROVE PipeInv'
  BY <1>2 DEF Client, Connect, HangUp, Send, PipeInv, Leaving
<1>3. ASSUME NEW s \in Session, Process(s) PROVE PipeInv'
  <2>1. Only(s) /\ ShapeOf(s)
    BY <1>3, StepIsOfOne DEF ShapeInv
  <2>2. \A t \in Session \ {s} : (Leaving(t)' <=> Leaving(t)) /\ UNCHANGED <<me[t], pc[t], pos[t], j[t]>>
    BY <2>1 DEF Only, Leaving
  <2>3. \A i \in Slot : i # 0
    BY MultiBounds DEF Slot
  <2>4. /\ me \in [Session -> 0..MaxUsers] /\ user_pipe \in [Slot -> SUBSET Slot]
        /\ id_num \in [Slot -> 0..MaxUsers]
    BY DEF ShellsOK, SharedOK
  <2>5. CASE ~Telling(s)
    <3>1. /\ UNCHANGED <<user_pipe, me>> /\ (Leaving(s)' <=> Leaving(s))
          /\ pc[s] # "clean" /\ pc'[s] # "clean"
      BY <1>3, <2>5, SilentProcess
    <3> QED BY <2>2, <3>1 DEF PipeInv
  <2>6. CASE Claim(s)
    <3>1. j[s] \in Slot /\ \A t \in Session : me[t] # j[s]
      BY <2>1, <2>6, SlotClaim
    <3>2. /\ user_pipe' = user_pipe /\ me' = [me EXCEPT ![s] = j[s]] /\ me[s] = 0
          /\ pc'[s] = "cast" /\ after'[s] = "fork"
      BY <2>1, <2>6, <3>1 DEF Claim, ShapeOf, ShellsOK
    <3>3. \A i \in Slot : \A k \in user_pipe'[i] :
            (\E t \in Session : me'[t] = i) /\ (\E t \in Session : me'[t] = k)
      BY <2>3, <2>4, <3>2 DEF PipeInv
    <3>4. ~Leaving(s)'
      BY <3>2 DEF Leaving
    <3>5. \A t \in Session \ {s} : me'[t] = me[t] /\ user_pipe' = user_pipe
      BY <3>2, <2>2
    <3> QED BY <2>2, <3>3, <3>4, <3>5 DEF PipeInv
  <2>7. CASE ChangeName(s)
    <3>1. UNCHANGED <<user_pipe, me>> /\ pc'[s] = "cast" /\ after'[s] = "flush"
      BY <2>7 DEF ChangeName, ShellsOK
    <3>2. ~Leaving(s)'
      BY <3>1 DEF Leaving
    <3> QED BY <2>2, <3>1, <3>2 DEF PipeInv
  <2>8. CASE WritePipe(s)
    <3>1. /\ user_pipe' = [user_pipe EXCEPT ![me[s]] = @ \cup {Now(s).wr}] /\ me' = me
          /\ pc[s] = "write" /\ pc'[s] = "cast" /\ after'[s] = "take" /\ CanWrite(s)
      BY <2>8 DEF WritePipe, ShellsOK
    <3>2. Active(s) /\ ~Leaving(s) /\ ~Leaving(s)'
      BY <2>1, <3>1, MultiNone DEF Active, Leaving, ShapeOf, Afters
    <3>3. me[s] \in Slot /\ \E t \in Session : me[t] = Now(s).wr
      BY <2>1, <2>3, <3>1, OwnSlot DEF CanWrite, WithId, Flagged, ShapeOf
    <3>4. \A i \in Slot : \A k \in user_pipe'[i] :
            (\E t \in Session : me'[t] = i) /\ (\E t \in Session : me'[t] = k)
      BY <2>4, <3>1, <3>3 DEF PipeInv
    <3>5. \A t \in Session : ~Leaving(t)'
      BY <2>2, <3>2, NobodyLeaves
    <3> QED BY <3>4, <3>5 DEF PipeInv
  <2>9. CASE Take(s)
    <3>1. /\ me' = me /\ pc[s] = "take" /\ pc'[s] \in {"stage", "killed"} /\ after' = after
          /\ user_pipe' = user_pipe \/ user_pipe' = Taken(s)
      BY <2>9 DEF Take, ShellsOK
    <3>2. Active(s) /\ ~Leaving(s) /\ ~Leaving(s)'
      BY <2>1, <3>1, MultiNone DEF Active, Leaving, ShapeOf, Afters
    <3>3. \A i \in Slot : user_pipe'[i] \subseteq user_pipe[i]
      BY <2>4, <3>1 DEF Taken
    <3>4. \A t \in Session : ~Leaving(t)'
      BY <2>2, <3>2, NobodyLeaves
    <3> QED BY <3>1, <3>3, <3>4 DEF PipeInv
  <2>10. CASE Exit(s)
    <3>1. /\ me' = me /\ user_pipe' = [user_pipe EXCEPT ![me[s]] = {}]
          /\ pos'[s] = id_num[me[s]] /\ j'[s] = 1 /\ pc[s] = "parse" /\ pc'[s] = "clean"
          /\ after' = after
      BY <2>10 DEF Exit, Parsing, ShellsOK
    <3>2. Active(s) /\ ~Leaving(s) /\ me[s] \in Slot /\ id_num[me[s]] = me[s]
      BY <2>1, <3>1, MultiNone, OwnSlot DEF Active, Leaving, ShapeOf, Afters, LoggedIn
    <3>3. \A t \in Session \ {s} : ~Leaving(t)'
      BY <2>2, <3>2, NobodyLeaves
    <3>4. \A i \in Slot : j'[s] <= i /\ user_pipe'[i] \subseteq user_pipe[i]
      BY <2>4, <3>1, MultiBounds DEF Slot
    <3> QED BY <2>4, <3>1, <3>2, <3>3, <3>4 DEF PipeInv
  <2>11. CASE CleanNext(s)
    <3>1. /\ me' = me /\ user_pipe' = [user_pipe EXCEPT ![j[s]] = Cleaned(s)]
          /\ pc[s] = "clean" /\ pc'[s] = "clean" /\ j[s] \in Slot /\ j'[s] = j[s] + 1
          /\ pos' = pos /\ after' = after
      BY <2>11 DEF CleanNext, ShellsOK
    <3>2. Leaving(s) /\ Active(s) /\ ~Freed(s) /\ me[s] \in Slot
      BY <2>1, <3>1, MultiNone, OwnSlot DEF Leaving, Active, Freed, ShapeOf, Afters
    <3>3. \A t \in Session \ {s} : ~Leaving(t)'
      BY <2>2, <3>2, Alone
    <3>4. \A i \in Slot : user_pipe'[i] \subseteq user_pipe[i]
      BY <2>4, <3>1 DEF Cleaned
    <3>5. me[s] \notin user_pipe'[j[s]]
      <4>1. CASE id_num[j[s]] # 0
        BY <2>4, <3>1, <3>2, <4>1 DEF Cleaned, PipeInv
      <4>2. CASE id_num[j[s]] = 0
        <5> SUFFICES ASSUME me[s] \in user_pipe[j[s]] PROVE FALSE
          BY <2>4, <3>1, <4>2 DEF Cleaned
        <5>1. PICK t \in Session : me[t] = j[s]
          BY <3>1 DEF PipeInv
        <5>2. Freed(t)
          BY <2>3, <3>1, <4>2, <5>1 DEF SlotInv
        <5>3. Leaving(t)
          BY <5>2 DEF Freed, Leaving
        <5> QED BY <3>2, <5>2, <5>3, Alone
      <4> QED BY <4>1, <4>2
    <3>6. \A i \in Slot : me'[s] \in user_pipe'[i] => j'[s] <= i
      <4>1. \A i \in Slot : me[s] \in user_pipe[i] => j[s] <= i
        BY <3>2 DEF PipeInv
      <4>2. \A i \in Slot : j[s] <= i /\ i # j[s] => j[s] + 1 <= i
        BY <3>1, MultiBounds DEF Slot
      <4> QED BY <3>1, <3>4, <3>5, <4>1, <4>2
    <3> QED BY <3>1, <3>2, <3>3, <3>4, <3>6 DEF PipeInv
  <2>12. CASE FreeSlot(s) \/ Reset(s)
    <3>1. /\ UNCHANGED <<user_pipe, me>> /\ pc'[s] # "clean" /\ Leaving(s)
          /\ pc[s] = "clean" => j[s] \notin Slot
      BY <2>12 DEF FreeSlot, Reset, Leaving, ShellsOK
    <3>2. pc[s] = "clean" => j[s] = MaxUsers + 1
      BY <2>1, <3>1, MultiBounds DEF ShellsOK, ShapeOf, Slot
    <3>3. \A i \in Slot : me'[s] \notin user_pipe'[i]
      BY <3>1, <3>2, MultiBounds DEF PipeInv, Slot
    <3>4. user_pipe'[me'[s]] = {}
      BY <3>1 DEF PipeInv
    <3> QED BY <2>2, <3>1, <3>3, <3>4 DEF PipeInv
  <2>13. CASE Forget(s)
    <3>1. /\ user_pipe' = user_pipe /\ me' = [me EXCEPT ![s] = 0] /\ pc[s] = "forget"
          /\ pc'[s] = "gone" /\ after' = after
      BY <2>13 DEF Forget, ShellsOK
    <3>2. Leaving(s) /\ ~Leaving(s)'
      BY <2>1, <3>1, MultiNone DEF Leaving, ShapeOf, Afters
    <3>3. user_pipe[me[s]] = {} /\ \A i \in Slot : me[s] \notin user_pipe[i]
      BY <3>1, <3>2 DEF PipeInv
    <3>4. \A i \in Slot : \A k \in user_pipe'[i] :
            (\E t \in Session : me'[t] = i) /\ (\E t \in Session : me'[t] = k)
      BY <2>4, <3>1, <3>3 DEF PipeInv
    <3> QED BY <2>2, <3>1, <3>2, <3>4 DEF PipeInv
  <2> QED BY <2>5, <2>6, <2>7, <2>8, <2>9, <2>10, <2>11, <2>12, <2>13 DEF Telling
<1> QED BY <1>1, <1>2, <1>3 DEF Next, Process

LEMMA ServiceStep ==
  ASSUME Serial \/ (NoExit /\ NoRename), EnoughSlots, ServiceInv, [Next]_vars PROVE ServiceInv'
BY OwnerStep, NameStep, PipeStep DEF ServiceInv

LEMMA ServiceInit == Init => ServiceInv
<1> SUFFICES ASSUME Init PROVE ServiceInv
  OBVIOUS
<1>1. NameInv /\ PipeInv
  BY MultiNone DEF Init, NameInv, PipeInv, Leaving, Afters
<1> QED BY <1>1, OwnerInit DEF ServiceInv

-------------------------------------------------------------------------------
(* RwgService.  Its variables depend on who is logged in, their slots, the  *)
(* names in them and the pipes between them.                                *)
Uid   == [t \in Session |-> IF LoggedIn(t) THEN me[t] ELSE 0]
Nick  == [t \in Session |-> IF LoggedIn(t) THEN name[me[t]] ELSE NoName]
Users == {t \in Session : LoggedIn(t)}
Pipes == {p \in Users \X Users : me[p[2]] \in user_pipe[me[p[1]]]}

LEMMA SameView ==
  ASSUME Users' = Users,
         \A t \in Users : me'[t] = me[t] /\ name'[me[t]] = name[me[t]],
         \A t, u \in Users : me[u] \in user_pipe'[me[t]] <=> me[u] \in user_pipe[me[t]]
  PROVE  UNCHANGED Service!svars
<1>1. \A t \in Session : LoggedIn(t)' <=> LoggedIn(t)
  BY DEF Users
<1>2. Uid' = Uid /\ Nick' = Nick
  BY <1>1 DEF Uid, Nick, Users
<1>3. Pipes' = Pipes
  BY DEF Pipes
<1> QED BY <1>2, <1>3 DEF Service!svars, Uid, Nick, Pipes, Users

LEMMA ServesClaim ==
  ASSUME Serial \/ NoExit, EnoughSlots, ServiceInv, NEW s \in Session, Claim(s), Only(s)
  PROVE  Service!Enter(s)
<1> USE DEF ServiceInv, OwnerInv, TypeInv, TypeOK
<1>1. /\ j[s] \in Slot /\ \A t \in Session : me[t] # j[s]
      /\ me \in [Session -> 0..MaxUsers] /\ j[s] # 0
  BY SlotClaim, MultiBounds DEF ShellsOK, Slot
<1>2. /\ UNCHANGED <<name, user_pipe>> /\ me' = [me EXCEPT ![s] = j[s]] /\ me[s] = 0
      /\ pc[s] = "scan" /\ pc'[s] = "cast" /\ after'[s] = "fork"
  BY <1>1 DEF Claim, Broadcast, Goto, ShellsOK, ShapeInv, ShapeOf
<1>3. \A t \in Session : ~Leaving(t)
  <2>1. Active(s) /\ ~Leaving(s)
    BY <1>2, MultiNone DEF Active, Leaving, ShapeInv, ShapeOf, Afters
  <2> QED BY <2>1, NobodyLeaves
<1>4. \A t \in Session : ~Leaving(t)'
  BY <1>2, <1>3 DEF Leaving, Only
<1>5. /\ \A t \in Session : LoggedIn(t) <=> me[t] # 0
      /\ \A t \in Session : LoggedIn(t)' <=> me'[t] # 0
  BY <1>3, <1>4 DEF LoggedIn
<1>6. Uid[s] = 0 /\ Uid' = [Uid EXCEPT ![s] = j[s]]
  BY <1>1, <1>2, <1>5 DEF Uid
<1>7. name[j[s]] = NoName /\ user_pipe[j[s]] = {}
      /\ \A t \in Users : j[s] \notin user_pipe[me[t]]
  <2>1. \A t \in Users : me[t] \in Slot
    BY OwnSlot DEF Users
  <2>2. name[j[s]] = NoName /\ \A i \in Slot : j[s] \notin user_pipe[i]
    BY <1>1 DEF NameInv, PipeInv
  <2>3. user_pipe[j[s]] = {}
    BY <1>1 DEF PipeInv
  <2> QED BY <2>1, <2>2, <2>3
<1>8. Nick' = Nick
  BY <1>1, <1>2, <1>5, <1>7 DEF Nick
<1>9. Pipes' = Pipes
  <2>1. Users' = Users \cup {s} /\ s \notin Users
    BY <1>1, <1>2, <1>5 DEF Users
  <2>2. \A t \in Users : me'[t] = me[t]
    BY <1>2, <2>1 DEF Users
  <2>3. \A t, u \in Users' : me'[u] \in user_pipe'[me'[t]]
          <=> t \in Users /\ u \in Users /\ me[u] \in user_pipe[me[t]]
    BY <1>1, <1>2, <1>7, <2>1, <2>2
  <2> QED BY <2>1, <2>3 DEF Pipes
<1>10. j[s] \in (1..MaxUsers) \ {Uid[t] : t \in Session}
  BY <1>1 DEF Uid, Slot
<1>11. ASSUME NEW k \in (1..MaxUsers) \ {Uid[t] : t \in Session} PROVE j[s] <= k
  <2> SUFFICES ASSUME k < j[s] PROVE FALSE
    BY <1>1, MultiBounds DEF Slot
  <2>1. id_num[k] # 0 /\ k \in Slot
    BY <1>2 DEF SlotInv, Slot
  <2>2. PICK t \in Session : me[t] = k
    BY <2>1 DEF SlotInv
  <2>3. Uid[t] = k
    BY <1>3, <2>2, MultiBounds DEF Uid, LoggedIn
  <2> QED BY <2>3
<1> QED BY <1>6, <1>8, <1>9, <1>10, <1>11
        DEF Service!Enter, Service!Unused, Uid, Nick, Pipes, Users

LEMMA ServesName ==
  ASSUME Serial \/ (NoExit /\ NoRename), ServiceInv, NEW s \in Session, ChangeName(s), Only(s)
  PROVE  line[s].arg \in Names /\ Service!Rename(s, line[s].arg)
<1> USE DEF ServiceInv, OwnerInv, TypeInv, TypeOK
<1>1. /\ name' = [name EXCEPT ![me[s]] = line[s].arg] /\ UNCHANGED <<me, user_pipe, id_num>>
      /\ pc[s] = "check" /\ j[s] \notin Slot /\ pc'[s] = "cast" /\ after'[s] = "flush"
      /\ line[s].arg \in Names /\ j[s] # 0
  <2>1. pc[s] = "check" /\ ShapeOf(s) /\ line[s] \in Inputs
    BY DEF ChangeName, ShellsOK, ShapeInv, ShapeOf
  <2>2. line[s].arg \in Names
    BY <2>1, MultiInputs DEF ShapeOf, Line, Fatal
  <2> QED BY <2>1, <2>2 DEF ChangeName, Broadcast, Goto, ShellsOK, ShapeOf
<1>2. ~Leaving(s) /\ ~Leaving(s)' /\ LoggedIn(s) /\ LoggedIn(s)' /\ Active(s)
  BY <1>1, MultiNone DEF Leaving, LoggedIn, Active, ShapeInv, ShapeOf, Afters
<1>3. \A t \in Session : LoggedIn(t)' <=> LoggedIn(t)
  BY <1>1, <1>2 DEF LoggedIn, Leaving, Only
<1>4. me[s] \in Slot /\ \A t \in Users : me[t] \in Slot /\ id_num[me[t]] # 0
  BY <1>2, OwnSlot, MultiBounds DEF Users, Slot
<1>5. \A t \in Users \ {s} : me[t] # me[s]
  BY <1>4, MultiBounds DEF SlotInv, Users, Slot
<1>6. \A t \in Users \ {s} : Nick[t] # line[s].arg
  <2>1. \A i \in Slot : i < j[s]
    BY <1>1, MultiBounds DEF ShellsOK, Slot
  <2>2. \A t \in Users : name[me[t]] = Nick[t]
    BY DEF Nick, Users
  <2> QED BY <1>1, <1>4, <1>5, <2>1, <2>2 DEF NameInv
<1>7. Uid' = Uid /\ Nick' = [Nick EXCEPT ![s] = line[s].arg] /\ Pipes' = Pipes
  <2>1. name \in [Slot -> Names \cup {NoName}]
    BY DEF SharedOK
  <2>2. Uid' = Uid /\ Pipes' = Pipes
    BY <1>1, <1>3 DEF Uid, Pipes, Users
  <2>3. \A t \in Session : (IF LoggedIn(t)' THEN name'[me'[t]] ELSE NoName)
                             = IF t = s THEN line[s].arg ELSE Nick[t]
    BY <1>1, <1>2, <1>3, <1>4, <1>5, <2>1 DEF Nick, Users
  <2> QED BY <2>2, <2>3 DEF Nick
<1>8. Uid[s] # 0
  BY <1>2 DEF Uid, LoggedIn
<1>9. \A t \in Session : Uid[t] # 0 => t \in Users
  BY DEF Uid, Users
<1>10. Service!Rename(s, line[s].arg)
  BY <1>6, <1>7, <1>8, <1>9 DEF Service!Rename, Service!LoggedIn, Uid, Nick, Pipes, Users
<1> QED BY <1>1, <1>10

LEMMA ServesExit ==
  ASSUME ServiceInv, NEW s \in Session, Exit(s), Only(s)
  PROVE  Service!Leave(s)
<1> USE DEF ServiceInv, OwnerInv, TypeInv, TypeOK
<1>1. /\ user_pipe' = [user_pipe EXCEPT ![me[s]] = {}] /\ UNCHANGED <<me, name>>
      /\ pc[s] = "parse" /\ pc'[s] = "clean"
  BY DEF Exit, Parsing, Goto, ShellsOK
<1>2. LoggedIn(s) /\ ~LoggedIn(s)' /\ me[s] \in Slot
  BY <1>1, MultiNone, OwnSlot DEF Leaving, LoggedIn, ShapeInv, ShapeOf, Afters
<1>3. \A t \in Session : LoggedIn(t)' <=> LoggedIn(t) /\ t # s
  BY <1>1, <1>2 DEF LoggedIn, Leaving, Only
<1>4. \A t \in Users \ {s} : me[t] # me[s] /\ me[t] \in Slot
  BY <1>2, OwnSlot, MultiBounds DEF SlotInv, Users, Slot
<1>5. Uid[s] # 0 /\ Uid' = [Uid EXCEPT ![s] = 0]
  BY <1>1, <1>2, <1>3 DEF Uid, LoggedIn
<1>6. Nick' = [Nick EXCEPT ![s] = NoName]
  BY <1>1, <1>2, <1>3 DEF Nick
<1>7. Pipes' = {p \in Pipes : s \notin {p[1], p[2]}}
  <2>1. Users' = Users \ {s}
    BY <1>3 DEF Users
  <2>2. \A t \in Users \ {s} : user_pipe'[me[t]] = user_pipe[me[t]]
    BY <1>1, <1>4 DEF SharedOK
  <2> QED BY <1>1, <2>1, <2>2 DEF Pipes
<1> QED BY <1>5, <1>6, <1>7 DEF Service!Leave, Uid, Nick, Pipes, Users
(* A row has the pipes under the ids of their readers, and an id is in its  *)
(* own slot only.                                                           *)
LEMMA IdIsSlot ==
  ASSUME OwnerInv, NEW k, k # 0
  PROVE  WithId(k) = {i \in Slot : i = k /\ id_num[i] = k}
<1>1. \A i \in Slot : id_num[i] = k => i = k
  BY OwnSlot
<1>2. \A i \in Slot : \A h \in 1..(i - 1) : h \in Slot /\ h # i
  BY MultiBounds DEF Slot
<1> QED BY <1>1, <1>2 DEF WithId

LEMMA ServesWrite ==
  ASSUME ServiceInv, NEW s \in Session, WritePipe(s), Only(s)
  PROVE  Service!Transfer(s, {}, {t \in Users : me[t] = Now(s).wr})
<1> USE DEF ServiceInv, OwnerInv, TypeInv, TypeOK
<1> DEFINE wr      == Now(s).wr
           targets == {t \in Users : me[t] = wr}
<1>1. /\ user_pipe' = [user_pipe EXCEPT ![me[s]] = @ \cup {wr}] /\ UNCHANGED <<me, name>>
      /\ pc[s] = "write" /\ pc'[s] = "cast" /\ after'[s] = "take"
      /\ wr # 0 /\ wr \notin user_pipe[me[s]]
  BY DEF WritePipe, CanWrite, Flagged, Broadcast, Goto, ShellsOK
<1>2. LoggedIn(s) /\ LoggedIn(s)' /\ me[s] \in Slot
  BY <1>1, MultiNone, OwnSlot DEF Leaving, LoggedIn, ShapeInv, ShapeOf, Afters
<1>3. \A t \in Session : LoggedIn(t)' <=> LoggedIn(t)
  BY <1>1, <1>2 DEF LoggedIn, Leaving, Only
<1>4. \A t \in Users : me[t] \in Slot /\ (me[t] = me[s] <=> t = s)
  BY <1>2, OwnSlot, MultiBounds DEF SlotInv, Users, Slot
<1>5. Uid' = Uid /\ Nick' = Nick /\ Uid[s] # 0
  BY <1>1, <1>2, <1>3 DEF Uid, Nick, LoggedIn
<1>6. Pipes' = Pipes \cup {<<s, t>> : t \in targets}
  <2>1. Users' = Users /\ s \in Users
    BY <1>2, <1>3 DEF Users
  <2>2. \A t, u \in Users : me[u] \in user_pipe'[me[t]]
          <=> me[u] \in user_pipe[me[t]] \/ (t = s /\ u \in targets)
    <3>1. \A t \in Users : user_pipe'[me[t]] = IF t = s THEN user_pipe[me[t]] \cup {wr}
                                                       ELSE user_pipe[me[t]]
      BY <1>1, <1>2, <1>4 DEF SharedOK
    <3> SUFFICES ASSUME NEW t \in Users, NEW u \in Users
                 PROVE  me[u] \in user_pipe'[me[t]]
                          <=> me[u] \in user_pipe[me[t]] \/ (t = s /\ me[u] = wr)
      OBVIOUS
    <3> HIDE DEF targets, wr
    <3>2. CASE t = s
      BY <3>1, <3>2
    <3>3. CASE t # s
      BY <3>1, <3>3
    <3> QED BY <3>2, <3>3
  <2> QED BY <1>1, <2>1, <2>2 DEF Pipes
<1>7. {<<s, t>> : t \in targets} \cap Pipes = {}
  BY <1>1 DEF Pipes
<1>8. \A t \in targets : t \in Session /\ Uid[t] # 0
  BY DEF Uid, Users, LoggedIn
<1> HIDE DEF targets
<1>9. Service!Transfer(s, {}, targets)
  BY <1>5, <1>6, <1>7, <1>8 DEF Service!Transfer, Service!LoggedIn, Uid, Nick, Pipes, Users
<1> QED BY <1>9 DEF targets

LEMMA ServesTake ==
  ASSUME ServiceInv, NEW s \in Session, Take(s), Only(s)
  PROVE  Service!Transfer(s, {t \in Users : me[t] = Now(s).rd /\ me[s] \in user_pipe[me[t]]}, {})
<1> USE DEF ServiceInv, OwnerInv, TypeInv, TypeOK
<1> DEFINE rd      == Now(s).rd
           sources == {t \in Users : me[t] = rd /\ me[s] \in user_pipe[me[t]]}
<1>1. /\ user_pipe' = IF rd = -1 THEN user_pipe ELSE Taken(s)
      /\ UNCHANGED <<me, name>> /\ after' = after
      /\ pc[s] = "take" /\ pc'[s] \in {"stage", "killed"}
  BY DEF Take, Goto, ShellsOK, loop
<1>2. LoggedIn(s) /\ LoggedIn(s)' /\ me[s] \in Slot /\ id_num[me[s]] = me[s]
  BY <1>1, MultiNone, OwnSlot DEF Leaving, LoggedIn, ShapeInv, ShapeOf, Afters
<1>3. \A t \in Session : LoggedIn(t)' <=> LoggedIn(t)
  BY <1>1, <1>2 DEF LoggedIn, Leaving, Only
<1>4. \A t \in Users : me[t] \in Slot /\ me[t] # 0 /\ me[t] # -1 /\ id_num[me[t]] = me[t]
                       /\ (me[t] = me[s] <=> t = s)
  BY <1>2, OwnSlot, MultiBounds DEF SlotInv, Users, Slot
<1>5. Uid' = Uid /\ Nick' = Nick /\ Uid[s] # 0
  BY <1>1, <1>2, <1>3 DEF Uid, Nick, LoggedIn
<1>6. \A t, u \in Users : me[u] \in user_pipe'[me[t]]
        <=> me[u] \in user_pipe[me[t]] /\ ~(t \in sources /\ u = s)
  <2> SUFFICES ASSUME NEW t \in Users, NEW u \in Users
               PROVE  me[u] \in user_pipe'[me[t]]
                        <=> me[u] \in user_pipe[me[t]] /\ ~(t \in sources /\ u = s)
    OBVIOUS
  <2>1. CASE rd = -1
    BY <1>1, <1>4, <2>1
  <2>2. CASE rd # -1
    <3>1. me[t] \in WithId(rd) <=> me[t] = rd
      <4>1. CASE rd = 0
        BY <1>4, <4>1 DEF WithId
      <4>2. CASE rd # 0
        BY <1>4, <4>2, IdIsSlot
      <4> QED BY <4>1, <4>2
    <3>2. user_pipe'[me[t]] = IF me[t] = rd THEN user_pipe[me[t]] \ {me[s]} ELSE user_pipe[me[t]]
      BY <1>1, <1>2, <1>4, <2>2, <3>1 DEF Taken
    <3> QED BY <1>4, <3>2
  <2> QED BY <2>1, <2>2
<1>7. Pipes' = Pipes \ {<<t, s>> : t \in sources}
  <2>1. Users' = Users
    BY <1>3 DEF Users
  <2>2. \A t, u \in Users : <<t, u>> \in {<<r, s>> : r \in sources} <=> t \in sources /\ u = s
    OBVIOUS
  <2> HIDE DEF sources
  <2> QED BY <1>1, <1>6, <2>1, <2>2 DEF Pipes
<1>8. {<<t, s>> : t \in sources} \subseteq Pipes
  BY <1>2 DEF Pipes, Users
<1> HIDE DEF sources
<1>9. Service!Transfer(s, sources, {})
  BY <1>5, <1>7, <1>8 DEF Service!Transfer, Uid, Nick, Pipes, Users
<1> QED BY <1>9 DEF sources
(* Every other step is none of the users' business.                         *)
LEMMA ServesRest ==
  ASSUME ServiceInv, NEW s \in Session, Process(s), Only(s),
         ~(Claim(s) \/ ChangeName(s) \/ WritePipe(s) \/ Take(s) \/ Exit(s))
  PROVE  UNCHANGED Service!svars
<1> USE DEF ServiceInv, OwnerInv, TypeInv, TypeOK
<1>1. \A t \in Users : me[t] \in Slot /\ me[t] # 0 /\ (me[t] = me[s] => t = s)
  BY OwnSlot, MultiBounds DEF SlotInv, Users, Slot
<1>2. Users' = Users /\ \A t \in Users : me'[t] = me[t]
  <2>1. \A t \in Session \ {s} : LoggedIn(t)' <=> LoggedIn(t)
    BY DEF Only, LoggedIn, Leaving
  <2>2. (LoggedIn(s)' <=> LoggedIn(s)) /\ (LoggedIn(s) => me'[s] = me[s])
    <3>1. CASE ~Telling(s)
      BY <3>1, SilentProcess DEF LoggedIn
    <3>2. CASE CleanNext(s) \/ FreeSlot(s) \/ Reset(s)
      <4>1. Leaving(s) /\ Leaving(s)'
        BY <3>2 DEF CleanNext, FreeSlot, Reset, Broadcast, Goto, Leaving, ShellsOK
      <4> QED BY <4>1 DEF LoggedIn
    <3>3. CASE Forget(s)
      BY <3>3 DEF Forget, LoggedIn, Leaving, ShellsOK
    <3> QED BY <3>1, <3>2, <3>3 DEF Telling
  <2> QED BY <2>1, <2>2 DEF Users, Only
<1>3. \A t \in Users : name'[me[t]] = name[me[t]]
  <2>1. CASE ~Telling(s)
    BY <2>1, SilentProcess
  <2>2. CASE CleanNext(s) \/ FreeSlot(s) \/ Reset(s)
    BY <2>2 DEF CleanNext, FreeSlot, Reset
  <2>3. CASE Forget(s)
    BY <1>1, <2>3 DEF Forget, Users, LoggedIn, Leaving, SharedOK
  <2> QED BY <2>1, <2>2, <2>3 DEF Telling
<1>4. \A t, u \in Users : me[u] \in user_pipe'[me[t]] <=> me[u] \in user_pipe[me[t]]
  <2>1. CASE ~Telling(s)
    BY <2>1, SilentProcess
  <2>2. CASE FreeSlot(s) \/ Reset(s) \/ Forget(s)
    BY <2>2 DEF FreeSlot, Reset, Forget
  <2>3. CASE CleanNext(s)
    <3>1. user_pipe' = [user_pipe EXCEPT ![j[s]] = Cleaned(s)] /\ Leaving(s) /\ pos[s] = me[s]
      BY <2>3 DEF CleanNext, Leaving, PipeInv
    <3>2. \A u \in Users : me[u] # pos[s]
      BY <1>1, <3>1 DEF Users, LoggedIn
    <3> QED BY <1>1, <3>1, <3>2 DEF Cleaned, SharedOK
  <2> QED BY <2>1, <2>2, <2>3 DEF Telling
<1> QED BY <1>2, <1>3, <1>4, SameView

(* For clients that take turns, and for clients that act at once but type   *)
(* neither exit nor name, np_multi_proc keeps what RwgService promises,     *)
(* however the shells and the parent interleave and whatever becomes of     *)
(* what they broadcast: a login takes the smallest free slot, name changes  *)
(* one name to one nobody has, exe_bin makes and takes the user pipe        *)
(* between two users that are there, exit ends with a slot that no pipe     *)
(* leads from or to, and no other step shows.                               *)
THEOREM MultiServesAsPromised ==
  ASSUME Serial \/ (NoExit /\ NoRename), EnoughSlots PROVE Spec => Implements
<1>1. Init => Service!Init
  <2> SUFFICES ASSUME Init PROVE Service!Init
    OBVIOUS
  <2>1. \A t \in Session : ~LoggedIn(t)
    BY DEF Init, LoggedIn
  <2> QED BY <2>1 DEF Service!Init
<1>2. ServiceInv /\ [Next]_vars => ServiceInv'
  BY ServiceStep
<1>3. ServiceInv /\ [Next]_vars => [Service!Next]_Service!svars
  <2> SUFFICES ASSUME ServiceInv, [Next]_vars
               PROVE  Service!Next \/ UNCHANGED Service!svars
    OBVIOUS
  <2> USE DEF ServiceInv, OwnerInv, TypeInv
  <2>1. ASSUME NEW s \in Session, Process(s) PROVE Service!Next \/ UNCHANGED Service!svars
    <3>1. Only(s)
      BY <2>1, StepIsOfOne
    <3>2. CASE Claim(s)
      BY <3>1, <3>2, ServesClaim DEF Service!Next
    <3>3. CASE ChangeName(s)
      BY <3>1, <3>3, ServesName DEF Service!Next, Service!Rename
    <3>4. CASE Exit(s)
      BY <3>1, <3>4, ServesExit DEF Service!Next, Service!Leave
    <3>5. CASE WritePipe(s)
      <4> DEFINE readers == {t \in Users : me[t] = Now(s).wr}
                 nobody  == {}
      <4>1. Service!Transfer(s, nobody, readers)
        BY <3>1, <3>5, ServesWrite
      <4>2. readers \in SUBSET Session /\ nobody \in SUBSET Session
        BY DEF Users
      <4> HIDE DEF readers, nobody
      <4> QED BY <4>1, <4>2 DEF Service!Next, Service!Transfer
    <3>6. CASE Take(s)
      <4> DEFINE writers == {t \in Users : me[t] = Now(s).rd /\ me[s] \in user_pipe[me[t]]}
      <4>1. Service!Transfer(s, writers, {})
        BY <3>1, <3>6, ServesTake
      <4>2. writers \in SUBSET Session /\ {} \in SUBSET Session
        BY DEF Users
      <4> HIDE DEF writers
      <4> QED BY <4>1, <4>2 DEF Service!Next
    <3> QED BY <2>1, <3>1, <3>2, <3>3, <3>4, <3>5, <3>6, ServesRest
  <2>2. ASSUME NEW s \in Session, Client(s) PROVE UNCHANGED Service!svars
    <3>1. UNCHANGED <<me, pc, after, name, user_pipe>>
      BY <2>2 DEF Client, Connect, HangUp, Send, shared, shell, loop
    <3>2. Users' = Users
      BY <3>1 DEF Users, LoggedIn, Leaving
    <3> QED BY <3>1, <3>2, SameView
  <2>3. CASE UNCHANGED vars
    <3>1. UNCHANGED <<me, pc, after, name, user_pipe>>
      BY <2>3 DEF vars, shared, shell, loop
    <3>2. Users' = Users
      BY <3>1 DEF Users, LoggedIn, Leaving
    <3> QED BY <3>1, <3>2, SameView
  <2> QED BY <2>1, <2>2, <2>3 DEF Next, Process
<1> QED BY <1>1, <1>2, <1>3, ServiceInit, PTL DEF Spec, Implements, Service!Spec
===============================================================================
