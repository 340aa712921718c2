--------------------------- MODULE SimpleServerProofs ---------------------------
(* Proofs about SimpleServer, for any set of clients.                       *)
EXTENDS SimpleServer, WellFoundedInduction, TLAPS

(* A process that can take a step of its own: it accepts or serves, or the  *)
(* child it waits for is over.                                              *)
Active(p) == \/ st[p] \in {"accept", "prompt", "read"}
             \/ st[p] = "wait" /\ st[kid[p]] = "over"

(* Who has not been let in has no process; a child that is waited for was   *)
(* started, and has one parent; and no two processes can take a step.  The  *)
(* last is OneClient strengthened to processes that are about to accept     *)
(* again, without which the end of a child could make a second server.      *)
Unborn   == \A c \in Client : link[c] \in {"off", "backlog"} => st[c] = "none"
OneChild == /\ \A p \in Proc : kid[p] # None => st[kid[p]] # "none"
            /\ \A p, q \in Proc : kid[p] # None /\ kid[p] = kid[q] => p = q
OneActive == \A p, q \in Proc : Active(p) /\ Active(q) => p = q

IInv == TypeOK /\ Unborn /\ OneChild /\ OneActive

LEMMA InitInv == Init => IInv
<1> SUFFICES ASSUME Init PROVE IInv
    OBVIOUS
<1> USE NamesAssumption DEF Init, Proc, States, Links, Lines
<1>1. TypeOK
      BY DEF TypeOK
<1>2. Unborn /\ OneChild
      BY DEF Unborn, OneChild
<1>3. OneActive
      BY DEF OneActive, Active
<1> QED BY <1>1, <1>2, <1>3 DEF IInv

(* accept, for the process that dies of the message and the one that forks. *)
LEMMA AcceptInv == ASSUME IInv, NEW p \in Proc, NEW c \in Client, Accept(p, c)
                   PROVE  IInv'
<1> USE NamesAssumption DEF Proc, States, Links, Lines
<1>1. TypeOK /\ Unborn /\ OneChild /\ OneActive /\ st[c] = "none" /\ st[p] = "accept"
      BY DEF IInv, Unborn, Accept
<1>2. CASE Fading(p) /\ st' = [st EXCEPT ![p] = "over"]
                     /\ link' = [link EXCEPT ![p] = "gone", ![c] = "gone"]
                     /\ UNCHANGED <<kid, cin_eof, client>>
      <2>1. TypeOK' /\ Unborn'
            BY <1>1, <1>2 DEF TypeOK, Unborn, Fading, client
      <2>2. OneChild'
            BY <1>1, <1>2 DEF TypeOK, OneChild
      <2>3. OneActive'
            <3>1. \A q \in Proc : Active(q)' => kid[q] = p
                  BY <1>1, <1>2 DEF TypeOK, OneActive, Active
            <3> QED BY <3>1, <1>1 DEF OneChild, OneActive, TypeOK
      <2> QED BY <2>1, <2>2, <2>3 DEF IInv
<1>3. CASE /\ ~Deaf(p)
           /\ st' = [st EXCEPT ![p] = "wait", ![c] = "prompt"]
           /\ kid' = [kid EXCEPT ![p] = c]
           /\ cin_eof' = [cin_eof EXCEPT ![c] = cin_eof[p]]
           /\ link' = [Touched(p) EXCEPT ![c] = "on"]
           /\ UNCHANGED client
      <2>1. /\ c # p /\ kid[p] = None
            /\ \A d \in Client : link'[d] = link[d] \/ link'[d] \in {"on", "hupw"}
            /\ link' \in [Client -> Links]
            BY <1>1, <1>3 DEF TypeOK, Touched
      <2>2. TypeOK'
            <3>1. st' \in [Proc -> States] /\ kid' \in [Proc -> Client \cup {None}]
                  /\ cin_eof' \in [Proc -> BOOLEAN] /\ UNCHANGED <<inbox, sent>>
                  BY <1>1, <1>3, <2>1 DEF TypeOK, client
            <3>2. \A q \in Proc : st'[q] = "wait" <=> kid'[q] # None
                  BY <1>1, <1>3, <2>1 DEF TypeOK
            <3> QED BY <1>1, <2>1, <3>1, <3>2 DEF TypeOK
      <2>3. Unborn'
            <3> SUFFICES ASSUME NEW d \in Client, link'[d] \in {"off", "backlog"}
                         PROVE  st'[d] = "none"
                BY DEF Unborn
            <3>1. d # c /\ link[d] = link'[d]
                  BY <1>1, <1>3, <2>1 DEF TypeOK, Touched
            <3>2. st[d] = "none" /\ d # p
                  BY <1>1, <3>1 DEF Unborn
            <3> QED BY <1>1, <1>3, <3>1, <3>2 DEF TypeOK
      <2>4. \A q \in Proc : kid[q] # c
            BY <1>1 DEF OneChild, TypeOK
      <2>5. OneChild'
            BY <1>1, <1>3, <2>1, <2>4 DEF OneChild, TypeOK
      <2>6. OneActive'
            <3>1. \A q \in Proc : Active(q)' => q = c
                  BY <1>1, <1>3, <2>1, <2>4 DEF TypeOK, OneActive, Active, OneChild
            <3> QED BY <3>1 DEF OneActive
      <2> QED BY <2>2, <2>3, <2>5, <2>6 DEF IInv
<1> QED BY <1>2, <1>3 DEF Accept, AfterFork, Inherited

(* A step of one process that stays what it was, moves on or ends, with no  *)
(* child gained or lost: what Prompt, Run, Leave and EndOfInput do.         *)
LEMMA MoveInv == ASSUME IInv, NEW p \in Client, st[p] \in {"prompt", "read"},
                        NEW s \in {"accept", "prompt", "read", "over"},
                        st' = [st EXCEPT ![p] = s], UNCHANGED kid,
                        cin_eof' \in [Proc -> BOOLEAN],
                        link' \in [Client -> Links],
                        \A d \in Client : link'[d] \in {"off", "backlog"} => link'[d] = link[d],
                        inbox' \in [Client -> Lines \cup {None}], UNCHANGED sent
                 PROVE  IInv'
<1> USE NamesAssumption DEF Proc, States
<1>1. TypeOK /\ Unborn /\ OneChild /\ OneActive
      BY DEF IInv
<1>2. TypeOK'
      BY <1>1 DEF TypeOK
<1>3. Unborn'
      BY <1>1 DEF Unborn, TypeOK
<1>4. OneChild'
      BY <1>1 DEF OneChild, TypeOK
<1>5. OneActive'
      <2>1. kid[p] = None /\ \A q \in Proc : Active(q)' => q = p \/ kid[q] = p
            BY <1>1 DEF TypeOK, OneActive, Active
      <2>2. \A q \in Proc : Active(q)' /\ kid[q] = p => s = "over"
            BY <1>1, <2>1 DEF TypeOK, Active, OneActive
      <2>3. s = "over" => ~Active(p)'
            BY <1>1 DEF TypeOK, Active
      <2> QED BY <1>1, <2>1, <2>2, <2>3 DEF OneChild, OneActive, TypeOK
<1> QED BY <1>2, <1>3, <1>4, <1>5 DEF IInv

(* waitpid returned: the parent accepts again or dies of its message.       *)
LEMMA ReapInv == ASSUME IInv, NEW p \in Proc, Reap(p) PROVE IInv'
<1> USE NamesAssumption DEF Proc, States, Links
<1>1. TypeOK /\ Unborn /\ OneChild /\ OneActive /\ st[p] = "wait" /\ kid[p] # None /\ Active(p)
      BY DEF IInv, Reap, Ended, TypeOK, Active
<1>2. PICK s \in {"over", "accept"} : st' = [st EXCEPT ![p] = s]
      BY DEF Reap
<1>3. kid' = [kid EXCEPT ![p] = None] /\ UNCHANGED <<cin_eof, inbox, sent>>
      BY DEF Reap, client
<1>4. /\ link' \in [Client -> Links]
      /\ \A d \in Client : link'[d] \in {"off", "backlog"} => link'[d] = link[d]
      BY <1>1 DEF Reap, Deaf, Touched, TypeOK
<1>5. TypeOK'
      BY <1>1, <1>2, <1>3, <1>4 DEF TypeOK
<1>6. Unborn'
      BY <1>1, <1>2, <1>4 DEF Unborn, TypeOK
<1>7. OneChild'
      BY <1>1, <1>2, <1>3 DEF OneChild, TypeOK
<1>8. OneActive'
      <2>1. \A q \in Proc : Active(q)' => q = p \/ (kid[q] = p /\ s = "over")
            BY <1>1, <1>2, <1>3 DEF TypeOK, OneActive, Active
      <2>2. s = "over" => ~Active(p)'
            BY <1>1, <1>2 DEF TypeOK, Active
      <2> QED BY <1>1, <2>1, <2>2 DEF OneChild, OneActive, TypeOK
<1> QED BY <1>5, <1>6, <1>7, <1>8 DEF IInv

(* The clients change their side of a connection and no process.            *)
LEMMA ClientInv == ASSUME IInv, UNCHANGED <<st, kid, cin_eof>>,
                          link' \in [Client -> Links],
                          \A d \in Client : link'[d] \in {"off", "backlog"} =>
                                              link[d] \in {"off", "backlog"},
                          inbox' \in [Client -> Lines \cup {None}], sent' \in [Client -> Nat]
                   PROVE  IInv'
BY DEF IInv, TypeOK, Unborn, OneChild, OneActive, Active

LEMMA NextInv == IInv /\ [Next]_vars => IInv'
<1> SUFFICES ASSUME IInv, [Next]_vars PROVE IInv'
    OBVIOUS
<1> USE DEF Links, Lines, client
<1>1. TypeOK
      BY DEF IInv
<1>2. ASSUME NEW p \in Proc, NEW c \in Client, Accept(p, c) PROVE IInv'
      BY <1>2, AcceptInv
<1>3. ASSUME NEW p \in Proc, Reap(p) PROVE IInv'
      BY <1>3, ReapInv
<1>4. ASSUME NEW p \in Client, Prompt(p) PROVE IInv'
      <2>1. /\ link' \in [Client -> Links]
            /\ \A d \in Client : link'[d] \in {"off", "backlog"} => link'[d] = link[d]
            BY <1>1, <1>4 DEF Prompt, Touched, TypeOK
      <2>2. PICK s \in {"over", "read"} : st' = [st EXCEPT ![p] = s]
            BY <1>4 DEF Prompt
      <2> QED BY <1>1, <1>4, <2>1, <2>2, MoveInv DEF Prompt, TypeOK
<1>5. ASSUME NEW p \in Client, Run(p) PROVE IInv'
      BY <1>1, <1>5, MoveInv DEF Run, Reading, TypeOK
<1>6. ASSUME NEW p \in Client, Leave(p) PROVE IInv'
      BY <1>1, <1>6, MoveInv DEF Leave, AfterExit, Reading, TypeOK
<1>7. ASSUME NEW p \in Client, EndOfInput(p) PROVE IInv'
      BY <1>1, <1>7, MoveInv DEF EndOfInput, TypeOK
<1>8. ASSUME NEW c \in Client, Connect(c) \/ HangUp(c) \/ ResetArrives(c)
                               \/ \E l \in Lines : Send(c, l)
      PROVE  IInv'
      BY <1>1, <1>8, ClientInv DEF Connect, HangUp, ResetArrives, Send, TypeOK
<1>9. CASE UNCHANGED vars
      BY <1>1, <1>9, ClientInv DEF vars, TypeOK
<1> QED BY <1>2, <1>3, <1>4, <1>5, <1>6, <1>7, <1>8, <1>9 DEF Next, Step

(* np_simple never has two processes that accept or serve, whatever clients *)
(* do and however many processes have become servers (main, exe_shell).     *)
THEOREM OneClientHolds == Spec => []OneClient
<1>1. IInv => OneClient
      BY DEF IInv, OneActive, Active, OneClient, Busy
<1> QED BY InitInv, NextInv, <1>1, PTL DEF Spec

(* The types, and that exactly the processes with a child wait (main).      *)
THEOREM SimpleTypeOK == Spec => []TypeOK
<1>1. IInv => TypeOK
      BY DEF IInv
<1> QED BY InitInv, NextInv, <1>1, PTL DEF Spec
-------------------------------------------------------------------------------
(* Why only a client that left without exit makes a server.  A client's     *)
(* process accepts only when its cin is at end of file; and a process whose *)
(* cin is has lost its own client, or has inherited it from its parent,     *)
(* which waits.  Parents are older than their children, so the oldest such  *)
(* process has lost its client.                                             *)
Alive(p)   == st[p] \notin {"none", "over"}
EofOf      == /\ ~cin_eof[Root]
              /\ \A p \in Client : st[p] \in {"accept", "wait"} => cin_eof[p]
              /\ \A p \in Client : Alive(p) /\ cin_eof[p] =>
                   p \in HungUp \/ \E q \in Client : kid[q] = p /\ cin_eof[q]
Older(age) == \A p \in Proc : kid[p] # None => age[p] < age[kid[p]]
Aged       == \E age \in [Proc -> Nat] : Older(age)
EInv       == IInv /\ EofOf /\ Aged

LEMMA LeastOf == ASSUME NEW S \in SUBSET Nat, S # {} PROVE \E x \in S : \A y \in S : x <= y
<1>1. \E x \in S : \A y \in S : <<y, x>> \notin OpToRel(<, Nat)
      BY WFMin, NatLessThanWellFounded
<1>2. \A x, y \in Nat : y < x => <<y, x>> \in OpToRel(<, Nat)
      BY DEF OpToRel
<1>3. \A x, y \in Nat : y < x \/ x <= y
      OBVIOUS
<1> QED BY <1>1, <1>2, <1>3

LEMMA LostByOldest == ASSUME EInv, NEW p \in Client, Alive(p), cin_eof[p] PROVE HungUp # {}
<1> DEFINE T == {q \in Client : Alive(q) /\ cin_eof[q]}
<1>1. PICK age \in [Proc -> Nat] : Older(age)
      BY DEF EInv, Aged
<1>2. PICK q \in T : \A r \in T : age[q] <= age[r]
      <2>1. {age[r] : r \in T} \in SUBSET Nat /\ {age[r] : r \in T} # {}
            BY <1>1 DEF Proc
      <2>2. PICK x \in {age[r] : r \in T} : \A y \in {age[r] : r \in T} : x <= y
            BY <2>1, LeastOf
      <2> QED BY <2>2
<1>3. SUFFICES ASSUME NEW r \in Client, kid[r] = q, cin_eof[r] PROVE FALSE
      BY <1>2 DEF EInv, EofOf
<1>4. kid[r] # None /\ st[r] = "wait"
      BY <1>3, NamesAssumption DEF EInv, IInv, TypeOK, Proc
<1>5. r \in T /\ age[r] < age[q]
      BY <1>1, <1>3, <1>4 DEF Older, Alive, Proc
<1>6. age[r] \in Nat /\ age[q] \in Nat
      BY <1>1 DEF Proc
<1> QED BY <1>2, <1>5, <1>6

LEMMA EofAccept == ASSUME EInv, IInv', NEW p \in Proc, NEW c \in Client, Accept(p, c) PROVE EInv'
<1> USE NamesAssumption DEF Proc, States, Links
<1>1. TypeOK /\ Unborn /\ OneChild /\ st[c] = "none" /\ st[p] = "accept" /\ EofOf
      BY DEF EInv, IInv, Unborn, Accept
<1>2. CASE Fading(p) /\ st' = [st EXCEPT ![p] = "over"]
                     /\ link' = [link EXCEPT ![p] = "gone", ![c] = "gone"]
                     /\ UNCHANGED <<kid, cin_eof, client>>
      <2>1. link[c] = "backlog" /\ p # c
            BY <1>1 DEF Accept
      <2>2. EofOf'
            <3>1. \A q \in Client : st'[q] \in {"accept", "wait"} => st[q] \in {"accept", "wait"}
                  BY <1>1, <1>2 DEF TypeOK
            <3>2. \A q \in Client : Alive(q)' => Alive(q) /\ (q \in HungUp => q \in HungUp')
                  BY <1>1, <1>2, <2>1 DEF TypeOK, Alive, HungUp
            <3> QED BY <1>1, <1>2, <3>1, <3>2 DEF EofOf
      <2>3. Aged'
            BY <1>2 DEF EInv, Aged, Older
      <2> QED BY <2>2, <2>3 DEF EInv
<1>3. CASE /\ ~Deaf(p)
           /\ st' = [st EXCEPT ![p] = "wait", ![c] = "prompt"]
           /\ kid' = [kid EXCEPT ![p] = c]
           /\ cin_eof' = [cin_eof EXCEPT ![c] = cin_eof[p]]
           /\ link' = [Touched(p) EXCEPT ![c] = "on"]
           /\ UNCHANGED client
      <2>1. c # p /\ kid[p] = None /\ kid[c] = None /\ link[c] = "backlog" /\ \A q \in Proc : kid[q] # c
            BY <1>1 DEF TypeOK, Accept, OneChild
      <2>2. EofOf'
            <3>1. /\ \A q \in Client : q # c /\ q \in HungUp => q \in HungUp'
                  /\ \A q \in Proc : q # c => cin_eof'[q] = cin_eof[q]
                  /\ \A q \in Proc : q # p => kid'[q] = kid[q]
                  /\ kid'[p] = c /\ cin_eof'[c] = cin_eof[p]
                  BY <1>1, <1>3 DEF TypeOK, Touched, HungUp
            <3>2. ~cin_eof'[Root]
                  BY <1>1, <3>1 DEF EofOf
            <3>3. ASSUME NEW q \in Client, st'[q] \in {"accept", "wait"} PROVE cin_eof'[q]
                  BY <1>1, <1>3, <3>1, <3>3 DEF TypeOK, EofOf
            <3>4. ASSUME NEW q \in Client, Alive(q)', cin_eof'[q]
                  PROVE  q \in HungUp' \/ \E r \in Client : kid'[r] = q /\ cin_eof'[r]
                  <4>1. CASE q = c
                        <5>1. cin_eof[p] /\ p \in Client
                              BY <1>1, <3>1, <3>4, <4>1 DEF EofOf
                        <5> QED BY <2>1, <3>1, <4>1, <5>1
                  <4>2. CASE q # c
                        <5>1. Alive(q) /\ cin_eof[q]
                              BY <1>1, <1>3, <3>1, <3>4, <4>2 DEF TypeOK, Alive
                        <5>2. q \in HungUp \/ \E r \in Client : kid[r] = q /\ cin_eof[r]
                              BY <1>1, <5>1 DEF EofOf
                        <5>3. ASSUME NEW r \in Client, kid[r] = q, cin_eof[r] PROVE kid'[r] = q /\ cin_eof'[r]
                              BY <2>1, <3>1, <5>3
                        <5> QED BY <3>1, <4>2, <5>2, <5>3
                  <4> QED BY <4>1, <4>2
            <3> QED BY <3>2, <3>3, <3>4 DEF EofOf
      <2>3. Aged'
            <3>1. PICK age \in [Proc -> Nat] : Older(age)
                  BY DEF EInv, Aged
            <3> DEFINE new == [age EXCEPT ![c] = age[p] + 1]
            <3>2. new \in [Proc -> Nat] /\ \A q \in Proc : new[q] = IF q = c THEN age[p] + 1 ELSE age[q]
                  BY <3>1
            <3> HIDE DEF new
            <3>3. ASSUME NEW q \in Proc, kid'[q] # None PROVE new[q] < new[kid'[q]]
                  <4>1. CASE q = p
                        <5>1. kid'[p] = c /\ new[p] = age[p] /\ new[c] = age[p] + 1 /\ age[p] \in Nat
                              BY <1>1, <1>3, <2>1, <3>1, <3>2 DEF TypeOK
                        <5> QED BY <4>1, <5>1
                  <4>2. CASE q # p
                        <5>1. kid'[q] = kid[q] /\ q # c /\ kid[q] # c /\ kid[q] \in Proc
                              BY <1>1, <1>3, <2>1, <3>3, <4>2 DEF TypeOK
                        <5>2. age[q] < age[kid[q]]
                              BY <3>1, <3>3, <5>1 DEF Older
                        <5> QED BY <3>2, <5>1, <5>2
                  <4> QED BY <4>1, <4>2
            <3> QED BY <3>2, <3>3 DEF Aged, Older
      <2> QED BY <2>2, <2>3 DEF EInv
<1> QED BY <1>2, <1>3 DEF Accept, AfterFork, Inherited

(* Every other step: it forks nobody, and who meets the end of the input    *)
(* has lost its client.                                                     *)
LEMMA EofOther ==
  ASSUME EInv, IInv',
         ~cin_eof'[Root],
         \A q \in Client : cin_eof[q] => cin_eof'[q],
         \A q \in Client : cin_eof'[q] => cin_eof[q] \/ q \in HungUp',
         \A q \in Client : st'[q] \in {"accept", "wait"} => st[q] \in {"accept", "wait"} \/ cin_eof'[q],
         \A q \in Client : Alive(q)' => Alive(q) /\ (q \in HungUp => q \in HungUp'),
         \A q \in Proc : kid'[q] = kid[q] \/ (kid'[q] = None /\ ~Alive(kid[q]))
  PROVE  EInv'
<1>1. EofOf'
      <2>1. ASSUME NEW q \in Client, Alive(q)', cin_eof'[q]
            PROVE  q \in HungUp' \/ \E r \in Client : kid'[r] = q /\ cin_eof'[r]
            <3> SUFFICES ASSUME q \notin HungUp' PROVE \E r \in Client : kid'[r] = q /\ cin_eof'[r]
                OBVIOUS
            <3>1. Alive(q) /\ cin_eof[q] /\ q \notin HungUp
                  BY <2>1
            <3>2. PICK r \in Client : kid[r] = q /\ cin_eof[r]
                  BY <3>1 DEF EInv, EofOf
            <3> QED BY <3>1, <3>2 DEF Proc
      <2> QED BY <2>1 DEF EInv, EofOf
<1>2. Aged'
      BY DEF EInv, Aged, Older
<1> QED BY <1>1, <1>2 DEF EInv

LEMMA EofNext == EInv /\ [Next]_vars => EInv'
<1> SUFFICES ASSUME EInv, [Next]_vars PROVE EInv'
    OBVIOUS
<1>1. TypeOK /\ IInv' /\ EofOf
      BY NextInv DEF EInv, IInv
<1> USE NamesAssumption DEF Proc, Alive, HungUp, Touched
<1>2. ASSUME NEW p \in Proc, NEW c \in Client, Accept(p, c) PROVE EInv'
      BY <1>1, <1>2, EofAccept
<1>3. ASSUME NEW p \in Proc, Reap(p) PROVE EInv'
      BY <1>1, <1>3, EofOther DEF Reap, Ended, TypeOK, EofOf, Deaf
<1>4. ASSUME NEW p \in Client, Prompt(p) PROVE EInv'
      BY <1>1, <1>4, EofOther DEF Prompt, TypeOK, EofOf, Deaf
<1>5. ASSUME NEW p \in Client, Run(p) \/ Leave(p) PROVE EInv'
      BY <1>1, <1>5, EofOther DEF Run, Leave, AfterExit, Reading, TypeOK, EofOf
<1>6. ASSUME NEW p \in Client, EndOfInput(p) PROVE EInv'
      BY <1>1, <1>6, EofOther DEF EndOfInput, ReadsOn, TypeOK, EofOf
<1>7. ASSUME NEW c \in Client, Connect(c) \/ HangUp(c) \/ ResetArrives(c)
                               \/ \E l \in Lines : Send(c, l)
      PROVE  EInv'
      BY <1>1, <1>7, EofOther DEF Connect, HangUp, ResetArrives, Send, TypeOK, EofOf
<1>8. CASE UNCHANGED vars
      BY <1>1, <1>8, EofOther DEF vars, EofOf
<1> QED BY <1>2, <1>3, <1>4, <1>5, <1>6, <1>7, <1>8 DEF Next, Step

(* Unless a client has left without exit, only the process that was started *)
(* accepts: no child of np_simple returns into the accept loop (exe_shell). *)
THEOREM RootAlwaysServes == Spec => []RootServes
<1>1. Init => EInv
      <2> SUFFICES ASSUME Init PROVE EInv
          OBVIOUS
      <2>1. EofOf
            BY NamesAssumption DEF Init, EofOf, Alive, Proc
      <2>2. Aged
            <3>1. [p \in Proc |-> 0] \in [Proc -> Nat] /\ Older([p \in Proc |-> 0])
                  BY DEF Init, Older
            <3> QED BY <3>1 DEF Aged
      <2> QED BY <2>1, <2>2, InitInv DEF EInv
<1>2. EInv => RootServes
      <2> SUFFICES ASSUME EInv, NEW p \in Client, st[p] = "accept" PROVE HungUp # {}
          BY DEF RootServes
      <2> QED BY LostByOldest DEF EInv, EofOf, Alive
<1> QED BY <1>1, <1>2, EofNext, PTL DEF Spec

===============================================================================
