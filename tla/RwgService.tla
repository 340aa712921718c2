------------------------------ MODULE RwgService ------------------------------
(***************************************************************************)
(* What the remote working ground promises its users, whichever server     *)
(* implements it: a session has the smallest unused id while it is logged  *)
(* in, chosen names are never shared, and a user pipe joins the two        *)
(* sessions it was made between and dies with either of them.              *)
(*                                                                         *)
(* There are no sockets, rounds or descriptors here: SingleProc is shown   *)
(* to implement this specification for clients that take turns and leave   *)
(* with exit, which is what the assignment assumes of them.                *)
(***************************************************************************)
EXTENDS Integers

CONSTANTS Session,    \* one member per connection ever made
          MaxUsers,   \* 30 in the program
          Names,      \* the names a user can choose
          NoName      \* "(no name)"

VARIABLES uid,        \* uid[s]: the id of s, 0 when s is not logged in
          nick,       \* nick[s]: the name of s
          pipes       \* <<s, t>>: s piped output to t, which has not read it

svars == <<uid, nick, pipes>>

LoggedIn == {s \in Session : uid[s] # 0}
Unused   == (1..MaxUsers) \ {uid[s] : s \in Session}

Init == /\ uid = [s \in Session |-> 0]
        /\ nick = [s \in Session |-> NoName]
        /\ pipes = {}

Enter(s) == /\ uid[s] = 0
            /\ \E i \in Unused :
                 /\ \A j \in Unused : i <= j
                 /\ uid' = [uid EXCEPT ![s] = i]
            /\ UNCHANGED <<nick, pipes>>

Rename(s, n) == /\ uid[s] # 0
                /\ \A t \in LoggedIn \ {s} : nick[t] # n
                /\ nick' = [nick EXCEPT ![s] = n]
                /\ UNCHANGED <<uid, pipes>>

(* A command line of s reads the pipes from "sources" and then makes pipes  *)
(* to "targets"; it cannot make a pipe that exists already.                 *)
Transfer(s, sources, targets) ==
  LET read == {<<t, s>> : t \in sources}
      made == {<<s, t>> : t \in targets}
  IN /\ uid[s] # 0
     /\ read \subseteq pipes
     /\ targets \subseteq LoggedIn
     /\ made \cap pipes = {}
     /\ pipes' = (pipes \ read) \cup made
     /\ UNCHANGED <<uid, nick>>

Leave(s) == /\ uid[s] # 0
            /\ uid' = [uid EXCEPT ![s] = 0]
            /\ nick' = [nick EXCEPT ![s] = NoName]
            /\ pipes' = {p \in pipes : s \notin {p[1], p[2]}}

Next == \E s \in Session :
          \/ Enter(s)
          \/ \E n \in Names : Rename(s, n)
          \/ \E sources, targets \in SUBSET Session : Transfer(s, sources, targets)
          \/ Leave(s)

Spec == Init /\ [][Next]_svars

(* Two sessions that are logged in never share an id or a chosen name, and  *)
(* a pipe only ever joins two sessions that are logged in.                  *)
Coherent == /\ \A s, t \in LoggedIn : s # t => uid[s] # uid[t]
            /\ \A s, t \in LoggedIn : s # t /\ nick[s] = nick[t] => nick[s] = NoName
            /\ pipes \subseteq LoggedIn \X LoggedIn
===============================================================================
