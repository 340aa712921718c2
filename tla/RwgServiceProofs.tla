--------------------------- MODULE RwgServiceProofs ---------------------------
(* What every implementation of RwgService owes its users.                  *)
EXTENDS RwgService, TLAPS

(* Coherent does not survive Enter by itself: a session that comes back     *)
(* must have lost its name, and no pipe may be waiting for it.              *)
Inv == /\ Coherent
       /\ uid \in [Session -> Int] /\ nick \in [Session -> Names \cup {NoName}]
       /\ \A s \in Session : uid[s] = 0 => nick[s] = NoName

(* Every step of the service keeps Inv: an id is taken only when unused, a  *)
(* name only when free, a pipe is made between sessions that are logged in  *)
(* and goes with the one that leaves.                                       *)
LEMMA StepKeepsInv == Inv /\ [Next]_svars => Inv'
<1> SUFFICES ASSUME Inv, [Next]_svars PROVE Inv'
  OBVIOUS
<1> USE DEF Inv, Coherent, LoggedIn
<1>1. ASSUME NEW s \in Session, Enter(s) PROVE Inv'
  <2>1. PICK i \in Unused : uid' = [uid EXCEPT ![s] = i]
    BY <1>1 DEF Enter
  <2>2. i \in Int /\ i # 0 /\ \A t \in Session : uid[t] # i
    BY <2>1 DEF Unused
  <2>3. UNCHANGED <<nick, pipes>> /\ uid[s] = 0
    BY <1>1 DEF Enter
  <2> QED BY <2>1, <2>2, <2>3
<1>2. ASSUME NEW s \in Session, NEW n \in Names, Rename(s, n) PROVE Inv'
  BY <1>2 DEF Rename
<1>3. ASSUME NEW s \in Session, NEW sources \in SUBSET Session,
             NEW targets \in SUBSET Session, Transfer(s, sources, targets)
      PROVE Inv'
  BY <1>3 DEF Transfer
<1>4. ASSUME NEW s \in Session, Leave(s) PROVE Inv'
  BY <1>4 DEF Leave
<1>5. CASE UNCHANGED svars
  BY <1>5 DEF svars
<1> QED BY <1>1, <1>2, <1>3, <1>4, <1>5 DEF Next

(* Sessions that are logged in never share an id or a chosen name, and no   *)
(* pipe outlives a session it joins, whatever the sessions do.              *)
THEOREM ServiceIsCoherent == Spec => []Coherent
<1>1. Init => Inv
  BY DEF Init, Inv, Coherent, LoggedIn
<1>2. Inv => Coherent
  BY DEF Inv
<1> QED BY <1>1, <1>2, StepKeepsInv, PTL DEF Spec
===============================================================================
