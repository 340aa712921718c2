------------------------------ MODULE FifoProofs ------------------------------
(***************************************************************************)
(* The FIFOs behind the user pipes of np_multi_proc, for any number of     *)
(* users and command lines.  That a command reads what was announced to it *)
(* is proved of users who type when the children are ready, and leave when *)
(* no pipe is left of them: without either, it does not hold.              *)
(***************************************************************************)
EXTENDS Fifo, TLAPS

USE UserAssumption, ModeAssumption DEF Jobs, Peer

-------------------------------------------------------------------------------
(* The types.  A child that is at a FIFO has users to name it after, since  *)
(* a command of the model has a user to read from or to write to.           *)
JobType == [at : Places, u : Peer, rd : Peer, wr : Peer,
            in : 0..MaxJobs, out : 0..MaxJobs, want : 0..MaxJobs]

PlaceOf(k) == /\ job[k].at \in {"read", "rdwait", "unlink"} => job[k].rd # 0 /\ job[k].u # 0
              /\ job[k].at \in {"make", "open", "wrwait"} => job[k].wr # 0 /\ job[k].u # 0
TypeInv == /\ TypeOK
           /\ \A u \in User : sh[u] = "fork" =>
                cmd[u].id \in Jobs /\ <<cmd[u].rd, cmd[u].wr>> # <<0, 0>>
           /\ \A k \in Jobs : PlaceOf(k)

LEMMA TypeInit == Init => TypeInv
<1> SUFFICES ASSUME Init PROVE TypeInv
  OBVIOUS
<1>1. TypeOK
  BY DEF Init, TypeOK, NoCmd, NoJob, Places
<1>2. \A k \in Jobs : PlaceOf(k)
  BY DEF Init, PlaceOf, NoJob
<1> QED BY <1>1, <1>2 DEF Init, TypeInv

-------------------------------------------------------------------------------
(* What a step does to the children.                                        *)
Reads(k)  == <<job[k].rd, job[k].u>>
Writes(k) == <<job[k].u, job[k].wr>>

Becomes(k, place, n, m) ==
  /\ job'[k].at = place /\ job'[k].in = n /\ job'[k].out = m
  /\ job'[k].u = job[k].u /\ job'[k].rd = job[k].rd /\ job'[k].wr = job[k].wr
  /\ job'[k].want = job[k].want
Stays(k) == Becomes(k, job[k].at, job[k].in, job[k].out)

Met(l, n, place) == n # 0 /\ job[l].at = place /\ n \in {job[l].in, job[l].out}

LEMMA MeetsOthers ==
  ASSUME TypeOK, NEW n, NEW waiting, NEW next \in Places
  PROVE  /\ Meets(n, waiting, next) \in [Jobs -> JobType]
         /\ \A k \in Jobs :
              LET m == Meets(n, waiting, next)[k]
              IN /\ m.at = IF Met(k, n, waiting) THEN next ELSE job[k].at
                 /\ m.u = job[k].u /\ m.rd = job[k].rd /\ m.wr = job[k].wr
                 /\ m.in = job[k].in /\ m.out = job[k].out /\ m.want = job[k].want
BY DEF TypeOK, Meets, Met, JobType

LEMMA JobsOfOpenRead ==
  ASSUME TypeInv, NEW k \in Jobs, OpenRead(k)
  PROVE  LET n     == name[Reads(k)]
             waits == n # 0 /\ Writers(n) = {}
         IN /\ n \in 0..MaxJobs /\ job' \in [Jobs -> JobType]
            /\ Becomes(k, IF waits THEN "rdwait" ELSE "unlink", n, job[k].out)
            /\ \A l \in Jobs \ {k} :
                 Becomes(l, IF ~waits /\ Met(l, n, "wrwait") THEN "run" ELSE job[l].at,
                         job[l].in, job[l].out)
<1> DEFINE n == name[Reads(k)]
<1>1. TypeOK /\ job \in [Jobs -> JobType] /\ "rdwait" \in Places /\ "unlink" \in Places /\ "run" \in Places
  BY DEF TypeInv, TypeOK, JobType, Places
<1>2. n \in 0..MaxJobs
  BY DEF TypeInv, TypeOK, PlaceOf, OpenRead, At, Reads, Pairs
<1>3. CASE n # 0 /\ Writers(n) = {}
  <2>1. job' = [job EXCEPT ![k].at = "rdwait", ![k].in = n]
    BY <1>3 DEF OpenRead, Reads
  <2> HIDE DEF n
  <2>2. job' \in [Jobs -> JobType] /\ Becomes(k, "rdwait", n, job[k].out)
        /\ \A l \in Jobs \ {k} : Stays(l)
    BY <1>1, <1>2, <2>1 DEF JobType, Becomes, Stays
  <2> QED BY <1>2, <1>3, <2>2 DEF n, Stays
<1>4. CASE ~(n # 0 /\ Writers(n) = {})
  <2> DEFINE f == Meets(n, "wrwait", "run")
  <2>1. job' = [f EXCEPT ![k].at = "unlink", ![k].in = n]
    BY <1>4 DEF OpenRead, Reads
  <2>2. /\ f \in [Jobs -> JobType]
        /\ \A l \in Jobs :
             /\ f[l].at = IF Met(l, n, "wrwait") THEN "run" ELSE job[l].at
             /\ f[l].u = job[l].u /\ f[l].rd = job[l].rd /\ f[l].wr = job[l].wr
             /\ f[l].in = job[l].in /\ f[l].out = job[l].out /\ f[l].want = job[l].want
    BY <1>1, MeetsOthers
  <2> HIDE DEF f, n
  <2>3. job' \in [Jobs -> JobType] /\ Becomes(k, "unlink", n, job[k].out)
    <3>1. /\ job' \in [Jobs -> JobType] /\ job'[k].at = "unlink" /\ job'[k].in = n
          /\ job'[k].u = f[k].u /\ job'[k].rd = f[k].rd /\ job'[k].wr = f[k].wr
          /\ job'[k].out = f[k].out /\ job'[k].want = f[k].want
      <4>1. f \in [Jobs -> JobType]
        BY <2>2
      <4> QED BY <1>1, <1>2, <2>1, <4>1 DEF JobType
    <3> QED BY <2>2, <3>1 DEF Becomes
  <2>4. \A l \in Jobs \ {k} :
          Becomes(l, IF Met(l, n, "wrwait") THEN "run" ELSE job[l].at, job[l].in, job[l].out)
    BY <1>1, <1>2, <2>1, <2>2 DEF JobType, Becomes
  <2> QED BY <1>2, <1>4, <2>3, <2>4 DEF n
<1> QED BY <1>3, <1>4

LEMMA JobsOfOpenWrite ==
  ASSUME TypeInv, NEW k \in Jobs, OpenWrite(k)
  PROVE  LET n     == name[Writes(k)]
             waits == n # 0 /\ Readers(n) = {}
         IN /\ n \in 0..MaxJobs /\ job' \in [Jobs -> JobType]
            /\ Becomes(k, IF waits THEN "wrwait" ELSE "run", job[k].in, n)
            /\ \A l \in Jobs \ {k} :
                 Becomes(l, IF ~waits /\ Met(l, n, "rdwait") THEN "unlink" ELSE job[l].at,
                         job[l].in, job[l].out)
<1> DEFINE n == name[Writes(k)]
<1>1. TypeOK /\ job \in [Jobs -> JobType] /\ "wrwait" \in Places /\ "unlink" \in Places /\ "run" \in Places
  BY DEF TypeInv, TypeOK, JobType, Places
<1>2. n \in 0..MaxJobs
  BY DEF TypeInv, TypeOK, PlaceOf, OpenWrite, At, Writes, Pairs
<1>3. CASE n # 0 /\ Readers(n) = {}
  <2>1. job' = [job EXCEPT ![k].at = "wrwait", ![k].out = n]
    BY <1>3 DEF OpenWrite, Writes
  <2> HIDE DEF n
  <2>2. job' \in [Jobs -> JobType] /\ Becomes(k, "wrwait", job[k].in, n)
        /\ \A l \in Jobs \ {k} : Stays(l)
    BY <1>1, <1>2, <2>1 DEF JobType, Becomes, Stays
  <2> QED BY <1>2, <1>3, <2>2 DEF n, Stays
<1>4. CASE ~(n # 0 /\ Readers(n) = {})
  <2> DEFINE f == Meets(n, "rdwait", "unlink")
  <2>1. job' = [f EXCEPT ![k].at = "run", ![k].out = n]
    BY <1>4 DEF OpenWrite, Writes
  <2>2. /\ f \in [Jobs -> JobType]
        /\ \A l \in Jobs :
             /\ f[l].at = IF Met(l, n, "rdwait") THEN "unlink" ELSE job[l].at
             /\ f[l].u = job[l].u /\ f[l].rd = job[l].rd /\ f[l].wr = job[l].wr
             /\ f[l].in = job[l].in /\ f[l].out = job[l].out /\ f[l].want = job[l].want
    BY <1>1, MeetsOthers
  <2> HIDE DEF f, n
  <2>3. job' \in [Jobs -> JobType] /\ Becomes(k, "run", job[k].in, n)
    <3>1. /\ job' \in [Jobs -> JobType] /\ job'[k].at = "run" /\ job'[k].out = n
          /\ job'[k].u = f[k].u /\ job'[k].rd = f[k].rd /\ job'[k].wr = f[k].wr
          /\ job'[k].in = f[k].in /\ job'[k].want = f[k].want
      <4>1. f \in [Jobs -> JobType]
        BY <2>2
      <4> QED BY <1>1, <1>2, <2>1, <4>1 DEF JobType
    <3> QED BY <2>2, <3>1 DEF Becomes
  <2>4. \A l \in Jobs \ {k} :
          Becomes(l, IF Met(l, n, "rdwait") THEN "unlink" ELSE job[l].at, job[l].in, job[l].out)
    BY <1>1, <1>2, <2>1, <2>2 DEF JobType, Becomes
  <2> QED BY <1>2, <1>4, <2>3, <2>4 DEF n
<1> QED BY <1>3, <1>4

LEMMA JobsOfMove ==
  ASSUME TypeInv, NEW k \in Jobs, Unlink(k) \/ MkFifo(k)
  PROVE  /\ job' \in [Jobs -> JobType] /\ \A l \in Jobs \ {k} : Stays(l)
         /\ Becomes(k, IF MkFifo(k) THEN "open" ELSE NextAt(k), job[k].in, job[k].out)
<1>1. job \in [Jobs -> JobType] /\ "open" \in Places /\ NextAt(k) \in Places
  BY DEF TypeInv, TypeOK, JobType, Places, NextAt
<1>2. CASE MkFifo(k)
  BY <1>1, <1>2 DEF JobType, MkFifo, Becomes, Stays
<1>3. CASE Unlink(k) /\ ~MkFifo(k)
  BY <1>1, <1>3 DEF JobType, Unlink, Becomes, Stays
<1> QED BY <1>2, <1>3

LEMMA JobsOfRun ==
  ASSUME TypeInv, NEW k \in Jobs, Run(k)
  PROVE  /\ job' \in [Jobs -> JobType] /\ \A l \in Jobs \ {k} : Stays(l)
         /\ job'[k] = [NoJob EXCEPT !.at = "over"]
<1>1. job \in [Jobs -> JobType] /\ [NoJob EXCEPT !.at = "over"] \in JobType
  <2>1. job \in [Jobs -> JobType]
    BY DEF TypeInv, TypeOK, JobType
  <2>2. [NoJob EXCEPT !.at = "over"] \in JobType
    BY DEF JobType, Places, NoJob
  <2> QED BY <2>1, <2>2
<1> QED BY <1>1 DEF Run, Becomes, Stays

LEMMA JobsOfFork ==
  ASSUME TypeInv, NEW u \in User, Fork(u), NEW k \in Jobs, cmd[u].id = k
  PROVE  /\ job' \in [Jobs -> JobType] /\ \A l \in Jobs \ {k} : Stays(l)
         /\ job'[k].at = IF cmd[u].rd # 0 THEN "read" ELSE "make"
         /\ job'[k].u = u /\ job'[k].rd = cmd[u].rd /\ job'[k].wr = cmd[u].wr
         /\ job'[k].in = 0 /\ job'[k].out = 0
         /\ job'[k].want = IF cmd[u].rd # 0 THEN made[<<cmd[u].rd, u>>] ELSE 0
<1> DEFINE c    == cmd[u]
           want == IF c.rd # 0 THEN made[<<c.rd, u>>] ELSE 0
           at   == IF c.rd # 0 THEN "read" ELSE "make"
           new  == [NoJob EXCEPT !.at = at, !.u = u, !.rd = c.rd, !.wr = c.wr, !.want = want]
<1>1. job' = [job EXCEPT ![k] = new]
  BY DEF Fork
<1>2. job \in [Jobs -> JobType] /\ c \in [rd : Peer, wr : Peer, id : 0..MaxJobs]
  BY DEF TypeInv, TypeOK, JobType
<1>3. want \in 0..MaxJobs /\ at \in Places
  <2>1. c.rd # 0 => <<c.rd, u>> \in Pairs
    BY <1>2 DEF Pairs
  <2>2. made \in [Pairs -> 0..MaxJobs]
    BY DEF TypeInv, TypeOK
  <2> QED BY <2>1, <2>2 DEF Places
<1> HIDE DEF c, want, at
<1>4. /\ new \in JobType /\ new.at = at /\ new.u = u /\ new.rd = c.rd /\ new.wr = c.wr
      /\ new.in = 0 /\ new.out = 0 /\ new.want = want
  <2>1. NoJob \in JobType /\ NoJob.in = 0 /\ NoJob.out = 0
    BY DEF NoJob, JobType, Places
  <2>2. c.rd \in Peer /\ c.wr \in Peer /\ u \in Peer
    BY <1>2
  <2> QED BY ONLY <1>3, <2>1, <2>2 DEF JobType
<1> HIDE DEF new
<1>5. /\ job' \in [Jobs -> JobType] /\ \A l \in Jobs \ {k} : Stays(l)
      /\ job'[k] = new
  BY <1>1, <1>2, <1>4 DEF Stays, Becomes
<1> QED BY <1>4, <1>5 DEF c, want, at

LEMMA TypeStep == TypeInv /\ [Next]_vars => TypeInv'
<1> SUFFICES ASSUME TypeInv, [Next]_vars PROVE TypeInv'
  OBVIOUS
<1>0. NoJob \in JobType /\ NoCmd \in [rd : Peer, wr : Peer, id : 0..MaxJobs] /\ TypeOK
  BY DEF NoJob, NoCmd, JobType, Places, TypeInv
<1>1. job \in [Jobs -> JobType]
  BY DEF TypeInv, TypeOK, JobType
<1>2. CASE UNCHANGED vars
  BY <1>2 DEF TypeInv, TypeOK, PlaceOf, vars
<1>3. ASSUME NEW k \in Jobs, Child(k) PROVE TypeInv'
  <2>1. UNCHANGED <<here, flag, sh, cmd, made, jobs>>
    BY <1>3 DEF Child, OpenRead, Unlink, MkFifo, OpenWrite, Run
  <2>2. job' \in [Jobs -> JobType] /\ \A l \in Jobs : PlaceOf(l)'
    <3>0. \A l \in Jobs : PlaceOf(l) /\ job[l].u \in Peer
      BY <1>0, <1>1 DEF TypeInv, JobType
    <3> USE DEF PlaceOf, Becomes, Stays
    <3>1. CASE OpenRead(k)
      <4>1. job[k].at = "read"
        BY <3>1 DEF OpenRead, At
      <4>2. /\ job' \in [Jobs -> JobType] /\ job'[k].at \in {"rdwait", "unlink"}
            /\ job'[k].u = job[k].u /\ job'[k].rd = job[k].rd
            /\ \A l \in Jobs \ {k} : /\ job'[l].at \in {job[l].at, "run"}
                                     /\ job'[l].u = job[l].u /\ job'[l].rd = job[l].rd
                                     /\ job'[l].wr = job[l].wr
        BY <3>1, JobsOfOpenRead
      <4> QED BY <3>0, <4>1, <4>2
    <3>2. CASE Unlink(k) \/ MkFifo(k)
      BY <3>0, <3>2, JobsOfMove DEF Unlink, MkFifo, At, NextAt
    <3>3. CASE OpenWrite(k)
      <4>1. job[k].at = "open"
        BY <3>3 DEF OpenWrite, At
      <4>2. /\ job' \in [Jobs -> JobType] /\ job'[k].at \in {"wrwait", "run"}
            /\ job'[k].u = job[k].u /\ job'[k].wr = job[k].wr
            /\ \A l \in Jobs \ {k} : /\ \/ job'[l].at = job[l].at
                                        \/ job'[l].at = "unlink" /\ job[l].at = "rdwait"
                                     /\ job'[l].u = job[l].u /\ job'[l].rd = job[l].rd
                                     /\ job'[l].wr = job[l].wr
        BY <3>3, JobsOfOpenWrite DEF Met
      <4> QED BY <3>0, <4>1, <4>2
    <3>4. CASE Run(k)
      BY <3>0, <3>4, JobsOfRun DEF NoJob
    <3> QED BY <1>3, <3>1, <3>2, <3>3, <3>4 DEF Child
  <2>3. name' \in [Pairs -> 0..MaxJobs]
    <3>1. name \in [Pairs -> 0..MaxJobs]
      BY <1>0 DEF TypeOK
    <3>2. CASE MkFifo(k)
      <4>1. <<job[k].u, job[k].wr>> \in Pairs
        BY <1>0, <3>2 DEF MkFifo, At, TypeInv, PlaceOf, TypeOK, Pairs
      <4> QED BY <3>1, <3>2, <4>1 DEF MkFifo
    <3>3. CASE Unlink(k)
      <4>1. <<job[k].rd, job[k].u>> \in Pairs
        BY <1>0, <3>3 DEF Unlink, At, TypeInv, PlaceOf, TypeOK, Pairs
      <4> QED BY <3>1, <3>3, <4>1 DEF Unlink, Unlinked
    <3> QED BY <1>3, <3>1, <3>2, <3>3 DEF Child, OpenRead, OpenWrite, Run
  <2>4. data' \in [Jobs -> SUBSET Jobs]
    <3>1. data \in [Jobs -> SUBSET Jobs]
      BY <1>0 DEF TypeOK
    <3>2. CASE Run(k)
      BY <3>1, <3>2 DEF Run
    <3> QED BY <1>3, <3>1, <3>2 DEF Child, OpenRead, Unlink, MkFifo, OpenWrite
  <2> QED BY <1>0, <2>1, <2>2, <2>3, <2>4 DEF TypeInv, TypeOK, JobType
<1>4. ASSUME NEW u \in User, Shell(u) PROVE TypeInv'
  <2>1. CASE Fork(u)
    <3>1. PICK k \in Jobs : k = cmd[u].id
      BY <2>1 DEF Fork, TypeInv
    <3>2. job' \in [Jobs -> JobType]
      BY <2>1, <3>1, JobsOfFork
    <3>3. PlaceOf(k)'
      <4>1. u # 0 /\ <<cmd[u].rd, cmd[u].wr>> # <<0, 0>>
        BY <2>1 DEF Fork, TypeInv
      <4>2. /\ job'[k].at = IF cmd[u].rd # 0 THEN "read" ELSE "make"
            /\ job'[k].u = u /\ job'[k].rd = cmd[u].rd /\ job'[k].wr = cmd[u].wr
        BY <2>1, <3>1, JobsOfFork
      <4> QED BY <4>1, <4>2 DEF PlaceOf
    <3>4. \A l \in Jobs \ {k} : PlaceOf(l)'
      <4>1. \A l \in Jobs \ {k} : Stays(l)
        BY <2>1, <3>1, JobsOfFork
      <4>2. \A l \in Jobs : PlaceOf(l)
        BY DEF TypeInv
      <4> QED BY <4>1, <4>2 DEF Stays, Becomes, PlaceOf
    <3> QED BY <1>0, <2>1, <3>1, <3>2, <3>3, <3>4 DEF Fork, TypeInv, TypeOK, JobType
  <2>2. CASE Clear(u)
    BY <1>0, <2>2 DEF Clear, Cleared, PlaceOf, TypeInv, TypeOK
  <2>3. CASE Reap(u)
    BY <1>0, <2>3 DEF Reap, PlaceOf, TypeInv, TypeOK
  <2> QED BY <1>4, <2>1, <2>2, <2>3 DEF Shell
<1>5. ASSUME NEW u \in User, Client(u) PROVE TypeInv'
  <2> USE <1>0 DEF TypeInv, TypeOK, JobType, PlaceOf
  <2>1. CASE Exit(u) \/ Login(u)
    <3>1. flag' \subseteq here' \X here'
      <4>1. \A e \in flag : e \in Pairs /\ e[1] \in here /\ e[2] \in here /\ e = <<e[1], e[2]>>
        <5>1. here \subseteq User /\ flag \subseteq here \X here
          OBVIOUS
        <5> QED BY ONLY <5>1 DEF Pairs
      <4>2. \A e \in flag' : /\ e \in flag
                             /\ here' = here \cup {u} \/ (here' = here \ {u} /\ e \notin About(u))
        BY <2>1 DEF Exit, Login
      <4> QED BY ONLY <4>1, <4>2 DEF About
    <3> QED BY <2>1, <3>1 DEF Exit, Login
  <2>2. ASSUME NEW r \in Peer, NEW w \in Peer, Type(u, r, w) PROVE TypeInv'
    <3>1. UNCHANGED <<here, name, data, job>> /\ jobs' \in 0..MaxJobs /\ jobs + 1 \in Jobs
      <4>1. jobs' = jobs + 1 /\ jobs < MaxJobs /\ UNCHANGED <<here, name, data, job>>
        BY <2>2 DEF Type
      <4>2. jobs \in 0..MaxJobs
        OBVIOUS
      <4> QED BY <4>1, <4>2
    <3>2. flag' \subseteq here \X here
      <4>1. flag' = flag \/ (flag' = flag \cup {e \in {<<u, w>>} : w # 0} /\ CanWrite(u, w))
        BY <2>2 DEF Type
      <4> QED BY <2>2, <4>1 DEF Type, CanWrite
    <3>3. made' \in [Pairs -> 0..MaxJobs]
      <4>1. \/ made' = made
            \/ made' = [e \in Pairs |-> IF e = <<u, w>> THEN jobs + 1 ELSE made[e]]
        BY <2>2 DEF Type
      <4>2. made \in [Pairs -> 0..MaxJobs] /\ jobs + 1 \in 0..MaxJobs
        BY <3>1
      <4> QED BY ONLY <4>1, <4>2
    <3>4. /\ sh' \in [User -> {"idle", "fork", "clear", "wait"}]
          /\ cmd' \in [User -> [rd : Peer, wr : Peer, id : 0..MaxJobs]]
          /\ \A v \in User : sh'[v] = "fork" =>
               cmd'[v].id \in Jobs /\ <<cmd'[v].rd, cmd'[v].wr>> # <<0, 0>>
      <4>1. CASE sh' = [sh EXCEPT ![u] = "fork"]
                 /\ cmd' = [cmd EXCEPT ![u] = [rd |-> r, wr |-> w, id |-> jobs + 1]]
        BY <2>2, <3>1, <4>1 DEF Type
      <4>2. CASE UNCHANGED <<cmd, sh>>
        BY <4>2
      <4>3. CASE \E k \in Jobs : /\ cmd' = [cmd EXCEPT ![u] = [NoCmd EXCEPT !.id = k]]
                                 /\ sh' = [sh EXCEPT ![u] = "wait"]
        <5>1. \A k \in Jobs : [NoCmd EXCEPT !.id = k] \in [rd : Peer, wr : Peer, id : 0..MaxJobs]
          BY DEF NoCmd
        <5> QED BY <4>3, <5>1
      <4> QED BY <2>2, <4>1, <4>2, <4>3 DEF Type
    <3> QED BY <3>1, <3>2, <3>3, <3>4
  <2> QED BY <1>5, <2>1, <2>2 DEF Client
<1> QED BY <1>2, <1>3, <1>4, <1>5 DEF Next

(* TypeOK: the types of the state, and that a flag is about users that are  *)
(* logged in: whatever users type, whenever they come and leave.            *)
THEOREM FifoTypeCorrect == Spec => []TypeOK
<1>1. TypeInv => TypeOK
  BY DEF TypeInv
<1> QED BY <1>1, TypeInit, TypeStep, PTL DEF Spec

-------------------------------------------------------------------------------
(* One command at a time is on its way to the file system, from its line to *)
(* the FIFO that is taken and the FIFO that is made.                        *)
Early == {"read", "rdwait", "unlink", "make"}
Late  == {"make", "open", "wrwait", "run"}

(* The child of job k has the FIFO of the pair e to make or to open; it is  *)
(* made; the child opens the FIFO of e to read; it takes its name away.     *)
Carries(k, e) == job[k].at \in Early \cup {"open", "wrwait"} /\ Writes(k) = e
Offers(k, e)  == job[k].at \in {"open", "wrwait"} /\ Writes(k) = e
Opening(k, e) == job[k].at \in {"read", "rdwait"} /\ Reads(k) = e
Taking(k, e)  == job[k].at = "unlink" /\ Reads(k) = e

(* A shell that forks has a pipe to read that waits, and a pipe to write    *)
(* that nobody knows of; one that clears has a child that reads the pipe.   *)
ForkOf(u) ==
  /\ cmd[u].id = jobs /\ jobs # 0 /\ job[jobs].at = "none"
  /\ \A k \in Jobs : job[k].at \notin Early
  /\ cmd[u].rd # 0 => LET e == <<cmd[u].rd, u>>
                      IN e \in flag /\ made[e] # 0 /\ Offers(made[e], e)
  /\ cmd[u].wr # 0 => LET e == <<u, cmd[u].wr>>
                      IN e \in flag /\ made[e] = jobs /\ name[e] = 0
ClearOf(u) ==
  LET e == <<cmd[u].rd, u>>
  IN /\ cmd[u].rd # 0 /\ made[e] # 0
     /\ (\E r \in Jobs : Opening(r, e)) \/ job[made[e]].at \in {"run", "over"}
ShellInv == /\ \A u, v \in User : {sh[u], sh[v]} \subseteq {"fork", "clear"} => u = v
            /\ \A u \in User : sh[u] = "fork" => ForkOf(u)
            /\ \A u \in User : sh[u] = "clear" => ClearOf(u)

(* A child, and the pipe it writes to.                                      *)
WriterOf(k) ==
  /\ k > jobs => job[k].at = "none"
  /\ job[k].at \in {"none", "over"} =>
       job[k].rd = 0 /\ job[k].wr = 0 /\ job[k].in = 0 /\ job[k].out = 0
  /\ job[k].at \in Early => k = jobs
  /\ job[k].wr = 0 => job[k].out = 0
  /\ job[k].wr # 0 /\ job[k].at \in Early =>
       Writes(k) \in flag /\ made[Writes(k)] = k /\ name[Writes(k)] = 0 /\ job[k].out = 0
  /\ job[k].at \in {"open", "wrwait"} =>
       /\ made[Writes(k)] = k /\ name[Writes(k)] = k
       /\ job[k].out = IF job[k].at = "open" THEN 0 ELSE k
       /\ Writes(k) \in flag \/ \E r \in Jobs : Opening(r, Writes(k))
  /\ job[k].at = "run" /\ job[k].wr # 0 =>
       /\ job[k].out = k
       /\ \E r \in Jobs : job[r].in = k /\ job[r].at \in Late \cup {"unlink"}

(* The pipe it reads.                                                       *)
ReaderOf(k) ==
  LET n == job[k].want
  IN /\ job[k].rd = 0 => job[k].in = 0
     /\ job[k].rd # 0 => n # 0 /\ n # k /\ (job[k].in = IF job[k].at = "read" THEN 0 ELSE n)
     /\ job[k].at = "read" => made[Reads(k)] = n /\ Offers(n, Reads(k))
     /\ job[k].at = "rdwait" => made[Reads(k)] = n /\ Offers(n, Reads(k)) /\ job[n].at = "open"
     /\ job[k].at \in {"read", "rdwait"} /\ Reads(k) \in flag =>
          sh[job[k].u] = "clear" /\ cmd[job[k].u].rd = job[k].rd
     /\ job[k].at = "unlink" => name[Reads(k)] = n
     /\ job[k].rd # 0 /\ job[k].at \in Late \cup {"unlink"} =>
          \/ job[n].at = "run" /\ job[n].out = n
          \/ job[n].at = "over" /\ data[n] = {n}

(* No two children read one FIFO; who wrote what is in it is gone; a name   *)
(* or a flag is there for somebody.                                         *)
OneReader == \A k, l \in Jobs : job[k].rd # 0 /\ job[l].rd # 0 /\ job[k].want = job[l].want => k = l
DataInv   == \A n \in Jobs : data[n] \subseteq {n} /\ (data[n] # {} => job[n].at = "over")
NameInv   == \A e \in Pairs : name[e] # 0 => Offers(name[e], e) \/ \E r \in Jobs : Taking(r, e)
FlagInv   == \A e \in flag : /\ made[e] # 0
                             /\ \/ sh[e[1]] = "fork" /\ cmd[e[1]].wr = e[2]
                                \/ Carries(made[e], e)
                                \/ sh[e[2]] = "clear" /\ cmd[e[2]].rd = e[1]
PipeInv   == OneReader /\ DataInv /\ NameInv /\ FlagInv

FifoInv == TypeInv /\ ShellInv /\ (\A k \in Jobs : WriterOf(k) /\ ReaderOf(k)) /\ PipeInv

LEMMA Basics ==
  ASSUME FifoInv
  PROVE  /\ job \in [Jobs -> JobType] /\ name \in [Pairs -> 0..MaxJobs]
         /\ made \in [Pairs -> 0..MaxJobs] /\ flag \subseteq Pairs
         /\ \A k \in Jobs : job[k].at \in {"read", "rdwait", "unlink"} =>
              job[k].rd # 0 /\ Reads(k) \in Pairs
         /\ \A k \in Jobs : job[k].at \in {"make", "open", "wrwait"} =>
              job[k].wr # 0 /\ Writes(k) \in Pairs
         /\ \A k \in Jobs : job[k].at \in Early /\ job[k].wr # 0 => Writes(k) \in Pairs
         /\ \A k, l \in Jobs : job[k].at \in Early /\ job[l].at \in Early => k = l
         /\ \A k \in Jobs : job[k].at \in Early => \A u \in User : sh[u] # "fork"
         /\ \A k \in Jobs : Writes(k) \in Pairs => job[k].wr # 0
<1>1. TypeOK
  BY DEF FifoInv, TypeInv
<1>2. /\ job \in [Jobs -> JobType] /\ name \in [Pairs -> 0..MaxJobs]
      /\ made \in [Pairs -> 0..MaxJobs]
  BY <1>1 DEF TypeOK, JobType
<1>3. flag \subseteq Pairs
  <2>1. here \subseteq User /\ flag \subseteq here \X here
    BY <1>1 DEF TypeOK
  <2> QED BY ONLY <2>1 DEF Pairs
<1>4. \A k \in Jobs : /\ PlaceOf(k) /\ job[k].u \in Peer /\ job[k].rd \in Peer /\ job[k].wr \in Peer
  BY <1>2 DEF FifoInv, TypeInv, JobType
<1>5. \A k \in Jobs : job[k].at \in Early => k = jobs
  BY DEF FifoInv, WriterOf
<1>6. \A k \in Jobs : job[k].at \in Early => \A u \in User : sh[u] # "fork"
  BY DEF FifoInv, ShellInv, ForkOf
<1>7. \A k \in Jobs : Writes(k) \in Pairs => job[k].wr # 0
  BY DEF Writes, Pairs
<1> QED BY <1>2, <1>3, <1>4, <1>5, <1>6, <1>7 DEF PlaceOf, Reads, Writes, Pairs, Early

LEMMA ClearedPair ==
  ASSUME FifoInv, NEW u \in User, cmd[u].rd # 0, made[<<cmd[u].rd, u>>] # 0
  PROVE  <<cmd[u].rd, u>> \in Pairs /\ made[<<cmd[u].rd, u>>] \in Jobs
<1>1. cmd[u].rd \in User
  BY DEF FifoInv, TypeInv, TypeOK
<1>2. <<cmd[u].rd, u>> \in Pairs
  BY <1>1 DEF Pairs
<1> QED BY <1>2, Basics

(* A child moves, and the shells do not.                                    *)
LEMMA ClearKept ==
  ASSUME FifoInv, UNCHANGED <<sh, cmd, made>>,
         \A n \in Jobs : job[n].at \in {"run", "over"} => job'[n].at \in {"run", "over"},
         \A n, r \in Jobs, e \in Pairs : n = made[e] /\ Opening(r, e)
           => (\E q \in Jobs : Opening(q, e)') \/ job'[n].at \in {"run", "over"}
  PROVE  \A u \in User : sh'[u] = "clear" => ClearOf(u)'
<1> SUFFICES ASSUME NEW u \in User, sh[u] = "clear" PROVE ClearOf(u)'
  OBVIOUS
<1>1. cmd[u].rd # 0 /\ made[<<cmd[u].rd, u>>] # 0
  BY DEF FifoInv, ShellInv, ClearOf
<1>2. PICK e \in Pairs : e = <<cmd[u].rd, u>>
  BY <1>1, ClearedPair
<1>3. PICK n \in Jobs : n = made[e]
  BY <1>1, <1>2, ClearedPair
<1>4. (\E r \in Jobs : Opening(r, e)) \/ job[n].at \in {"run", "over"}
  BY <1>2, <1>3 DEF FifoInv, ShellInv, ClearOf
<1>5. (\E q \in Jobs : Opening(q, e)') \/ job'[n].at \in {"run", "over"}
  BY <1>3, <1>4
<1> QED BY <1>1, <1>2, <1>3, <1>5 DEF ClearOf, Opening

LEMMA FlagKept ==
  ASSUME FifoInv, UNCHANGED <<flag, sh, cmd, made>>,
         \A n \in Jobs, e \in flag : n = made[e] /\ Carries(n, e)
           => Carries(n, e)' \/ (sh[e[2]] = "clear" /\ cmd[e[2]].rd = e[1])
  PROVE  FlagInv'
<1>1. ASSUME NEW e \in flag, Carries(made[e], e), ~(sh[e[2]] = "clear" /\ cmd[e[2]].rd = e[1])
      PROVE  Carries(made[e], e)'
  <2>1. made[e] \in Jobs /\ e \in Pairs
    BY Basics DEF FifoInv, PipeInv, FlagInv
  <2>2. \A n \in Jobs : n = made[e] => Carries(n, e)'
    BY <1>1, <2>1
  <2> QED BY <2>1, <2>2 DEF Carries
<1> QED BY <1>1 DEF FifoInv, PipeInv, FlagInv

(* A reader takes the name of its FIFO away.                                *)
LEMMA KeptByUnlink ==
  ASSUME FifoInv, TypeInv', NEW k \in Jobs, Unlink(k) PROVE FifoInv'
<1>1. /\ job[k].at = "unlink" /\ job[k].rd # 0 /\ Reads(k) \in Pairs /\ Reads(k)' = Reads(k)
      /\ name' = [name EXCEPT ![Reads(k)] = 0]
      /\ UNCHANGED <<here, flag, sh, cmd, data, made, jobs>>
  BY Basics, JobsOfMove DEF Unlink, Unlinked, At, Reads, Becomes, FifoInv
<1>2. /\ \A l \in Jobs \ {k} : Stays(l)
      /\ Becomes(k, NextAt(k), job[k].in, job[k].out)
  <2>1. ~MkFifo(k)
    BY <1>1 DEF MkFifo, At
  <2> QED BY <2>1, JobsOfMove DEF FifoInv
<1>3. /\ \A l \in Jobs : /\ Reads(l)' = Reads(l) /\ Writes(l)' = Writes(l)
                         /\ job'[l].u = job[l].u /\ job'[l].rd = job[l].rd
                         /\ job'[l].wr = job[l].wr /\ job'[l].want = job[l].want
                         /\ job'[l].in = job[l].in /\ job'[l].out = job[l].out
      /\ \A l \in Jobs \ {k} : job'[l].at = job[l].at
      /\ job'[k].at = IF job[k].wr # 0 THEN "make" ELSE "run"
  BY <1>2 DEF Becomes, Stays, Reads, Writes, NextAt
<1>4. name'[Reads(k)] = 0 /\ \A e \in Pairs : e # Reads(k) => name'[e] = name[e]
  BY <1>1, Basics
<1>5. /\ \A l \in Jobs : job[l].at \in Early => l = k
      /\ \A u \in User : sh[u] # "fork"
  BY <1>1, Basics DEF Early
<1>6. /\ \A l \in Jobs, e \in Pairs : Offers(l, e)' <=> Offers(l, e)
      /\ \A l \in Jobs, e \in Pairs : Opening(l, e)' <=> Opening(l, e)
      /\ \A l \in Jobs, e \in Pairs : Taking(l, e)' <=> Taking(l, e) /\ l # k
      /\ \A l \in Jobs, e \in Pairs : Carries(l, e) => Carries(l, e)'
  <2>1. \A l \in Jobs, e \in Pairs : Carries(l, e) => Carries(l, e)'
    BY <1>1, <1>3, Basics DEF Carries, Early
  <2> QED BY <1>1, <1>3, <2>1 DEF Offers, Opening, Taking
(* Nobody offers the FIFO any more.                                         *)
<1>7. \A l \in Jobs : job[l].at \in {"open", "wrwait"} => Writes(l) # Reads(k)
  BY <1>1, Basics DEF FifoInv, WriterOf, ReaderOf, Late
<1>8. ShellInv'
  <2>1. \A l \in Jobs : job[l].at \in {"run", "over"} => job'[l].at \in {"run", "over"}
    BY <1>1, <1>3
  <2>2. \A u \in User : sh'[u] = "clear" => ClearOf(u)'
    BY <1>1, <1>6, <2>1, ClearKept
  <2> QED BY <1>1, <1>5, <2>2 DEF FifoInv, ShellInv
<1>9. ASSUME NEW l \in Jobs PROVE WriterOf(l)'
  <2>1. WriterOf(l) /\ WriterOf(k)
    BY DEF FifoInv
  <2>2. job[l].at \in {"open", "wrwait"} => name'[Writes(l)] = name[Writes(l)]
    BY <1>4, <1>7, Basics
  <2>3. CASE l = k
    <3>1. job[k].wr # 0 => name'[Writes(k)] = 0
      BY <1>1, <1>4, <2>1, Basics DEF Early, WriterOf
    <3> QED BY <1>1, <1>3, <2>1, <2>3, <3>1 DEF WriterOf, Early
  <2>4. CASE l # k
    <3>1. job[l].at \notin Early
      BY <1>5, <2>4
    <3>2. job[l].at \in {"open", "wrwait"} => \A r \in Jobs : ~Opening(r, Writes(l))
      BY <1>1, <1>5 DEF Opening, Early
    <3>3. \A r \in Jobs : job[r].at \in Late \cup {"unlink"} => job'[r].at \in Late \cup {"unlink"}
      BY <1>3 DEF Late
    <3> QED BY <1>1, <1>3, <2>1, <2>2, <2>4, <3>1, <3>2, <3>3 DEF WriterOf
  <2> QED BY <2>3, <2>4
<1>10. ASSUME NEW l \in Jobs PROVE ReaderOf(l)'
  <2>1. ReaderOf(l) /\ ReaderOf(k) /\ OneReader
    BY DEF FifoInv, PipeInv
  <2>2. l # k => job[l].at \notin Early
    BY <1>5
  <2>3. job[l].rd # 0 => job[l].want \in Jobs
    BY <2>1, Basics DEF JobType, ReaderOf
  <2>4. job[l].rd # 0 /\ job[l].at \in Late \cup {"unlink"} =>
          job[l].want # k /\ job'[job[l].want].at = job[job[l].want].at
    BY <1>1, <1>3, <2>1, <2>3 DEF ReaderOf
  <2>5. job'[l].at \notin {"read", "rdwait", "unlink"}
    BY <1>1, <1>3, <2>2 DEF Early
  <2>6. job'[l].at \in Late \cup {"unlink"} => job[l].at \in Late \cup {"unlink"}
    BY <1>1, <1>3 DEF Late
  <2>7. job'[l].at = "read" <=> job[l].at = "read"
    BY <1>1, <1>3
  <2> QED BY <1>1, <1>3, <2>1, <2>3, <2>4, <2>5, <2>6, <2>7 DEF ReaderOf
<1>11. PipeInv'
  <2>1. OneReader'
    BY <1>3 DEF FifoInv, PipeInv, OneReader
  <2>2. DataInv'
    BY <1>1, <1>3 DEF FifoInv, PipeInv, DataInv
  <2>3. NameInv'
    <3>1. ASSUME NEW e \in Pairs, name'[e] # 0
          PROVE  Offers(name[e], e)' \/ \E r \in Jobs : Taking(r, e)'
      <4>1. PICK n \in Jobs : n = name[e] /\ n = name'[e] /\ e # Reads(k)
        BY <1>4, <3>1, Basics
      <4>2. Offers(n, e) \/ \E r \in Jobs : Taking(r, e) /\ r # k
        BY <3>1, <4>1 DEF FifoInv, PipeInv, NameInv, Taking
      <4>3. Offers(n, e)' => Offers(name[e], e)'
        BY <4>1 DEF Offers
      <4> QED BY <1>6, <4>2, <4>3
    <3> QED BY <3>1 DEF NameInv
  <2>4. FlagInv'
    BY <1>1, <1>6, FlagKept, Basics
  <2> QED BY <2>1, <2>2, <2>3, <2>4 DEF PipeInv
<1> QED BY <1>8, <1>9, <1>10, <1>11 DEF FifoInv

(* A writer makes its FIFO.                                                 *)
LEMMA KeptByMkFifo ==
  ASSUME FifoInv, TypeInv', NEW k \in Jobs, MkFifo(k) PROVE FifoInv'
<1>1. /\ job[k].at = "make" /\ job[k].wr # 0 /\ Writes(k) \in Pairs
      /\ name' = [name EXCEPT ![Writes(k)] = IF @ = 0 THEN k ELSE @]
      /\ UNCHANGED <<here, flag, sh, cmd, data, made, jobs>>
  BY Basics DEF MkFifo, At, Writes, FifoInv
<1>2. /\ \A l \in Jobs \ {k} : Stays(l)
      /\ Becomes(k, "open", job[k].in, job[k].out)
  BY JobsOfMove DEF FifoInv
<1>3. /\ \A l \in Jobs : /\ Reads(l)' = Reads(l) /\ Writes(l)' = Writes(l)
                         /\ job'[l].u = job[l].u /\ job'[l].rd = job[l].rd
                         /\ job'[l].wr = job[l].wr /\ job'[l].want = job[l].want
                         /\ job'[l].in = job[l].in /\ job'[l].out = job[l].out
      /\ \A l \in Jobs \ {k} : job'[l].at = job[l].at
      /\ job'[k].at = "open"
  BY <1>2 DEF Becomes, Stays, Reads, Writes
<1>4. /\ Writes(k) \in flag /\ made[Writes(k)] = k /\ name[Writes(k)] = 0 /\ job[k].out = 0
      /\ name'[Writes(k)] = k /\ \A e \in Pairs : e # Writes(k) => name'[e] = name[e]
  <2>1. Writes(k) \in flag /\ made[Writes(k)] = k /\ name[Writes(k)] = 0 /\ job[k].out = 0
    BY <1>1 DEF FifoInv, WriterOf, Early
  <2> QED BY <1>1, <2>1, Basics
<1>5. /\ \A l \in Jobs : job[l].at \in Early => l = k
      /\ \A u \in User : sh[u] # "fork"
  BY <1>1, Basics DEF Early
<1>6. /\ \A l \in Jobs, e \in Pairs : Offers(l, e)' <=> Offers(l, e) \/ (l = k /\ e = Writes(k))
      /\ \A l \in Jobs, e \in Pairs : ~Opening(l, e)
      /\ \A l \in Jobs, e \in Pairs : Taking(l, e)' <=> Taking(l, e)
      /\ \A l \in Jobs, e \in Pairs : Carries(l, e) => Carries(l, e)'
  <2>1. \A l \in Jobs, e \in Pairs : Carries(l, e) => Carries(l, e)'
    BY <1>1, <1>3 DEF Carries, Early
  <2>2. \A l \in Jobs, e \in Pairs : ~Opening(l, e)
    BY <1>1, <1>5 DEF Opening, Early
  <2> QED BY <1>1, <1>3, <2>1, <2>2 DEF Offers, Opening, Taking
<1>7. ShellInv'
  <2>1. \A l \in Jobs : job[l].at \in {"run", "over"} => job'[l].at \in {"run", "over"}
    BY <1>1, <1>3
  <2>2. \A u \in User : sh'[u] = "clear" => ClearOf(u)'
    BY <1>1, <1>6, <2>1, ClearKept
  <2> QED BY <1>1, <1>5, <2>2 DEF FifoInv, ShellInv
<1>8. ASSUME NEW l \in Jobs PROVE WriterOf(l)'
  <2>1. WriterOf(l) /\ WriterOf(k)
    BY DEF FifoInv
  <2>2. CASE l = k
    BY <1>1, <1>3, <1>4, <2>1, <2>2 DEF WriterOf, Early
  <2>3. CASE l # k
    <3>1. job[l].at \notin Early
      BY <1>5, <2>3
    <3>2. job[l].at \in {"open", "wrwait"} =>
            /\ name'[Writes(l)] = name[Writes(l)]
            /\ \A r \in Jobs : ~Opening(r, Writes(l))
      BY <1>4, <1>6, <2>1, <2>3, Basics DEF WriterOf
    <3>3. \A r \in Jobs : job[r].at \in Late \cup {"unlink"} => job'[r].at \in Late \cup {"unlink"}
      BY <1>3 DEF Late
    <3> QED BY <1>1, <1>3, <2>1, <2>3, <3>1, <3>2, <3>3 DEF WriterOf
  <2> QED BY <2>2, <2>3
<1>9. ASSUME NEW l \in Jobs PROVE ReaderOf(l)'
  <2>1. ReaderOf(l)
    BY DEF FifoInv
  <2>2. l # k => job[l].at \notin Early
    BY <1>5
  <2>3. job[l].rd # 0 => job[l].want \in Jobs
    BY <2>1, Basics DEF JobType, ReaderOf
  <2>4. job[l].rd # 0 /\ job[l].at \in Late \cup {"unlink"} =>
          job[l].want # k /\ job'[job[l].want].at = job[job[l].want].at
    BY <1>1, <1>3, <2>1, <2>3 DEF ReaderOf
  <2>5. job'[l].at \notin {"read", "rdwait", "unlink"} /\ job[l].at # "read"
    BY <1>1, <1>3, <2>2 DEF Early
  <2>6. job'[l].at \in Late \cup {"unlink"} => job[l].at \in Late \cup {"unlink"}
    BY <1>1, <1>3 DEF Late
  <2> QED BY <1>1, <1>3, <2>1, <2>3, <2>4, <2>5, <2>6 DEF ReaderOf
<1>10. PipeInv'
  <2>1. OneReader'
    BY <1>3 DEF FifoInv, PipeInv, OneReader
  <2>2. DataInv'
    BY <1>1, <1>3 DEF FifoInv, PipeInv, DataInv
  <2>3. NameInv'
    <3>1. ASSUME NEW e \in Pairs, name'[e] # 0
          PROVE  Offers(name[e], e)' \/ \E r \in Jobs : Taking(r, e)'
      <4>1. CASE e = Writes(k)
        BY <1>3, <1>4, <4>1 DEF Offers
      <4>2. CASE e # Writes(k)
        <5>1. PICK n \in Jobs : n = name[e] /\ n = name'[e]
          BY <1>4, <3>1, <4>2, Basics
        <5>2. Offers(n, e) \/ \E r \in Jobs : Taking(r, e)
          BY <3>1, <5>1 DEF FifoInv, PipeInv, NameInv
        <5>3. Offers(n, e)' => Offers(name[e], e)'
          BY <5>1 DEF Offers
        <5> QED BY <1>6, <5>2, <5>3
      <4> QED BY <4>1, <4>2
    <3> QED BY <3>1 DEF NameInv
  <2>4. FlagInv'
    BY <1>1, <1>6, FlagKept, Basics
  <2> QED BY <2>1, <2>2, <2>3, <2>4 DEF PipeInv
<1> QED BY <1>7, <1>8, <1>9, <1>10 DEF FifoInv

(* The writer n and the reader r of a FIFO have met in it.                  *)
LEMMA KeptByMeeting ==
  ASSUME FifoInv, TypeInv', NEW n \in Jobs, NEW r \in Jobs, NEW p \in Pairs,
         Offers(n, p), Opening(r, p), job[r].want = n,
         Becomes(n, "run", job[n].in, n), Becomes(r, "unlink", n, job[r].out),
         \A l \in Jobs \ {n, r} : Stays(l),
         UNCHANGED <<here, flag, sh, cmd, name, data, made, jobs>>
  PROVE  FifoInv'
<1>1. /\ job[n].at \in {"open", "wrwait"} /\ Writes(n) = p /\ job[n].wr # 0
      /\ made[p] = n /\ name[p] = n
      /\ job[r].at \in {"read", "rdwait"} /\ Reads(r) = p /\ job[r].rd # 0
      /\ n # r
  BY Basics DEF Offers, Opening, FifoInv, WriterOf
<1>2. /\ \A l \in Jobs : /\ Reads(l)' = Reads(l) /\ Writes(l)' = Writes(l)
                         /\ job'[l].u = job[l].u /\ job'[l].rd = job[l].rd
                         /\ job'[l].wr = job[l].wr /\ job'[l].want = job[l].want
                         /\ l # r => job'[l].in = job[l].in
                         /\ l # n => job'[l].out = job[l].out
      /\ \A l \in Jobs \ {n, r} : job'[l].at = job[l].at
      /\ job'[n].at = "run" /\ job'[r].at = "unlink" /\ job'[r].in = n /\ job'[n].out = n
  BY <1>1 DEF Becomes, Stays, Reads, Writes
<1>3. /\ \A l \in Jobs : job[l].at \in Early => l = r
      /\ \A u \in User : sh[u] # "fork"
  BY <1>1, Basics DEF Early
<1>4. /\ \A l \in Jobs, e \in Pairs : Offers(l, e)' <=> Offers(l, e) /\ l # n
      /\ \A l \in Jobs, e \in Pairs : Opening(l, e) => l = r /\ e = p
      /\ \A l \in Jobs, e \in Pairs : Taking(l, e)' <=> l = r /\ e = p
      /\ \A l \in Jobs, e \in Pairs : Carries(l, e) => Carries(l, e)' \/ (l = n /\ e = p)
  <2>1. \A l \in Jobs, e \in Pairs : Carries(l, e) => Carries(l, e)' \/ (l = n /\ e = p)
    BY <1>1, <1>2 DEF Carries, Early
  <2>2. \A l \in Jobs, e \in Pairs : Offers(l, e)' <=> Offers(l, e) /\ l # n
    BY <1>1, <1>2 DEF Offers
  <2>3. \A l \in Jobs, e \in Pairs : Opening(l, e) => l = r /\ e = p
    BY <1>1, <1>3 DEF Opening, Early
  <2>4. \A l \in Jobs, e \in Pairs : Taking(l, e)' <=> l = r /\ e = p
    BY <1>1, <1>2, <1>3 DEF Taking, Early
  <2> QED BY <2>1, <2>2, <2>3, <2>4
<1>5. ShellInv'
  <2>1. \A l \in Jobs : job[l].at \in {"run", "over"} => job'[l].at \in {"run", "over"}
    BY <1>1, <1>2
  <2>2. \A u \in User : sh'[u] = "clear" => ClearOf(u)'
    BY <1>1, <1>2, <1>4, <2>1, ClearKept
  <2> QED BY <1>3, <2>2 DEF FifoInv, ShellInv
<1>6. ASSUME NEW l \in Jobs PROVE WriterOf(l)'
  <2>1. WriterOf(l)
    BY DEF FifoInv
  <2>2. \A q \in Jobs : job[q].at \in Late \cup {"unlink"} =>
          job'[q].at \in Late \cup {"unlink"} /\ job'[q].in = job[q].in
    BY <1>1, <1>2 DEF Late
  <2>3. CASE l = n
    BY <1>1, <1>2, <2>1, <2>3 DEF WriterOf, Early
  <2>4. CASE l = r
    BY <1>1, <1>2, <2>1, <2>4 DEF WriterOf, Early
  <2>5. CASE l \notin {n, r}
    <3>1. job[l].at \notin Early
      BY <1>3, <2>5
    <3>2. job[l].at \in {"open", "wrwait"} => Writes(l) \in flag
      BY <1>1, <1>4, <2>1, <2>5, Basics DEF WriterOf
    <3>3. \A q \in Jobs : job[q].in = l /\ job[q].at \in Late \cup {"unlink"}
            => job'[q].in = l /\ job'[q].at \in Late \cup {"unlink"}
      BY <2>2
    <3> QED BY <1>1, <1>2, <2>1, <2>5, <3>1, <3>2, <3>3 DEF WriterOf
  <2> QED BY <2>3, <2>4, <2>5
<1>7. ASSUME NEW l \in Jobs PROVE ReaderOf(l)'
  <2>1. ReaderOf(l) /\ OneReader
    BY DEF FifoInv, PipeInv
  <2>2. l # r => job[l].at \notin Early
    BY <1>3
  <2>3. job[l].rd # 0 => job[l].want \in Jobs
    BY <2>1, Basics DEF JobType, ReaderOf
  <2>4. CASE l = r
    BY <1>1, <1>2, <2>1, <2>4 DEF ReaderOf, Late
  <2>5. CASE l # r
    <3>1. job'[l].at \notin {"read", "rdwait", "unlink"} /\ job[l].at # "read"
      BY <1>1, <1>2, <2>2, <2>5 DEF Early
    <3>2. job'[l].at \in Late => job[l].at \in Late
      BY <1>1, <1>2, <2>5 DEF Late
    <3>3. job[l].rd # 0 /\ job[l].at \in Late =>
            /\ job[l].want \notin {n, r}
            /\ job'[job[l].want].at = job[job[l].want].at
            /\ job'[job[l].want].out = job[job[l].want].out
      BY <1>1, <1>2, <2>1, <2>3 DEF ReaderOf
    <3> QED BY <1>2, <2>1, <2>3, <2>5, <3>1, <3>2, <3>3 DEF ReaderOf
  <2> QED BY <2>4, <2>5
<1>8. PipeInv'
  <2>1. OneReader'
    BY <1>2 DEF FifoInv, PipeInv, OneReader
  <2>2. DataInv'
    BY <1>1, <1>2 DEF FifoInv, PipeInv, DataInv
  <2>3. NameInv'
    <3>1. ASSUME NEW e \in Pairs, name[e] # 0
          PROVE  Offers(name[e], e)' \/ \E q \in Jobs : Taking(q, e)'
      <4>1. PICK m \in Jobs : m = name[e]
        BY <3>1, Basics
      <4>2. CASE e = p
        BY <1>4, <4>2
      <4>3. CASE e # p
        <5>1. Offers(m, e) /\ m # n
          <6>1. \A q \in Jobs : ~Taking(q, e)
            BY <1>1, <1>3 DEF Taking, Early
          <6>2. Offers(m, e)
            BY <3>1, <4>1, <6>1 DEF FifoInv, PipeInv, NameInv
          <6> QED BY <1>1, <4>3, <6>2 DEF Offers
        <5>2. Offers(m, e)' => Offers(name[e], e)'
          BY <4>1 DEF Offers
        <5> QED BY <1>4, <5>1, <5>2
      <4> QED BY <4>2, <4>3
    <3> QED BY <3>1 DEF NameInv
  <2>4. FlagInv'
    <3>1. p \in flag => sh[p[2]] = "clear" /\ cmd[p[2]].rd = p[1]
      BY <1>1 DEF FifoInv, ReaderOf, Reads
    <3> QED BY <1>4, <3>1, FlagKept, Basics
  <2> QED BY <2>1, <2>2, <2>3, <2>4 DEF PipeInv
<1> QED BY <1>5, <1>6, <1>7, <1>8 DEF FifoInv

(* A child waits in its FIFO for the other side.                            *)
LEMMA KeptByWaiting ==
  ASSUME FifoInv, TypeInv', NEW k \in Jobs,
         \/ /\ job[k].at = "open" /\ Becomes(k, "wrwait", job[k].in, k)
            /\ \A r \in Jobs : job[r].in = k => job[r].at # "rdwait"
         \/ /\ job[k].at = "read" /\ Becomes(k, "rdwait", job[k].want, job[k].out)
            /\ \A n \in Jobs : n = job[k].want => job[n].at # "wrwait",
         \A l \in Jobs \ {k} : Stays(l),
         UNCHANGED <<here, flag, sh, cmd, name, data, made, jobs>>
  PROVE  FifoInv'
<1>1. /\ \A l \in Jobs : /\ Reads(l)' = Reads(l) /\ Writes(l)' = Writes(l)
                         /\ job'[l].u = job[l].u /\ job'[l].rd = job[l].rd
                         /\ job'[l].wr = job[l].wr /\ job'[l].want = job[l].want
      /\ \A l \in Jobs \ {k} : /\ job'[l].at = job[l].at
                               /\ job'[l].in = job[l].in /\ job'[l].out = job[l].out
  BY DEF Becomes, Stays, Reads, Writes
<1>2. \/ /\ job[k].at = "open" /\ job'[k].at = "wrwait" /\ job[k].wr # 0
         /\ job'[k].in = job[k].in /\ job'[k].out = k
      \/ /\ job[k].at = "read" /\ job'[k].at = "rdwait" /\ job[k].rd # 0
         /\ job'[k].in = job[k].want /\ job'[k].out = job[k].out
  BY Basics DEF Becomes
<1>3. /\ \A l \in Jobs, e \in Pairs : Offers(l, e)' <=> Offers(l, e)
      /\ \A l \in Jobs, e \in Pairs : Opening(l, e)' <=> Opening(l, e)
      /\ \A l \in Jobs, e \in Pairs : Taking(l, e)' <=> Taking(l, e)
      /\ \A l \in Jobs, e \in Pairs : Carries(l, e)' <=> Carries(l, e)
      /\ \A l \in Jobs : job'[l].at \in Early <=> job[l].at \in Early
      /\ \A l \in Jobs : job'[l].at \in Late <=> job[l].at \in Late
  BY <1>1, <1>2 DEF Offers, Opening, Taking, Carries, Early, Late
<1>4. ShellInv'
  <2>1. \A u \in User : sh'[u] = "clear" => ClearOf(u)'
    <3>1. \A l \in Jobs : job[l].at \in {"run", "over"} => job'[l].at \in {"run", "over"}
      BY <1>1, <1>2
    <3> QED BY <1>3, <3>1, ClearKept
  <2>2. ASSUME NEW u \in User, sh[u] = "fork" PROVE ForkOf(u)'
    <3>1. ForkOf(u)
      BY <2>2 DEF FifoInv, ShellInv
    <3>2. jobs \in Jobs /\ job'[jobs].at = "none"
      <4>1. jobs \in Jobs
        BY <3>1 DEF FifoInv, TypeInv, TypeOK, ForkOf
      <4>2. jobs # k
        BY <1>2, <3>1 DEF ForkOf
      <4> QED BY <1>1, <3>1, <4>1, <4>2 DEF ForkOf
    <3>3. ASSUME cmd[u].rd # 0
          PROVE  LET e == <<cmd[u].rd, u>>
                 IN e \in flag /\ made[e] # 0 /\ job'[made[e]].at \in {"open", "wrwait"}
                    /\ Writes(made[e])' = e
      <4>1. PICK e \in Pairs : e = <<cmd[u].rd, u>> /\ e \in flag
        BY <3>1, <3>3, ClearedPair DEF ForkOf
      <4>2. PICK n \in Jobs : n = made[e] /\ Offers(n, e)
        BY <3>1, <3>3, <4>1, ClearedPair DEF ForkOf
      <4>3. Offers(n, e)'
        BY <1>3, <4>2
      <4> QED BY <3>1, <3>3, <4>1, <4>2, <4>3 DEF ForkOf, Offers, Writes
    <3> QED BY <1>3, <3>1, <3>2, <3>3 DEF ForkOf, Offers
  <2> QED BY <2>1, <2>2 DEF FifoInv, ShellInv
<1>5. ASSUME NEW l \in Jobs PROVE WriterOf(l)'
  <2>1. WriterOf(l)
    BY DEF FifoInv
  <2>2. \A q \in Jobs : job[q].in = l /\ job[q].at \in Late \cup {"unlink"}
          => job'[q].in = l /\ job'[q].at \in Late \cup {"unlink"}
    BY <1>1, <1>2 DEF Late
  <2>3. job[l].at \in {"open", "wrwait"} => Writes(l) \in Pairs
    BY Basics
  <2>4. CASE l = k
    BY <1>1, <1>2, <1>3, <2>1, <2>3, <2>4 DEF WriterOf, Early
  <2>5. CASE l # k
    BY <1>1, <1>3, <2>1, <2>2, <2>3, <2>5 DEF WriterOf
  <2> QED BY <2>4, <2>5
<1>6. ASSUME NEW l \in Jobs PROVE ReaderOf(l)'
  <2>1. ReaderOf(l)
    BY DEF FifoInv
  <2>2. job[l].rd # 0 => job[l].want \in Jobs
    BY <2>1, Basics DEF JobType, ReaderOf
  <2>3. job[l].at \in {"read", "rdwait", "unlink"} => Reads(l) \in Pairs /\ job[l].rd # 0
    BY Basics
  <2>4. CASE l = k /\ job[k].at = "read"
    <3>1. /\ job'[k].at = "rdwait" /\ job[k].rd # 0 /\ job'[k].in = job[k].want
          /\ job[k].want # k /\ made[Reads(k)] = job[k].want /\ Offers(job[k].want, Reads(k))
      BY <1>2, <2>1, <2>4 DEF ReaderOf
    <3>2. job[job[k].want].at = "open" /\ job'[job[k].want].at = "open"
      <4>1. job[job[k].want].at # "wrwait"
        BY <2>2, <2>4, <3>1
      <4> QED BY <1>1, <2>2, <2>4, <3>1, <4>1 DEF Offers
    <3>3. /\ job[k].want # 0
          /\ Reads(k) \in flag => sh[job[k].u] = "clear" /\ cmd[job[k].u].rd = job[k].rd
      BY <2>1, <2>4, <3>1 DEF ReaderOf
    <3>4. Reads(k)' = Reads(k) /\ job'[k].want = job[k].want /\ job'[k].u = job[k].u
          /\ job'[k].rd = job[k].rd
      BY <1>1
    <3>5. Offers(job[k].want, Reads(k))'
      <4>1. PICK n \in Jobs : n = job[k].want
        BY <2>2, <2>4, <3>1
      <4>2. Writes(n)' = Writes(n) /\ Offers(n, Reads(k))
        BY <1>1, <3>1, <4>1
      <4> QED BY <3>2, <3>4, <4>1, <4>2 DEF Offers, Writes
    <3> QED BY <2>4, <3>1, <3>2, <3>3, <3>4, <3>5 DEF ReaderOf, Late
  <2>5. CASE ~(l = k /\ job[k].at = "read")
    <3>1. /\ job'[l].in = job[l].in
          /\ job'[l].at \in {"read", "rdwait", "unlink"} => job'[l].at = job[l].at
          /\ job[l].at \in {"read", "rdwait", "unlink"} => job'[l].at = job[l].at
      BY <1>1, <1>2, <2>5
    <3>2. ASSUME job[l].at \in {"read", "rdwait"}
          PROVE  /\ made[Reads(l)] = job[l].want /\ Offers(job[l].want, Reads(l))'
                 /\ job[l].at = "rdwait" => job'[job[l].want].at = "open"
      <4>1. PICK n \in Jobs : n = job[l].want /\ Offers(n, Reads(l))
        BY <2>1, <2>2, <2>3, <3>2 DEF ReaderOf
      <4>2. PICK e \in Pairs : e = Reads(l)
        BY <2>3, <3>2
      <4>3. Offers(n, e)'
        BY <1>3, <4>1, <4>2
      <4>4. Offers(job[l].want, Reads(l))'
        BY <1>1, <4>1, <4>2, <4>3 DEF Offers
      <4>5. job[l].at = "rdwait" => job[n].at = "open" /\ job[l].in = n
        BY <2>1, <2>3, <4>1 DEF ReaderOf
      <4>6. job[l].at = "rdwait" => job'[n].at = "open"
        BY <1>1, <1>2, <4>5
      <4> QED BY <2>1, <3>2, <4>1, <4>4, <4>6 DEF ReaderOf
    <3>3. job[l].rd # 0 /\ job[l].at \in Late \cup {"unlink"} =>
            LET n == job[l].want
            IN \/ job'[n].at = "run" /\ job'[n].out = n
               \/ job'[n].at = "over" /\ data[n] = {n}
      BY <1>1, <1>2, <2>1, <2>2 DEF ReaderOf
    <3>4. job'[l].at \in Late \cup {"unlink"} => job[l].at \in Late \cup {"unlink"}
      BY <1>3, <3>1
    <3> QED BY <1>1, <2>1, <3>1, <3>2, <3>3, <3>4 DEF ReaderOf
  <2> QED BY <2>4, <2>5
<1>7. PipeInv'
  <2>1. OneReader'
    BY <1>1 DEF FifoInv, PipeInv, OneReader
  <2>2. DataInv'
    BY <1>1, <1>2 DEF FifoInv, PipeInv, DataInv
  <2>3. NameInv'
    <3>1. ASSUME NEW e \in Pairs, name[e] # 0
          PROVE  Offers(name[e], e)' \/ \E q \in Jobs : Taking(q, e)'
      <4>1. PICK m \in Jobs : m = name[e]
        BY <3>1, Basics
      <4>2. Offers(m, e) \/ \E q \in Jobs : Taking(q, e)
        BY <3>1, <4>1 DEF FifoInv, PipeInv, NameInv
      <4>3. Offers(m, e)' => Offers(name[e], e)'
        BY <4>1 DEF Offers
      <4> QED BY <1>3, <4>2, <4>3
    <3> QED BY <3>1 DEF NameInv
  <2>4. FlagInv'
    BY <1>3, FlagKept, Basics
  <2> QED BY <2>1, <2>2, <2>3, <2>4 DEF PipeInv
<1> QED BY <1>4, <1>5, <1>6, <1>7 DEF FifoInv
(* A writer opens its FIFO: its reader waits in it, or it waits itself.     *)
LEMMA KeptByOpenWrite ==
  ASSUME FifoInv, TypeInv', NEW k \in Jobs, OpenWrite(k) PROVE FifoInv'
<1>1. /\ job[k].at = "open" /\ name[Writes(k)] = k /\ made[Writes(k)] = k /\ Writes(k) \in Pairs
      /\ UNCHANGED <<here, flag, sh, cmd, name, data, made, jobs>>
  BY Basics DEF OpenWrite, At, FifoInv, WriterOf
<1>2. LET waits == Readers(k) = {}
      IN /\ Becomes(k, IF waits THEN "wrwait" ELSE "run", job[k].in, k)
         /\ \A l \in Jobs \ {k} :
              Becomes(l, IF ~waits /\ Met(l, k, "rdwait") THEN "unlink" ELSE job[l].at,
                      job[l].in, job[l].out)
  <2>1. LET q     == name[Writes(k)]
            waits == q # 0 /\ Readers(q) = {}
        IN /\ Becomes(k, IF waits THEN "wrwait" ELSE "run", job[k].in, q)
           /\ \A l \in Jobs \ {k} :
                Becomes(l, IF ~waits /\ Met(l, q, "rdwait") THEN "unlink" ELSE job[l].at,
                        job[l].in, job[l].out)
    BY JobsOfOpenWrite DEF FifoInv
  <2>2. name[Writes(k)] = k /\ k # 0
    BY <1>1
  <2> QED BY ONLY <2>1, <2>2
<1>3. CASE Readers(k) = {}
  <2>1. \A r \in Jobs : job[r].in = k => job[r].at # "rdwait"
    BY <1>3 DEF Readers
  <2>2. Becomes(k, "wrwait", job[k].in, k) /\ \A l \in Jobs \ {k} : Stays(l)
    BY <1>2, <1>3 DEF Stays
  <2> QED BY <1>1, <2>1, <2>2, KeptByWaiting
<1>4. CASE Readers(k) # {}
  <2>1. PICK r \in Jobs : job[r].in = k /\ job[r].at \in {"rdwait", "unlink"} \cup Late
    BY <1>4 DEF Readers, Late
  <2>2. job[r].rd # 0 /\ job[r].want = k /\ r # k
    BY <1>1, <2>1 DEF FifoInv, ReaderOf
  <2>3. job[r].at = "rdwait" /\ made[Reads(r)] = k /\ Offers(k, Reads(r))
    BY <1>1, <2>1, <2>2 DEF FifoInv, ReaderOf
  <2>4. Opening(r, Writes(k)) /\ Offers(k, Writes(k))
    BY <1>1, <2>3 DEF Offers, Opening
  <2>5. \A l \in Jobs \ {k, r} : ~Met(l, k, "rdwait")
    <3> SUFFICES ASSUME NEW l \in Jobs \ {k, r}, Met(l, k, "rdwait") PROVE FALSE
      OBVIOUS
    <3>1. job[l].at = "rdwait" /\ job[l].rd # 0 /\ job[l].out # k
      BY Basics DEF Met, FifoInv, WriterOf, Early
    <3>2. job[l].want = k
      BY <3>1 DEF Met, FifoInv, ReaderOf
    <3> QED BY <2>2, <3>1, <3>2 DEF FifoInv, PipeInv, OneReader
  <2>6. Becomes(k, "run", job[k].in, k) /\ \A l \in Jobs \ {k, r} : Stays(l)
    BY <1>2, <1>4, <2>5 DEF Stays
  <2>7. Becomes(r, "unlink", k, job[r].out)
    BY <1>2, <1>4, <2>1, <2>2, <2>3 DEF Met
  <2> QED BY <1>1, <2>2, <2>4, <2>6, <2>7, KeptByMeeting
<1> QED BY <1>3, <1>4

(* A reader opens the FIFO that is there under its name.                    *)
LEMMA KeptByOpenRead ==
  ASSUME FifoInv, TypeInv', NEW k \in Jobs, OpenRead(k) PROVE FifoInv'
<1>1. /\ job[k].at = "read" /\ job[k].rd # 0 /\ Reads(k) \in Pairs
      /\ UNCHANGED <<here, flag, sh, cmd, name, data, made, jobs>>
  BY Basics DEF OpenRead, At
<1>2. PICK n \in Jobs : n = job[k].want /\ n # k /\ made[Reads(k)] = n /\ Offers(n, Reads(k))
  <2>1. job[k].want \in 0..MaxJobs
    BY Basics DEF JobType
  <2> QED BY <1>1, <2>1 DEF FifoInv, ReaderOf
<1>3. name[Reads(k)] = n
  BY <1>2 DEF FifoInv, WriterOf, Offers
<1>4. LET waits == Writers(n) = {}
      IN /\ Becomes(k, IF waits THEN "rdwait" ELSE "unlink", n, job[k].out)
         /\ \A l \in Jobs \ {k} :
              Becomes(l, IF ~waits /\ Met(l, n, "wrwait") THEN "run" ELSE job[l].at,
                      job[l].in, job[l].out)
  <2>1. LET q     == name[Reads(k)]
            waits == q # 0 /\ Writers(q) = {}
        IN /\ Becomes(k, IF waits THEN "rdwait" ELSE "unlink", q, job[k].out)
           /\ \A l \in Jobs \ {k} :
                Becomes(l, IF ~waits /\ Met(l, q, "wrwait") THEN "run" ELSE job[l].at,
                        job[l].in, job[l].out)
    BY JobsOfOpenRead DEF FifoInv
  <2>2. name[Reads(k)] = n /\ n # 0
    BY <1>3
  <2> QED BY ONLY <2>1, <2>2
<1>5. CASE Writers(n) = {}
  <2>1. job[n].at # "wrwait"
    BY <1>5 DEF Writers, FifoInv, WriterOf
  <2>2. Becomes(k, "rdwait", n, job[k].out) /\ \A l \in Jobs \ {k} : Stays(l)
    BY <1>4, <1>5 DEF Stays
  <2> QED BY <1>1, <1>2, <2>1, <2>2, KeptByWaiting
<1>6. CASE Writers(n) # {}
  <2>1. PICK w \in Jobs : job[w].out = n /\ job[w].at \in {"wrwait", "run"}
    BY <1>6 DEF Writers
  <2>2. w = n /\ job[n].at = "wrwait" /\ job[n].out = n
    <3>1. w = n
      BY <2>1, Basics DEF FifoInv, WriterOf
    <3> QED BY <1>2, <2>1, <3>1 DEF Offers
  <2>3. \A l \in Jobs \ {k, n} : ~Met(l, n, "wrwait")
    <3> SUFFICES ASSUME NEW l \in Jobs \ {k, n}, Met(l, n, "wrwait") PROVE FALSE
      OBVIOUS
    <3>1. job[l].at = "wrwait" /\ job[l].out = l /\ job[l].in = n
      BY DEF Met, FifoInv, WriterOf
    <3>2. job[l].rd # 0 /\ job[l].want = n
      BY <3>1 DEF FifoInv, ReaderOf
    <3> QED BY <1>1, <1>2, <3>2 DEF FifoInv, PipeInv, OneReader
  <2>4. Becomes(k, "unlink", n, job[k].out) /\ \A l \in Jobs \ {k, n} : Stays(l)
    BY <1>4, <1>6, <2>3 DEF Stays
  <2>5. Becomes(n, "run", job[n].in, n)
    BY <1>2, <1>4, <1>6, <2>2 DEF Met
  <2>6. Opening(k, Reads(k))
    BY <1>1 DEF Opening
  <2> QED BY <1>1, <1>2, <2>4, <2>5, <2>6, KeptByMeeting
<1> QED BY <1>5, <1>6
(* A command runs: what it reads is gone, what it writes stays for its      *)
(* reader.                                                                  *)
LEMMA KeptByRun ==
  ASSUME FifoInv, TypeInv', NEW k \in Jobs, Run(k) PROVE FifoInv'
<1>1. /\ job[k].at = "run" /\ AtEof(k) /\ WriterOf(k) /\ ReaderOf(k)
      /\ UNCHANGED <<here, flag, sh, cmd, name, made, jobs>>
  BY DEF Run, At, FifoInv
<1>2. /\ \A l \in Jobs \ {k} :
           /\ Reads(l)' = Reads(l) /\ Writes(l)' = Writes(l)
           /\ job'[l].u = job[l].u /\ job'[l].rd = job[l].rd
           /\ job'[l].wr = job[l].wr /\ job'[l].want = job[l].want
           /\ job'[l].in = job[l].in /\ job'[l].out = job[l].out /\ job'[l].at = job[l].at
      /\ job'[k].at = "over" /\ job'[k].rd = 0 /\ job'[k].wr = 0
      /\ job'[k].in = 0 /\ job'[k].out = 0
  BY JobsOfRun DEF FifoInv, Becomes, Stays, Reads, Writes, NoJob
<1>3. /\ \A l \in Jobs, e \in Pairs : Offers(l, e)' <=> Offers(l, e)
      /\ \A l \in Jobs, e \in Pairs : Opening(l, e)' <=> Opening(l, e)
      /\ \A l \in Jobs, e \in Pairs : Taking(l, e)' <=> Taking(l, e)
      /\ \A l \in Jobs, e \in Pairs : Carries(l, e)' <=> Carries(l, e)
      /\ \A l \in Jobs : job'[l].at \in Early <=> job[l].at \in Early
  BY <1>1, <1>2 DEF Offers, Opening, Taking, Carries, Early
<1>4. ShellInv'
  <2>1. \A u \in User : sh'[u] = "clear" => ClearOf(u)'
    BY <1>1, <1>2, <1>3, ClearKept
  <2>2. ASSUME NEW u \in User, sh[u] = "fork" PROVE ForkOf(u)'
    <3>1. ForkOf(u)
      BY <2>2 DEF FifoInv, ShellInv
    <3>2. jobs \in Jobs /\ job'[jobs].at = "none"
      <4>1. jobs \in Jobs
        BY <3>1 DEF FifoInv, TypeInv, TypeOK, ForkOf
      <4> QED BY <1>1, <1>2, <3>1, <4>1 DEF ForkOf
    <3>3. ASSUME cmd[u].rd # 0
          PROVE  LET e == <<cmd[u].rd, u>>
                 IN e \in flag /\ made[e] # 0 /\ job'[made[e]].at \in {"open", "wrwait"}
                    /\ Writes(made[e])' = e
      <4>1. PICK e \in Pairs : e = <<cmd[u].rd, u>> /\ e \in flag
        BY <3>1, <3>3, ClearedPair DEF ForkOf
      <4>2. PICK n \in Jobs : n = made[e] /\ Offers(n, e)
        BY <3>1, <3>3, <4>1, ClearedPair DEF ForkOf
      <4>3. Offers(n, e)'
        BY <1>3, <4>2
      <4> QED BY <1>1, <3>1, <3>3, <4>1, <4>2, <4>3 DEF ForkOf, Offers, Writes
    <3> QED BY <1>1, <1>3, <3>1, <3>2, <3>3 DEF ForkOf, Offers
  <2> QED BY <1>1, <2>1, <2>2 DEF FifoInv, ShellInv
<1>5. ASSUME NEW l \in Jobs PROVE WriterOf(l)'
  <2>1. WriterOf(l)
    BY DEF FifoInv
  <2>2. CASE l = k
    BY <1>1, <1>2, <2>1, <2>2 DEF WriterOf, Early
  <2>3. CASE l # k
    <3>1. \A r \in Jobs : job[l].at = "run" /\ job[l].wr # 0 /\ job[r].in = l => r # k
      BY <1>1, <2>1, <2>3 DEF AtEof, Writers, WriterOf
    <3>2. job[l].at \in {"open", "wrwait"} => Writes(l) \in Pairs
      BY Basics
    <3> QED BY <1>1, <1>2, <1>3, <2>1, <2>3, <3>1, <3>2 DEF WriterOf
  <2> QED BY <2>2, <2>3
(* What the command wrote is kept when there is a reader.                   *)
<1>6. /\ \A n \in Jobs : n # k => data'[n] \in {data[n], {}}
      /\ \A n \in Jobs : n # job[k].in /\ n # k => data'[n] = data[n]
      /\ data'[k] \subseteq {k}
      /\ Readers(k) # {} /\ job[k].out = k => data'[k] = {k}
  <2>1. \A n \in Jobs : data'[n] = IF n = job[k].in THEN {}
                                  ELSE IF n = job[k].out /\ Readers(n) # {} THEN data[n] \cup {k}
                                  ELSE data[n]
    BY DEF Run
  <2>2. job[k].out \in {0, k} /\ job[k].in # k
    BY <1>1 DEF WriterOf, ReaderOf
  <2>3. data[k] \subseteq {k}
    BY DEF FifoInv, PipeInv, DataInv
  <2>4. ASSUME NEW n \in Jobs, n # k
        PROVE  data'[n] \in {data[n], {}} /\ (n # job[k].in => data'[n] = data[n])
    <3>1. n # job[k].out
      <4>1. n # 0
        OBVIOUS
      <4> QED BY ONLY <2>2, <2>4, <4>1
    <3>2. data'[n] = IF n = job[k].in THEN {}
                     ELSE IF n = job[k].out /\ Readers(n) # {} THEN data[n] \cup {k}
                     ELSE data[n]
      BY <2>1
    <3> QED BY ONLY <3>1, <3>2
  <2>5. data'[k] = IF k = job[k].out /\ Readers(k) # {} THEN data[k] \cup {k} ELSE data[k]
    BY <2>1, <2>2
  <2>6. data[k] \cup {k} = {k}
    BY ONLY <2>3
  <2> QED BY ONLY <2>3, <2>4, <2>5, <2>6
<1>7. ASSUME NEW l \in Jobs PROVE ReaderOf(l)'
  <2>1. ReaderOf(l) /\ OneReader
    BY DEF FifoInv, PipeInv
  <2>2. CASE l = k
    BY <1>2, <2>2 DEF ReaderOf, Late
  <2>3. CASE l # k /\ job[l].rd # 0
    <3>1. PICK n \in Jobs : n = job[l].want
      BY <2>1, <2>3, Basics DEF JobType, ReaderOf
    <3>2. job[l].at \in {"read", "rdwait"} => Offers(n, Reads(l))' /\ job'[n].at = job[n].at
      <4> SUFFICES ASSUME job[l].at \in {"read", "rdwait"}
                   PROVE  Offers(n, Reads(l))' /\ job'[n].at = job[n].at
        OBVIOUS
      <4>1. Offers(n, Reads(l)) /\ Reads(l) \in Pairs /\ Reads(l)' = Reads(l)
        BY <1>2, <2>1, <2>3, <3>1, Basics DEF ReaderOf
      <4>2. PICK e \in Pairs : e = Reads(l)
        BY <4>1
      <4>3. Offers(n, e)' /\ n # k
        BY <1>1, <1>3, <4>1, <4>2 DEF Offers
      <4> QED BY <1>2, <4>1, <4>2, <4>3 DEF Offers
    <3>3. ASSUME job[l].at \in Late \cup {"unlink"}
          PROVE  \/ job'[n].at = "run" /\ job'[n].out = n
                 \/ job'[n].at = "over" /\ data'[n] = {n}
      <4>1. \/ job[n].at = "run" /\ job[n].out = n
            \/ job[n].at = "over" /\ data[n] = {n}
        BY <2>1, <2>3, <3>1, <3>3 DEF ReaderOf
      <4>2. CASE n = k
        <5>1. job[l].in = k
          BY <2>1, <2>3, <3>1, <3>3, <4>2 DEF ReaderOf, Late
        <5>2. l \in Readers(k)
          BY <3>3, <5>1 DEF Readers, Late
        <5> QED BY <1>1, <1>2, <1>6, <4>1, <4>2, <5>2
      <4>3. CASE n # k
        <5>1. n # job[k].in
          BY <1>1, <2>1, <2>3, <3>1 DEF ReaderOf, OneReader
        <5> QED BY <1>2, <1>6, <4>1, <4>3, <5>1
      <4> QED BY <4>2, <4>3
    <3> QED BY <1>1, <1>2, <2>1, <2>3, <3>1, <3>2, <3>3 DEF ReaderOf
  <2>4. CASE l # k /\ job[l].rd = 0
    <3>1. job[l].at \notin {"read", "rdwait", "unlink"}
      BY <2>4, Basics
    <3> QED BY <1>2, <2>1, <2>4, <3>1 DEF ReaderOf
  <2> QED BY <2>2, <2>3, <2>4
<1>8. PipeInv'
  <2>1. OneReader'
    BY <1>2 DEF FifoInv, PipeInv, OneReader
  <2>2. DataInv'
    BY <1>1, <1>2, <1>6 DEF FifoInv, PipeInv, DataInv
  <2>3. NameInv'
    <3>1. ASSUME NEW e \in Pairs, name[e] # 0
          PROVE  Offers(name[e], e)' \/ \E q \in Jobs : Taking(q, e)'
      <4>1. PICK m \in Jobs : m = name[e]
        BY <3>1, Basics
      <4>2. Offers(m, e) \/ \E q \in Jobs : Taking(q, e)
        BY <3>1, <4>1 DEF FifoInv, PipeInv, NameInv
      <4>3. Offers(m, e)' => Offers(name[e], e)'
        BY <1>1, <4>1 DEF Offers
      <4> QED BY <1>3, <4>2, <4>3
    <3> QED BY <1>1, <3>1 DEF NameInv
  <2>4. FlagInv'
    BY <1>1, <1>3, FlagKept, Basics
  <2> QED BY <2>1, <2>2, <2>3, <2>4 DEF PipeInv
<1> QED BY <1>4, <1>5, <1>7, <1>8 DEF FifoInv
(* A shell forks: the child finds the FIFO it reads, and makes its own.     *)
LEMMA KeptByFork ==
  ASSUME FifoInv, TypeInv', NEW u \in User, Fork(u) PROVE FifoInv'
<1>1. PICK k \in Jobs : k = cmd[u].id /\ k = jobs
  BY DEF Fork, FifoInv, TypeInv, ShellInv, ForkOf
<1>2. /\ sh[u] = "fork" /\ job[k].at = "none" /\ \A l \in Jobs : job[l].at \notin Early
      /\ cmd[u].rd # 0 => LET e == <<cmd[u].rd, u>>
                          IN e \in flag /\ made[e] # 0 /\ Offers(made[e], e)
      /\ cmd[u].wr # 0 => LET e == <<u, cmd[u].wr>>
                          IN e \in flag /\ made[e] = k /\ name[e] = 0
      /\ \A v \in User : sh[v] \in {"fork", "clear"} => v = u
      /\ UNCHANGED <<here, flag, cmd, name, data, made, jobs>>
  BY <1>1 DEF Fork, FifoInv, ShellInv, ForkOf
<1>3. /\ sh'[u] = IF cmd[u].rd # 0 THEN "clear" ELSE "wait"
      /\ \A v \in User : v # u => sh'[v] = sh[v]
  BY DEF Fork, FifoInv, TypeInv, TypeOK
<1>4. /\ \A l \in Jobs \ {k} :
           /\ Reads(l)' = Reads(l) /\ Writes(l)' = Writes(l)
           /\ job'[l].u = job[l].u /\ job'[l].rd = job[l].rd
           /\ job'[l].wr = job[l].wr /\ job'[l].want = job[l].want
           /\ job'[l].in = job[l].in /\ job'[l].out = job[l].out /\ job'[l].at = job[l].at
      /\ job'[k].at = IF cmd[u].rd # 0 THEN "read" ELSE "make"
      /\ job'[k].u = u /\ job'[k].rd = cmd[u].rd /\ job'[k].wr = cmd[u].wr
      /\ job'[k].in = 0 /\ job'[k].out = 0
      /\ job'[k].want = IF cmd[u].rd # 0 THEN made[<<cmd[u].rd, u>>] ELSE 0
      /\ Reads(k)' = <<cmd[u].rd, u>> /\ Writes(k)' = <<u, cmd[u].wr>>
  <2>1. /\ \A l \in Jobs \ {k} : Stays(l)
        /\ job'[k].at = IF cmd[u].rd # 0 THEN "read" ELSE "make"
        /\ job'[k].u = u /\ job'[k].rd = cmd[u].rd /\ job'[k].wr = cmd[u].wr
        /\ job'[k].in = 0 /\ job'[k].out = 0
        /\ job'[k].want = IF cmd[u].rd # 0 THEN made[<<cmd[u].rd, u>>] ELSE 0
    BY <1>1, JobsOfFork DEF FifoInv
  <2>2. Reads(k)' = <<cmd[u].rd, u>> /\ Writes(k)' = <<u, cmd[u].wr>>
    BY <2>1 DEF Reads, Writes
  <2>3. \A l \in Jobs \ {k} :
           /\ Reads(l)' = Reads(l) /\ Writes(l)' = Writes(l)
           /\ job'[l].u = job[l].u /\ job'[l].rd = job[l].rd
           /\ job'[l].wr = job[l].wr /\ job'[l].want = job[l].want
           /\ job'[l].in = job[l].in /\ job'[l].out = job[l].out /\ job'[l].at = job[l].at
    BY <2>1 DEF Becomes, Stays, Reads, Writes
  <2> QED BY ONLY <2>1, <2>2, <2>3
<1>5. /\ \A l \in Jobs, e \in Pairs : Offers(l, e) => Offers(l, e)' /\ l # k
      /\ \A l \in Jobs, e \in Pairs : Carries(l, e) => Carries(l, e)'
      /\ \A l \in Jobs, e \in Pairs : ~Opening(l, e) /\ ~Taking(l, e)
  BY <1>2, <1>4 DEF Offers, Opening, Taking, Carries, Early
<1>6. ASSUME cmd[u].rd # 0
      PROVE  \E e \in Pairs, n \in Jobs :
               e = <<cmd[u].rd, u>> /\ n = made[e] /\ Offers(n, e) /\ Offers(n, e)' /\ n # k
  <2>1. PICK e \in Pairs : e = <<cmd[u].rd, u>>
    BY <1>2, <1>6, ClearedPair
  <2>2. PICK n \in Jobs : n = made[e] /\ Offers(n, e)
    BY <1>2, <1>6, <2>1, ClearedPair
  <2>3. Offers(n, e)' /\ n # k
    BY <1>5, <2>2
  <2> QED BY ONLY <2>1, <2>2, <2>3
<1>7. ShellInv'
  <2>1. \A v \in User : sh'[v] \in {"fork", "clear"} => v = u /\ sh'[u] = "clear" /\ cmd[u].rd # 0
    BY <1>2, <1>3
  <2>2. cmd[u].rd # 0 => ClearOf(u)'
    <3> SUFFICES ASSUME cmd[u].rd # 0 PROVE ClearOf(u)'
      OBVIOUS
    <3>1. Reads(k)' = <<cmd[u].rd, u>> /\ job'[k].at = "read" /\ made[<<cmd[u].rd, u>>] # 0
      BY <1>2, <1>4
    <3> QED BY <1>2, <3>1 DEF ClearOf, Opening
  <2> QED BY <2>1, <2>2 DEF ShellInv
<1>8. ASSUME NEW l \in Jobs PROVE WriterOf(l)'
  <2>1. CASE l = k
    BY <1>1, <1>2, <1>4, <2>1 DEF WriterOf, Early
  <2>2. CASE l # k
    <3>1. WriterOf(l) /\ job[l].at \notin Early
      BY <1>2 DEF FifoInv
    <3>2. job[l].at \in {"open", "wrwait"} => Writes(l) \in flag
      BY <1>5, <3>1, Basics DEF WriterOf
    <3>3. \A r \in Jobs : job[r].in = l /\ job[r].at \in Late \cup {"unlink"} => r # k
      BY <1>2 DEF Late
    <3> QED BY <1>2, <1>4, <2>2, <3>1, <3>2, <3>3 DEF WriterOf
  <2> QED BY <2>1, <2>2
<1>9. ASSUME NEW l \in Jobs, job[l].rd # 0
      PROVE  /\ l # k /\ job[l].want \in Jobs /\ job[l].at \in Late
             /\ job[job[l].want].at \in {"run", "over"} /\ job[l].want # k
  <2>1. WriterOf(l) /\ ReaderOf(l) /\ job[l].at \in Places
    BY Basics DEF FifoInv, JobType
  <2>2. job[l].at \in Late /\ l # k
    BY <1>2, <1>9, <2>1 DEF WriterOf, Places, Early, Late
  <2>3. job[job[l].want].at \in {"run", "over"}
    BY <1>9, <2>1, <2>2 DEF ReaderOf
  <2>4. job[l].want \in Jobs
    BY <1>9, <2>1, Basics DEF ReaderOf, JobType
  <2> QED BY <1>2, <2>2, <2>3, <2>4
<1>10. ASSUME NEW l \in Jobs PROVE ReaderOf(l)'
  <2>1. CASE l = k /\ cmd[u].rd # 0
    <3>1. PICK e \in Pairs, n \in Jobs :
            e = <<cmd[u].rd, u>> /\ n = made[e] /\ Offers(n, e)' /\ n # k
      BY <1>6, <2>1
    <3>2. /\ Reads(k)' = e /\ job'[k].want = n /\ job'[k].in = 0 /\ job'[k].at = "read"
          /\ job'[k].rd = cmd[u].rd /\ job'[k].u = u /\ sh'[u] = "clear" /\ cmd' = cmd /\ n # 0
          /\ made' = made
      BY <1>2, <1>3, <1>4, <2>1, <3>1
    <3>3. Offers(job[k].want, Reads(k))'
      BY <3>1, <3>2 DEF Offers
    <3> QED BY <2>1, <3>1, <3>2, <3>3 DEF ReaderOf, Late
  <2>2. CASE l = k /\ cmd[u].rd = 0
    BY <1>4, <2>2 DEF ReaderOf
  <2>3. CASE l # k
    <3>1. ReaderOf(l) /\ job[l].at \notin {"read", "rdwait", "unlink"}
      BY <1>2 DEF FifoInv, Early
    <3> QED BY <1>2, <1>4, <1>9, <2>3, <3>1 DEF ReaderOf
  <2> QED BY <2>1, <2>2, <2>3
<1>11. PipeInv'
  <2>1. OneReader'
    <3>1. ASSUME NEW l \in Jobs, l # k, job[l].rd # 0, cmd[u].rd # 0 PROVE job'[k].want # job[l].want
      <4>1. PICK e \in Pairs, n \in Jobs : e = <<cmd[u].rd, u>> /\ n = made[e] /\ Offers(n, e)
        BY <1>6, <3>1
      <4>2. job'[k].want = n /\ job[n].at \in {"open", "wrwait"}
        BY <1>4, <3>1, <4>1 DEF Offers
      <4> QED BY <1>9, <3>1, <4>2
    <3> QED BY <1>4, <3>1 DEF FifoInv, PipeInv, OneReader
  <2>2. DataInv'
    BY <1>2, <1>4 DEF FifoInv, PipeInv, DataInv
  <2>3. NameInv'
    <3>1. ASSUME NEW e \in Pairs, name[e] # 0
          PROVE  Offers(name[e], e)' \/ \E q \in Jobs : Taking(q, e)'
      <4>1. PICK m \in Jobs : m = name[e]
        BY <3>1, Basics
      <4>2. Offers(m, e)
        BY <1>5, <3>1, <4>1 DEF FifoInv, PipeInv, NameInv
      <4>3. Offers(m, e)' => Offers(name[e], e)'
        BY <1>2, <4>1 DEF Offers
      <4> QED BY <1>5, <4>2, <4>3
    <3> QED BY <1>2, <3>1 DEF NameInv
  <2>4. FlagInv'
    <3>1. ASSUME NEW e \in flag, made[e] # 0, Carries(made[e], e) PROVE Carries(made[e], e)'
      <4>1. PICK n \in Jobs : n = made[e]
        BY <3>1, Basics
      <4>2. Carries(n, e)'
        BY <1>5, <3>1, <4>1, Basics
      <4> QED BY <1>2, <4>1, <4>2 DEF Carries
    <3>2. ASSUME NEW e \in flag, sh[e[1]] = "fork", cmd[e[1]].wr = e[2] PROVE Carries(made[e], e)'
      <4>1. e \in Pairs /\ e[1] \in User /\ e[2] \in User /\ e = <<e[1], e[2]>>
        BY Basics DEF Pairs
      <4>2. e[1] = u /\ cmd[u].wr # 0 /\ e = <<u, cmd[u].wr>> /\ made[e] = k
        BY <1>2, <3>2, <4>1
      <4>3. job'[k].at \in Early /\ Writes(k)' = e
        BY <1>4, <4>2 DEF Early
      <4> QED BY <1>2, <4>2, <4>3 DEF Carries, Writes
    <3>3. ASSUME NEW e \in flag, sh[e[2]] = "clear" PROVE FALSE
      BY <1>2, <3>3, Basics DEF Pairs
    <3>4. \A e \in flag : made[e] # 0 /\ Carries(made[e], e)'
      BY <3>1, <3>2, <3>3 DEF FifoInv, PipeInv, FlagInv
    <3> QED BY <1>2, <3>4 DEF FlagInv
  <2> QED BY <2>1, <2>2, <2>3, <2>4 DEF PipeInv
<1> QED BY <1>7, <1>8, <1>10, <1>11 DEF FifoInv
(* A shell clears the flag of the pipe that its child reads: it is not the  *)
(* flag of a younger pipe.                                                  *)
LEMMA KeptByClear ==
  ASSUME FifoInv, TypeInv', NEW u \in User, Clear(u) PROVE FifoInv'
<1>1. /\ sh[u] = "clear" /\ cmd[u].rd # 0 /\ made[<<cmd[u].rd, u>>] # 0
      /\ \A v \in User : sh[v] \in {"fork", "clear"} => v = u
      /\ UNCHANGED <<here, cmd, name, data, job, made, jobs>>
  BY DEF Clear, FifoInv, ShellInv, ClearOf
<1>2. PICK c \in Pairs, n \in Jobs :
        /\ c = <<cmd[u].rd, u>> /\ n = made[c] /\ flag' = flag \ {c}
        /\ (\E r \in Jobs : Opening(r, c)) \/ job[n].at \in {"run", "over"}
  <2>1. PICK c \in Pairs : c = <<cmd[u].rd, u>>
    BY <1>1, ClearedPair
  <2>2. PICK n \in Jobs : n = made[c]
    BY <1>1, <2>1, ClearedPair
  <2>3. (\E r \in Jobs : Opening(r, c)) \/ job[n].at \in {"run", "over"}
    BY <1>1, <2>1, <2>2 DEF FifoInv, ShellInv, ClearOf
  <2> QED BY <2>1, <2>2, <2>3 DEF Clear, Cleared
<1>3. sh'[u] = "wait" /\ \A v \in User : v # u => sh'[v] = sh[v]
  BY DEF Clear, FifoInv, TypeInv, TypeOK
<1>4. ShellInv'
  BY <1>1, <1>3 DEF ShellInv
<1>5. ASSUME NEW l \in Jobs PROVE WriterOf(l)'
  <2>1. WriterOf(l)
    BY DEF FifoInv
  <2>2. ASSUME job[l].wr # 0, job[l].at \in Early PROVE Writes(l) # c
    <3> SUFFICES ASSUME Writes(l) = c PROVE FALSE
      OBVIOUS
    <3>1. n = l /\ job[n].at \notin {"run", "over"}
      BY <1>2, <2>1, <2>2 DEF WriterOf, Early
    <3>2. PICK r \in Jobs : Opening(r, c)
      BY <1>2, <3>1
    <3>3. r = l /\ job[r].rd # 0
      BY <2>2, <3>2, Basics DEF Opening, Early
    <3>4. made[Reads(r)] = job[r].want /\ job[r].want # r
      BY <3>2, <3>3 DEF FifoInv, ReaderOf, Opening
    <3> QED BY <1>2, <3>1, <3>2, <3>3, <3>4 DEF Opening
  <2>3. ASSUME job[l].at \in {"open", "wrwait"}, Writes(l) = c PROVE \E r \in Jobs : Opening(r, c)
    BY <1>2, <2>1, <2>3 DEF WriterOf
  <2>4. /\ Writes(l)' = Writes(l) /\ \A r \in Jobs : Opening(r, Writes(l))' <=> Opening(r, Writes(l))
        /\ UNCHANGED <<job, made, name, jobs>>
    BY <1>1 DEF Writes, Opening, Reads
  <2>5. job[l].wr # 0 /\ job[l].at \in Early => Writes(l) \in flag'
    BY <1>2, <2>1, <2>2 DEF WriterOf
  <2>6. job[l].at \in {"open", "wrwait"} =>
          Writes(l) \in flag' \/ \E r \in Jobs : Opening(r, Writes(l))
    BY <1>2, <2>1, <2>3 DEF WriterOf
  <2> QED BY <2>1, <2>4, <2>5, <2>6 DEF WriterOf
<1>6. ASSUME NEW l \in Jobs PROVE ReaderOf(l)'
  <2>1. ReaderOf(l)
    BY DEF FifoInv
  <2>2. ASSUME job[l].at \in {"read", "rdwait"} PROVE Reads(l) \notin flag'
    <3> SUFFICES ASSUME Reads(l) \in flag' PROVE FALSE
      OBVIOUS
    <3>1. sh[job[l].u] = "clear" /\ cmd[job[l].u].rd = job[l].rd /\ Reads(l) \in Pairs
      BY <1>2, <2>1, <2>2, Basics DEF ReaderOf
    <3>2. job[l].u = u
      BY <1>1, <3>1 DEF Reads, Pairs
    <3> QED BY <1>2, <3>1, <3>2 DEF Reads
  <2>3. Reads(l)' = Reads(l) /\ Offers(job[l].want, Reads(l))' = Offers(job[l].want, Reads(l))
        /\ UNCHANGED <<job, made, name, data>>
    BY <1>1 DEF Reads, Offers, Writes
  <2> QED BY <2>1, <2>2, <2>3 DEF ReaderOf
<1>7. PipeInv'
  <2>1. OneReader' /\ DataInv' /\ NameInv'
    BY <1>1 DEF FifoInv, PipeInv, OneReader, DataInv, NameInv, Offers, Taking, Reads, Writes
  <2>2. ASSUME NEW e \in flag' PROVE made[e] # 0 /\ Carries(made[e], e)
    <3>1. e \in flag /\ e \in Pairs /\ e # c
      BY <1>2, Basics
    <3>2. e[1] \in User /\ e[2] \in User /\ e = <<e[1], e[2]>>
      BY <3>1 DEF Pairs
    <3>3. sh[e[1]] # "fork"
      BY <1>1, <3>2
    <3>4. ~(sh[e[2]] = "clear" /\ cmd[e[2]].rd = e[1])
      <4> SUFFICES ASSUME sh[e[2]] = "clear", cmd[e[2]].rd = e[1] PROVE FALSE
        OBVIOUS
      <4>1. e[2] = u
        BY <1>1, <3>2
      <4> QED BY <1>2, <3>1, <3>2, <4>1
    <3> QED BY <3>1, <3>3, <3>4 DEF FifoInv, PipeInv, FlagInv
  <2>3. FlagInv'
    BY <1>1, <2>2 DEF FlagInv, Carries, Writes
  <2> QED BY <2>1, <2>3 DEF PipeInv
<1> QED BY <1>4, <1>5, <1>6, <1>7 DEF FifoInv

(* A shell has its prompt back.                                             *)
LEMMA KeptByReap ==
  ASSUME FifoInv, TypeInv', NEW u \in User, Reap(u) PROVE FifoInv'
<1>1. /\ sh[u] = "wait" /\ UNCHANGED <<here, flag, name, data, job, made, jobs>>
      /\ \A v \in User : v # u => sh'[v] = sh[v] /\ cmd'[v] = cmd[v]
      /\ sh'[u] = "idle"
  BY DEF Reap, FifoInv, TypeInv, TypeOK
<1>2. /\ \A l \in Jobs : Reads(l)' = Reads(l) /\ Writes(l)' = Writes(l)
      /\ \A l \in Jobs, e \in Pairs : Opening(l, e)' <=> Opening(l, e)
      /\ \A l, e : Offers(l, e)' <=> Offers(l, e)
      /\ \A l, e : Carries(l, e)' <=> Carries(l, e)
  BY <1>1 DEF Reads, Writes, Opening, Offers, Carries
<1>3. ShellInv'
  <2>1. \A v \in User : sh'[v] \in {"fork", "clear"} => v # u /\ sh'[v] = sh[v] /\ cmd'[v] = cmd[v]
    BY <1>1
  <2>2. ASSUME NEW v \in User, sh'[v] = "fork" PROVE ForkOf(v)'
    BY <1>1, <2>1, <2>2 DEF FifoInv, ShellInv, ForkOf, Offers, Writes
  <2>3. ASSUME NEW v \in User, sh'[v] = "clear" PROVE ClearOf(v)'
    <3>1. ClearOf(v) /\ cmd'[v] = cmd[v]
      BY <2>1, <2>3 DEF FifoInv, ShellInv
    <3>2. PICK e : e = <<cmd[v].rd, v>>
      OBVIOUS
    <3>3. \A r \in Jobs : Opening(r, e) => job'[r].at \in {"read", "rdwait"} /\ Reads(r)' = e
      BY <1>1, <1>2 DEF Opening
    <3>4. (\E r \in Jobs : job'[r].at \in {"read", "rdwait"} /\ Reads(r)' = e)
            \/ job[made[e]].at \in {"run", "over"}
      BY <3>1, <3>2, <3>3 DEF ClearOf
    <3> QED BY <1>1, <3>1, <3>2, <3>4 DEF ClearOf, Opening
  <2>4. \A v, w \in User : {sh'[v], sh'[w]} \subseteq {"fork", "clear"} => v = w
    <3>1. \A v, w \in User : {sh[v], sh[w]} \subseteq {"fork", "clear"} => v = w
      BY DEF FifoInv, ShellInv
    <3> QED BY ONLY <2>1, <3>1
  <2> QED BY <2>2, <2>3, <2>4 DEF ShellInv
<1>4. ASSUME NEW l \in Jobs PROVE WriterOf(l)'
  BY <1>1 DEF FifoInv, WriterOf, Opening, Reads, Writes
<1>5. ASSUME NEW l \in Jobs PROVE ReaderOf(l)'
  <2>1. ReaderOf(l)
    BY DEF FifoInv
  <2>2. ASSUME job[l].at \in {"read", "rdwait"}, Reads(l) \in flag
        PROVE  sh'[job[l].u] = "clear" /\ cmd'[job[l].u].rd = job[l].rd
    <3>1. sh[job[l].u] = "clear" /\ cmd[job[l].u].rd = job[l].rd /\ Reads(l) \in Pairs
      BY <2>1, <2>2, Basics DEF ReaderOf
    <3>2. job[l].u \in User
      BY <3>1 DEF Reads, Pairs
    <3> QED BY <1>1, <3>1, <3>2
  <2>3. Reads(l)' = Reads(l) /\ Offers(job[l].want, Reads(l))' = Offers(job[l].want, Reads(l))
        /\ UNCHANGED <<job, made, name, data, flag>>
    BY <1>1 DEF Reads, Offers, Writes
  <2> QED BY <2>1, <2>2, <2>3 DEF ReaderOf
<1>6. PipeInv'
  <2>1. OneReader' /\ DataInv' /\ NameInv'
    BY <1>1 DEF FifoInv, PipeInv, OneReader, DataInv, NameInv, Offers, Taking, Reads, Writes
  <2>2. ASSUME NEW e \in flag
        PROVE  /\ sh[e[1]] = "fork" => sh'[e[1]] = "fork" /\ cmd'[e[1]] = cmd[e[1]]
               /\ sh[e[2]] = "clear" => sh'[e[2]] = "clear" /\ cmd'[e[2]] = cmd[e[2]]
    <3>1. e[1] \in User /\ e[2] \in User
      BY Basics DEF Pairs
    <3> QED BY <1>1, <3>1
  <2>3. FlagInv'
    BY <1>1, <2>2 DEF FifoInv, PipeInv, FlagInv, Carries, Writes
  <2> QED BY <2>1, <2>3 DEF PipeInv
<1> QED BY <1>3, <1>4, <1>5, <1>6 DEF FifoInv
(* A user types a line.  Where a user waits for the children, no command is *)
(* on its way to the file system then.                                      *)
LEMMA AllAtRest ==
  ASSUME FifoInv, Ready
  PROVE  /\ \A u \in User : sh[u] \notin {"fork", "clear"}
         /\ \A k \in Jobs : job[k].at \notin Early
         /\ \A k \in Jobs, e \in Pairs : ~Opening(k, e) /\ ~Taking(k, e)
         /\ \A e \in flag : made[e] # 0 /\ Offers(made[e], e)
         /\ \A e \in Pairs : name[e] # 0 => e \in flag /\ Offers(name[e], e) /\ made[e] = name[e]
<1>1. \A u \in User : sh[u] \notin {"fork", "clear"}
  BY DEF Ready, AtRest
<1>2. \A k \in Jobs : job[k].at \notin Early
  BY DEF Ready, Early
<1>3. \A k \in Jobs, e \in Pairs : ~Opening(k, e) /\ ~Taking(k, e)
  BY <1>2 DEF Early, Opening, Taking
<1>4. ASSUME NEW e \in flag PROVE made[e] # 0 /\ Offers(made[e], e)
  <2>1. e \in Pairs /\ e[1] \in User /\ e[2] \in User
    BY Basics DEF Pairs
  <2>2. made[e] # 0 /\ Carries(made[e], e)
    BY <1>1, <2>1 DEF FifoInv, PipeInv, FlagInv
  <2>3. made[e] \in Jobs
    BY <2>1, <2>2, Basics
  <2> QED BY <1>2, <2>2, <2>3 DEF Carries, Offers
<1>5. ASSUME NEW e \in Pairs, name[e] # 0
      PROVE  e \in flag /\ Offers(name[e], e) /\ made[e] = name[e]
  <2>1. PICK n \in Jobs : n = name[e]
    BY <1>5, Basics
  <2>2. Offers(n, e)
    BY <1>3, <1>5, <2>1 DEF FifoInv, PipeInv, NameInv
  <2>3. e \in flag /\ made[e] = n
    BY <1>3, <2>2 DEF FifoInv, WriterOf, Offers
  <2> QED BY <2>1, <2>2, <2>3
<1> QED BY <1>1, <1>2, <1>3, <1>4, <1>5

LEMMA KeptByType ==
  ASSUME Patient, FifoInv, TypeInv', NEW u \in User, NEW r \in Peer, NEW w \in Peer, Type(u, r, w)
  PROVE  FifoInv'
<1>1. /\ \A v \in User : sh[v] \notin {"fork", "clear"}
      /\ \A k \in Jobs : job[k].at \notin Early
      /\ \A k \in Jobs, e \in Pairs : ~Opening(k, e) /\ ~Taking(k, e)
      /\ \A e \in flag : made[e] # 0 /\ Offers(made[e], e)
      /\ \A e \in Pairs : name[e] # 0 => e \in flag /\ Offers(name[e], e) /\ made[e] = name[e]
  BY AllAtRest DEF Type
<1>2. /\ sh[u] = "idle" /\ jobs' = jobs + 1 /\ jobs + 1 \in Jobs
      /\ UNCHANGED <<here, name, data, job>>
  <2>1. jobs \in 0..MaxJobs /\ jobs < MaxJobs
    BY DEF Type, FifoInv, TypeInv, TypeOK
  <2> QED BY <2>1 DEF Type
<1> DEFINE f == <<u, w>>
(* The pipe to write is new: the pipes that there are stay as they are.     *)
<1>3. /\ flag \subseteq flag' /\ \A e \in flag' : e \in flag \/ (e = f /\ sh'[u] = "fork"
                                                                /\ cmd'[u].wr = w /\ w # 0)
      /\ \A e \in flag : made'[e] = made[e]
      /\ \A e \in flag' : e \notin flag => made'[e] = jobs + 1
      /\ \A v \in User : v # u => sh'[v] = sh[v]
      /\ \/ sh'[u] \in {"idle", "wait"}
         \/ /\ sh'[u] = "fork" /\ CanRead(u, r) /\ CanWrite(u, w)
            /\ cmd'[u] = [rd |-> r, wr |-> w, id |-> jobs + 1]
            /\ flag' = flag \cup {e \in {f} : w # 0}
            /\ w # 0 => f \in flag' /\ made'[f] = jobs + 1
  <2>0. /\ sh \in [User -> {"idle", "fork", "clear", "wait"}] /\ flag \subseteq Pairs
        /\ cmd \in [User -> [rd : Peer, wr : Peer, id : 0..MaxJobs]]
        /\ made \in [Pairs -> 0..MaxJobs]
    BY Basics DEF FifoInv, TypeInv, TypeOK
  <2>1. CASE /\ CanRead(u, r) /\ CanWrite(u, w)
             /\ flag' = flag \cup {e \in {<<u, w>>} : w # 0}
             /\ made' = [e \in Pairs |-> IF e = <<u, w>> THEN jobs + 1 ELSE made[e]]
             /\ cmd' = [cmd EXCEPT ![u] = [rd |-> r, wr |-> w, id |-> jobs + 1]]
             /\ sh' = [sh EXCEPT ![u] = "fork"]
    <3>1. sh'[u] = "fork" /\ \A v \in User : v # u => sh'[v] = sh[v]
      BY <2>0, <2>1
    <3>2. cmd'[u] = [rd |-> r, wr |-> w, id |-> jobs + 1] /\ cmd'[u].wr = w
      BY <2>0, <2>1
    <3>3. w # 0 => f \in Pairs /\ f \notin flag
      BY <2>1 DEF CanWrite, Pairs
    <3>4. w = 0 => f \notin Pairs
      BY DEF Pairs
    <3>5. \A e \in flag : made'[e] = made[e]
      BY <2>0, <2>1, <3>3, <3>4
    <3>6. w # 0 => f \in flag' /\ made'[f] = jobs + 1
      BY <2>1, <3>3
    <3> QED BY <2>1, <3>1, <3>2, <3>5, <3>6
  <2>2. CASE UNCHANGED <<flag, made, cmd, sh>>
    BY <1>2, <2>2
  <2>3. CASE UNCHANGED <<flag, made>> /\ sh' = [sh EXCEPT ![u] = "wait"]
    BY <2>0, <2>3
  <2> QED BY <2>1, <2>2, <2>3 DEF Type
<1>4. /\ \A l \in Jobs : Reads(l)' = Reads(l) /\ Writes(l)' = Writes(l)
      /\ \A l \in Jobs, e \in Pairs : Opening(l, e)' <=> Opening(l, e)
      /\ \A l, e : Offers(l, e)' <=> Offers(l, e)
      /\ \A l, e : Carries(l, e)' <=> Carries(l, e)
  BY <1>2 DEF Reads, Writes, Opening, Offers, Carries
<1> HIDE DEF f
<1>5. ShellInv'
  <2>1. \A v \in User : sh'[v] \in {"fork", "clear"} => v = u /\ sh'[u] = "fork"
    BY <1>1, <1>3
  <2>2. sh'[u] = "fork" => ForkOf(u)'
    <3> SUFFICES ASSUME sh'[u] = "fork" PROVE ForkOf(u)'
      OBVIOUS
    <3>1. /\ CanRead(u, r) /\ CanWrite(u, w) /\ cmd'[u] = [rd |-> r, wr |-> w, id |-> jobs + 1]
          /\ w # 0 => f \in flag' /\ made'[f] = jobs + 1
      BY <1>3
    <3>2. jobs + 1 # 0 /\ job[jobs + 1].at = "none"
      <4>1. jobs \in Nat
        BY DEF FifoInv, TypeInv, TypeOK
      <4>2. WriterOf(jobs + 1)
        BY <1>2 DEF FifoInv
      <4> QED BY <4>1, <4>2 DEF WriterOf
    <3>3. w # 0 => name[f] = 0
      BY <1>1, <3>1 DEF CanWrite, f, Pairs
    <3>4. r # 0 => /\ <<r, u>> \in flag' /\ made'[<<r, u>>] # 0
                   /\ \A n : n = made'[<<r, u>>] => Offers(n, <<r, u>>)
      BY <1>1, <1>3, <3>1 DEF CanRead
    <3>5. r # 0 => /\ job'[made'[<<r, u>>]].at \in {"open", "wrwait"}
                   /\ <<job'[made'[<<r, u>>]].u, job'[made'[<<r, u>>]].wr>> = <<r, u>>
      BY <1>2, <3>4 DEF Offers, Writes
    <3>6. cmd'[u].rd = r /\ cmd'[u].wr = w /\ cmd'[u].id = jobs'
      BY <1>2, <3>1
    <3>7. jobs' # 0 /\ job'[jobs'].at = "none" /\ \A k \in Jobs : job'[k].at \notin Early
      BY <1>1, <1>2, <3>2
    <3>8. w # 0 => <<u, w>> \in flag' /\ made'[<<u, w>>] = jobs' /\ name'[<<u, w>>] = 0
      BY <1>2, <3>1, <3>3 DEF f
    <3> QED BY <3>4, <3>5, <3>6, <3>7, <3>8 DEF ForkOf, Offers, Writes
  <2> QED BY <2>1, <2>2 DEF ShellInv
<1>6. ASSUME NEW l \in Jobs PROVE WriterOf(l)'
  <2>1. WriterOf(l) /\ jobs \in Nat
    BY DEF FifoInv, TypeInv, TypeOK
  <2>2. job[l].at \in {"open", "wrwait"} => Writes(l) \in flag
    BY <1>1, <2>1, Basics DEF WriterOf
  <2>3. l > jobs' => l > jobs
    BY <1>2, <2>1
  <2> QED BY <1>1, <1>2, <1>3, <1>4, <2>1, <2>2, <2>3 DEF WriterOf
<1>7. ASSUME NEW l \in Jobs PROVE ReaderOf(l)'
  <2>1. ReaderOf(l) /\ job[l].at \notin {"read", "rdwait", "unlink"}
    BY <1>1 DEF FifoInv, Early
  <2> QED BY <1>2, <2>1 DEF ReaderOf
<1>8. PipeInv'
  <2>1. OneReader' /\ DataInv'
    BY <1>2 DEF FifoInv, PipeInv, OneReader, DataInv
  <2>2. NameInv'
    BY <1>2 DEF FifoInv, PipeInv, NameInv, Offers, Taking, Reads, Writes
  <2>3. FlagInv'
    <3>1. ASSUME NEW e \in flag
          PROVE  /\ made'[e] # 0 /\ job'[made'[e]].at \in {"open", "wrwait"}
                 /\ <<job'[made'[e]].u, job'[made'[e]].wr>> = e
      BY <1>1, <1>2, <1>3, <3>1 DEF Offers, Writes
    <3>2. ASSUME NEW e \in flag', e \notin flag
          PROVE  made'[e] # 0 /\ sh'[e[1]] = "fork" /\ cmd'[e[1]].wr = e[2]
      <4>1. e = f /\ sh'[u] = "fork" /\ cmd'[u].wr = w /\ made'[e] = jobs + 1
        BY <1>3, <3>2
      <4> QED BY <1>2, <4>1 DEF f
    <3> QED BY <3>1, <3>2 DEF FlagInv, Carries, Writes
  <2> QED BY <2>1, <2>2, <2>3 DEF PipeInv
<1> QED BY <1>5, <1>6, <1>7, <1>8 DEF FifoInv
(* Users come, and go when no pipe to or from them is left; or nothing      *)
(* happens.                                                                 *)
LEMMA KeptByComing ==
  ASSUME FifoInv, TypeInv', UNCHANGED <<flag, sh, cmd, name, data, job, made, jobs>> PROVE FifoInv'
<1>1. /\ \A u \in User : ForkOf(u)' <=> ForkOf(u)
      /\ \A u \in User : ClearOf(u)' <=> ClearOf(u)
  <2>1. \A u \in User : ForkOf(u)' <=> ForkOf(u)
    BY DEF ForkOf, Offers, Writes
  <2>2. \A u \in User : ClearOf(u)' <=> ClearOf(u)
    BY DEF ClearOf, Opening, Reads
  <2> QED BY <2>1, <2>2
<1>2. ShellInv'
  BY <1>1 DEF FifoInv, ShellInv
<1>3. \A l \in Jobs : WriterOf(l)'
  BY DEF FifoInv, WriterOf, Opening, Reads, Writes
<1>4. \A l \in Jobs : ReaderOf(l)'
  BY DEF FifoInv, ReaderOf, Offers, Reads, Writes
<1>5. PipeInv'
  BY DEF FifoInv, PipeInv, OneReader, DataInv, NameInv, FlagInv, Offers, Taking, Carries,
         Reads, Writes
<1> QED BY <1>2, <1>3, <1>4, <1>5 DEF FifoInv

LEMMA FifoInit == Init => FifoInv
<1> SUFFICES ASSUME Init PROVE FifoInv
  OBVIOUS
<1>1. /\ \A u \in User : sh[u] = "idle"
      /\ \A e \in Pairs : name[e] = 0
      /\ \A k \in Jobs : job[k] = NoJob /\ data[k] = {}
      /\ flag = {} /\ jobs = 0
  BY DEF Init
<1>2. ShellInv
  BY <1>1 DEF ShellInv
<1>3. \A k \in Jobs : WriterOf(k) /\ ReaderOf(k)
  BY <1>1 DEF WriterOf, ReaderOf, NoJob, Early, Late
<1>4. PipeInv
  BY <1>1 DEF PipeInv, OneReader, DataInv, NameInv, FlagInv, NoJob
<1> QED BY <1>2, <1>3, <1>4, TypeInit DEF FifoInv

LEMMA FifoStep == ASSUME Patient, Tidy PROVE FifoInv /\ [Next]_vars => FifoInv'
<1> SUFFICES ASSUME FifoInv, [Next]_vars PROVE FifoInv'
  OBVIOUS
<1>0. TypeInv'
  BY TypeStep DEF FifoInv
<1>1. CASE UNCHANGED vars
  BY <1>0, <1>1, KeptByComing DEF vars
<1>2. ASSUME NEW k \in Jobs, Child(k) PROVE FifoInv'
  BY <1>0, <1>2, KeptByOpenRead, KeptByUnlink, KeptByMkFifo, KeptByOpenWrite, KeptByRun DEF Child
<1>3. ASSUME NEW u \in User, Shell(u) PROVE FifoInv'
  BY <1>0, <1>3, KeptByFork, KeptByClear, KeptByReap DEF Shell
<1>4. ASSUME NEW u \in User, Client(u) PROVE FifoInv'
  <2>1. CASE Exit(u) \/ Login(u)
    BY <1>0, <2>1, KeptByComing DEF Exit, Login
  <2> QED BY <1>0, <1>4, <2>1, KeptByType DEF Client
<1> QED BY <1>1, <1>2, <1>3, <1>4 DEF Next

-------------------------------------------------------------------------------
(* What a command reads.                                                    *)
LEMMA OverByRun ==
  ASSUME TypeInv, [Next]_vars, NEW k \in Jobs, job[k].at = "run", job'[k].at = "over"
  PROVE  Run(k)
<1> SUFFICES ASSUME ~Run(k) PROVE FALSE
  OBVIOUS
<1>1. CASE UNCHANGED job
  BY <1>1
<1>2. ASSUME NEW l \in Jobs, Child(l) PROVE FALSE
  <2>1. CASE OpenRead(l)
    <3>1. l # k
      BY <2>1 DEF OpenRead, At
    <3>2. job'[k].at \in {"run", job[k].at}
      BY <2>1, <3>1, JobsOfOpenRead DEF Becomes
    <3> QED BY <3>2
  <2>2. CASE OpenWrite(l)
    <3>1. l # k
      BY <2>2 DEF OpenWrite, At
    <3>2. job'[k].at \in {"unlink", job[k].at}
      BY <2>2, <3>1, JobsOfOpenWrite DEF Becomes
    <3> QED BY <3>2
  <2>3. CASE Unlink(l) \/ MkFifo(l)
    BY <2>3, JobsOfMove DEF Unlink, MkFifo, At, Stays, Becomes
  <2>4. CASE Run(l)
    BY <2>4, JobsOfRun DEF Stays, Becomes
  <2> QED BY <1>2, <2>1, <2>2, <2>3, <2>4 DEF Child
<1>3. ASSUME NEW u \in User, Fork(u) PROVE FALSE
  <2>1. PICK n \in Jobs : n = cmd[u].id
    BY <1>3 DEF Fork, TypeInv
  <2>2. /\ \A l \in Jobs \ {n} : Stays(l)
        /\ job'[n].at = IF cmd[u].rd # 0 THEN "read" ELSE "make"
    BY <1>3, <2>1, JobsOfFork
  <2> QED BY <2>2 DEF Stays, Becomes
<1> QED BY <1>1, <1>2, <1>3 DEF Next, Shell, Client, Clear, Reap, Exit, Login, Type, vars

(* FifoRight: '< n' reads what the command that the flag announced wrote,   *)
(* all of it and nothing else, and never the client's own input: among any  *)
(* number of users, each of whom waits for the children before it types.    *)
THEOREM CommandsReadTheirPipe == ASSUME Patient, Tidy PROVE Spec => FifoRight
<1>1. FifoInv /\ [Next]_vars =>
        [\A k \in Jobs : At(k, "run") /\ job'[k].at = "over" /\ job[k].rd # 0
                           => Got(k) = {job[k].want}]_vars
  <2> SUFFICES ASSUME FifoInv, [Next]_vars, NEW k \in Jobs,
                      At(k, "run"), job'[k].at = "over", job[k].rd # 0
               PROVE  Got(k) = {job[k].want}
    OBVIOUS
  <2>1. Run(k)
    BY OverByRun DEF At, FifoInv
  <2>2. PICK n \in Jobs : n = job[k].want /\ job[k].in = n
    <3>1. job[k].want \in 0..MaxJobs
      BY Basics DEF JobType
    <3> QED BY <3>1 DEF At, FifoInv, ReaderOf
  <2>3. Writers(n) = {}
    BY <2>1, <2>2 DEF Run, AtEof
  <2>4. ~(job[n].at = "run" /\ job[n].out = n)
    BY <2>3 DEF Writers
  <2>5. data[n] = {n}
    BY <2>2, <2>4 DEF At, FifoInv, ReaderOf, Late
  <2> QED BY <2>2, <2>5 DEF Got
<1> QED BY <1>1, FifoInit, FifoStep, PTL DEF Spec, FifoRight

(* FlagIsFile: when every shell and child has come to rest, the flags, the  *)
(* names in the file system and the writers that wait are the same pipes:   *)
(* no FIFO is left over, and nobody waits in one that is not announced.     *)
THEOREM FlagsAreFiles == ASSUME Patient, Tidy PROVE Spec => []FlagIsFile
<1>1. FifoInv => FlagIsFile
  <2> SUFFICES ASSUME FifoInv, Settled PROVE /\ \A e \in Pairs : Waiting(e) = {k \in {made[e]} : e \in flag}
                                             /\ \A e \in Pairs : name[e] # 0 <=> e \in flag
                                             /\ \A k \in Jobs : ~At(k, "rdwait")
    BY DEF FlagIsFile
  <2>1. \A k \in Jobs : job[k].at \notin {"read", "unlink", "make", "open"}
    BY DEF Settled, CanMove
  <2>2. \A k \in Jobs : job[k].at # "rdwait"
    <3> SUFFICES ASSUME NEW k \in Jobs, job[k].at = "rdwait" PROVE FALSE
      OBVIOUS
    <3>1. job[k].rd # 0 /\ job[k].want \in 0..MaxJobs
      BY Basics DEF JobType
    <3>2. job[k].want \in Jobs /\ job[job[k].want].at = "open"
      BY <3>1 DEF FifoInv, ReaderOf
    <3> QED BY <2>1, <3>2
  <2>3. Ready
    BY <2>1, <2>2 DEF Ready, Settled
  <2>4. ASSUME NEW e \in Pairs PROVE Waiting(e) = {k \in {made[e]} : e \in flag}
    <3>1. ASSUME e \in flag PROVE made[e] \in Waiting(e)
      <4>1. made[e] \in Jobs /\ Offers(made[e], e)
        BY <2>3, <3>1, AllAtRest, Basics
      <4> QED BY <2>1, <4>1 DEF Waiting, At, Offers, Writes
    <3>2. ASSUME NEW k \in Waiting(e) PROVE e \in flag /\ k = made[e]
      <4>1. k \in Jobs /\ job[k].at = "wrwait" /\ Writes(k) = e
        BY DEF Waiting, At, Writes
      <4>2. made[e] = k /\ (e \in flag \/ \E r \in Jobs : Opening(r, e))
        BY <4>1 DEF FifoInv, WriterOf
      <4> QED BY <2>3, <4>2, AllAtRest
    <3> QED BY <3>1, <3>2
  <2>5. ASSUME NEW e \in Pairs PROVE name[e] # 0 <=> e \in flag
    <3>1. ASSUME e \in flag PROVE name[e] # 0
      <4>1. PICK n \in Jobs : n = made[e] /\ Offers(n, e)
        BY <2>3, <3>1, AllAtRest, Basics
      <4> QED BY <4>1 DEF FifoInv, WriterOf, Offers
    <3> QED BY <2>3, <3>1, AllAtRest
  <2> QED BY <2>2, <2>4, <2>5 DEF At
<1> QED BY <1>1, FifoInit, FifoStep, PTL DEF Spec

===============================================================================
