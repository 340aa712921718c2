--------------------------- MODULE ExeBinKeptProofs ---------------------------
(* What the server of np_single_proc keeps between two lines: which of its  *)
(* descriptors stands for which end of which pipe, and that the output of   *)
(* every command that is still to be read is in its pipe or on its way.     *)
(* Then what its children hold, and that no wait of the server is for ever. *)
EXTENDS ExeBinProofs

-------------------------------------------------------------------------------
(* What is kept between lines.  A line with ">n" has no "|n".               *)
UnmixedLine(l) == (\E k \in DOMAIN l : l[k].t = "to") => \A k \in DOMAIN l : l[k].t # "num"
UnmixedLines   == \A u \in User : \A l \in Inputs[u] : UnmixedLine(l)

(* A command that writes a user pipe has a ">n" among its tokens.           *)
LEMMA MadeWrites ==
  ASSUME NEW l, GoodLine(l), NEW k \in EndsIn(l), Made(l, k).wr # -1
  PROVE  \E j \in DOMAIN l : l[j].t = "to"
<1>1. \A type, num, w : Command(type, num, w).wr = Named(w, "to") /\ Unparsed(type, w).wr = -1
  BY DEF Command, Unparsed
<1>2. PICK type \in Types, num \in Nat : Made(l, k) = Command(type, num, Words(l, k))
  <2>1. Made(l, k) # Unparsed("F_RED_PIPE", <<l[k]>>) /\ Made(l, k) # Unparsed("PIPE", Words(l, k))
    BY <1>1
  <2> QED BY <2>1, MadeParts
<1>3. Named(Words(l, k), "to") # -1
  BY <1>1, <1>2
<1>4. PICK n \in DOMAIN Words(l, k) : Words(l, k)[n].t = "to"
  BY <1>3 DEF Named
<1>5. /\ Past(l, k) \in 0..(k - 1) /\ Words(l, k) \in Seq(Token)
      /\ Len(Words(l, k)) = k - 1 - Past(l, k)
      /\ \A m \in 1..(k - 1 - Past(l, k)) : Words(l, k)[m] = l[Past(l, k) + m]
  BY WordsOfCommand
<1>6. k \in 1..(Len(l) + 1) /\ Len(l) \in Nat /\ DOMAIN l = 1..Len(l)
  BY LineParts
<1>7. n \in 1..(k - 1 - Past(l, k))
  BY <1>4, <1>5, LenProperties
<1>8. Past(l, k) + n \in 1..Len(l)
  BY <1>5, <1>6, <1>7
<1>9. l[Past(l, k) + n].t = "to"
  BY <1>4, <1>5, <1>7
<1> QED BY <1>6, <1>8, <1>9

(* The file of ">" is behind a command that is piped into it, and writes no *)
(* user pipe.                                                               *)
LEMMA MadeFile ==
  ASSUME NEW l, GoodLine(l), NEW m \in 1..Cardinality(EndsIn(l)),
         split_by_pipe(l)[m].type = "F_RED_PIPE"
  PROVE  m > 1 /\ split_by_pipe(l)[m].wr = -1 /\ split_by_pipe(l)[m - 1].type = "PIPE"
<1> DEFINE f == InOrder(EndsIn(l))
           N == Cardinality(EndsIn(l))
           k == f[m]
<1>1. /\ EndsIn(l) \in SUBSET Nat /\ IsFiniteSet(EndsIn(l))
      /\ f \in [1..N -> EndsIn(l)] /\ N \in Nat
      /\ \A a, b \in 1..N : a < b => f[a] < f[b]
      /\ \A x \in EndsIn(l) : \E n \in 1..N : f[n] = x
  BY LineParts, InOrderLists
<1>2. split_by_pipe(l)[m] = Made(l, k)
  BY SplitParts
<1> HIDE DEF f, N
<1>3. k \in EndsIn(l) /\ k \in 1..(Len(l) + 1) /\ Len(l) \in Nat
  BY <1>1, LineParts DEF N
<1>4. \A type, num, w : /\ Command(type, num, w).type = type /\ Unparsed(type, w).type = type
                        /\ Unparsed(type, w).wr = -1
  BY DEF Command, Unparsed
<1> HIDE DEF k
<1>5. k <= Len(l) /\ k \notin Seps(l) /\ Made(l, k) = Unparsed("F_RED_PIPE", <<l[k]>>)
  <2>1. CASE k \in Seps(l)
    <3>1. l[k].t \in {"|", "num", ">"} /\ By(l, k) = l[k].t
      BY <2>1 DEF By, Seps
    <3>2. CASE l[k].t = "|"
      BY <1>2, <1>4, <3>1, <3>2 DEF Made
    <3>3. CASE l[k].t = "num"
      BY <1>2, <1>4, <3>1, <3>3 DEF Made
    <3>4. CASE l[k].t = ">"
      BY <1>2, <1>4, <3>1, <3>4 DEF Made
    <3> QED BY <3>1, <3>2, <3>3, <3>4
  <2>2. CASE k \notin Seps(l) /\ k > Len(l)
    <3>1. By(l, k) = "line"
      BY <1>3, <2>2 DEF By
    <3> QED BY <1>2, <1>4, <3>1 DEF Made
  <2>3. CASE k \notin Seps(l) /\ k <= Len(l)
    <3>1. By(l, k) = "file"
      BY <2>3 DEF By
    <3> QED BY <2>3, <3>1 DEF Made
  <2> QED BY <1>3, <2>1, <2>2, <2>3
<1>6. PICK j \in Seps(l) : k = j + 1 /\ l[j].t = ">"
  BY <1>3, <1>5, LineParts DEF Inner
<1>7. j \in EndsIn(l) /\ j < k
  <2>1. j \in Nat
    BY <1>6, LineParts
  <2>2. j \in Inner(l)
    BY <1>6 DEF Inner
  <2> QED BY <1>6, <2>1, <2>2 DEF EndsIn
<1>8. PICK n \in 1..N : f[n] = j
  BY <1>1, <1>7
<1>9. n = m - 1 /\ m \in Nat
  <2>1. /\ f[m] = j + 1 /\ f[n] = j /\ j \in Nat
        /\ \A a \in 1..N : f[a] \in Nat
    BY <1>1, <1>3, <1>6, <1>7, <1>8 DEF k, N
  <2>2. m \in 1..N /\ n \in 1..N /\ N \in Nat
    BY <1>1, <1>8 DEF N
  <2>3. ~(m < n)
    <3> SUFFICES ASSUME m < n PROVE FALSE
      OBVIOUS
    <3>1. f[m] < f[n]
      BY <1>1, <2>2
    <3> QED BY <2>1, <3>1
  <2>4. m # n
    BY <2>1
  <2>5. ASSUME n < m - 1 PROVE FALSE
    <3>1. m - 1 \in 1..N /\ n < m - 1 /\ m - 1 < m
      BY <2>2, <2>5
    <3>2. f[n] < f[m - 1] /\ f[m - 1] < f[m] /\ f[m - 1] \in Nat
      BY <1>1, <2>1, <2>2, <3>1
    <3> QED BY <2>1, <3>2
  <2> QED BY <2>2, <2>3, <2>4, <2>5
<1>10. split_by_pipe(l)[n].type = "PIPE"
  <2>1. split_by_pipe(l)[n] = Made(l, j)
    BY <1>8, SplitParts DEF f, N
  <2>2. By(l, j) = ">"
    BY <1>6 DEF By
  <2> QED BY <1>4, <2>1, <2>2 DEF Made
<1>11. m > 1
  BY <1>8, <1>9
<1>12. split_by_pipe(l)[m].wr = -1
  BY <1>2, <1>4, <1>5
<1> QED BY <1>9, <1>10, <1>11, <1>12

(* Who remembers descriptor f: a command of a user, the read end kept for a *)
(* user pipe, a temporary pipe, or what the caller of exe_bin saved.        *)
Owns(n, f) ==
  \/ \E u \in User : \E k \in DOMAIN cmds[u] : \E e \in {1, 2} :
       n = <<"cmd", u, k, e>> /\ f = cmds[u][k].fd[e]
  \/ \E a, b \in User : user_pipe[a][b] # NoPair /\ n = <<"pipe", a, b, 1>> /\ f = user_pipe[a][b][1]
  \/ \E m \in DOMAIN temp : \E e \in {1, 2} : n = <<"temp", m, 0, e>> /\ f = temp[m][e]
  \/ f \in scratch /\ n = <<"scratch", f, 0, 0>>

OpenIn(t, fd) == \E q \in Pipes : /\ fd[1] \in DOMAIN t /\ t[fd[1]] = <<q, "r">>
                                 /\ fd[2] \in DOMAIN t /\ t[fd[2]] = <<q, "w">>
ReadIn(t, f)  == f \in DOMAIN t /\ \E q \in Pipes : t[f] = <<q, "r">>

(* No number is remembered twice; every end of a pipe is open once; what is *)
(* still to be read is open; nothing else is, but one number for each line. *)
Distinct   == \A m, n, f : Owns(m, f) /\ Owns(n, f) => m = n
OneEach    == \A f, g \in DOMAIN tab : tab[f] = tab[g] /\ tab[f] # Other => f = g
OpenCmds   == \A u \in User : \A k \in DOMAIN cmds[u] : ~cmds[u][k].piped => OpenIn(tab, cmds[u][k].fd)
OpenPipes  == \A a, b \in User : user_pipe[a][b] # NoPair => ReadIn(tab, user_pipe[a][b][1])
OthersWait == \A u \in User : u # cur => \A k \in DOMAIN cmds[u] : ~cmds[u][k].piped
Loose      == {f \in DOMAIN tab : \A n : ~Owns(n, f)}

(* After the last stage what is read is closed.                             *)
AllClosed ==
  pc = "wait" => /\ \A k \in DOMAIN my : my[k].piped => my[k].fd[1] \notin DOMAIN tab /\ my[k].fd[2] \notin DOMAIN tab
                 /\ \A m \in DOMAIN temp : temp[m][1] \notin DOMAIN tab /\ temp[m][2] \notin DOMAIN tab

(* As long as a user pipe is still to be made in the line, all of its       *)
(* pipes are open, so that none of their numbers is taken for another.      *)
Whole ==
  pc \in {"stage", "waitpre"} /\ (\E k \in DOMAIN my : k >= i /\ my[k].wr # -1) =>
    /\ temp_id = 0
    /\ \A k \in DOMAIN my : /\ my[k].type # "NUM_PIPE"
                            /\ my[k].fd[1] \in DOMAIN tab /\ my[k].fd[2] \in DOMAIN tab
    /\ \A m \in DOMAIN temp : temp[m][1] \in DOMAIN tab /\ temp[m][2] \in DOMAIN tab

(* Nothing reads a command before it has run.                               *)
Unread == pc \in {"stage", "waitpre"} =>
            \A k \in DOMAIN my : k > i \/ (k = i /\ pc = "stage") => ~my[k].piped

PlaceInv ==
  /\ Distinct /\ OneEach /\ OpenCmds /\ OpenPipes /\ OthersWait /\ AllClosed /\ Whole /\ Unread
  /\ scratch \subseteq DOMAIN tab
  /\ pc = "read" => temp = << >> /\ scratch = {}
  /\ Cardinality(Loose) = Cardinality(Base) + lines

LEMMA OwnsAll ==
  /\ \A u \in User : \A k \in DOMAIN cmds[u] : \A e \in {1, 2} : Owns(<<"cmd", u, k, e>>, cmds[u][k].fd[e])
  /\ \A a, b \in User : user_pipe[a][b] # NoPair => Owns(<<"pipe", a, b, 1>>, user_pipe[a][b][1])
  /\ \A m \in DOMAIN temp : \A e \in {1, 2} : Owns(<<"temp", m, 0, e>>, temp[m][e])
  /\ \A f \in scratch : Owns(<<"scratch", f, 0, 0>>, f)
BY DEF Owns

(* What Distinct says of two kinds of owners.                               *)
LEMMA Separate ==
  ASSUME Distinct
  PROVE  /\ \A u, v \in User : \A k \in DOMAIN cmds[u], j \in DOMAIN cmds[v] : \A e, d \in {1, 2} :
              cmds[u][k].fd[e] = cmds[v][j].fd[d] => u = v /\ k = j /\ e = d
         /\ \A u, a, b \in User : \A k \in DOMAIN cmds[u] : \A e \in {1, 2} :
              user_pipe[a][b] # NoPair => cmds[u][k].fd[e] # user_pipe[a][b][1]
         /\ \A u \in User : \A k \in DOMAIN cmds[u] : \A e, d \in {1, 2} : \A m \in DOMAIN temp :
              cmds[u][k].fd[e] # temp[m][d]
         /\ \A u \in User : \A k \in DOMAIN cmds[u] : \A e \in {1, 2} : cmds[u][k].fd[e] \notin scratch
         /\ \A a, b, c, d \in User : user_pipe[a][b] # NoPair /\ user_pipe[c][d] # NoPair
              /\ user_pipe[a][b][1] = user_pipe[c][d][1] => a = c /\ b = d
         /\ \A a, b \in User : \A m \in DOMAIN temp : \A e \in {1, 2} :
              user_pipe[a][b] # NoPair => user_pipe[a][b][1] # temp[m][e]
         /\ \A a, b \in User : user_pipe[a][b] # NoPair => user_pipe[a][b][1] \notin scratch
         /\ \A m \in DOMAIN temp : \A e \in {1, 2} : temp[m][e] \notin scratch
<1>1. ASSUME NEW u \in User, NEW v \in User, NEW k \in DOMAIN cmds[u], NEW j \in DOMAIN cmds[v],
             NEW e \in {1, 2}, NEW d \in {1, 2}, cmds[u][k].fd[e] = cmds[v][j].fd[d]
      PROVE  u = v /\ k = j /\ e = d
  <2>1. Owns(<<"cmd", u, k, e>>, cmds[u][k].fd[e]) /\ Owns(<<"cmd", v, j, d>>, cmds[u][k].fd[e])
    BY <1>1, OwnsAll
  <2>2. <<"cmd", u, k, e>> = <<"cmd", v, j, d>>
    BY <2>1 DEF Distinct
  <2> QED BY <2>2
<1>2. ASSUME NEW u \in User, NEW a \in User, NEW b \in User, NEW k \in DOMAIN cmds[u], NEW e \in {1, 2},
             user_pipe[a][b] # NoPair, cmds[u][k].fd[e] = user_pipe[a][b][1]
      PROVE  FALSE
  <2>1. Owns(<<"cmd", u, k, e>>, cmds[u][k].fd[e]) /\ Owns(<<"pipe", a, b, 1>>, cmds[u][k].fd[e])
    BY <1>2, OwnsAll
  <2>2. <<"cmd", u, k, e>> = <<"pipe", a, b, 1>>
    BY <2>1 DEF Distinct
  <2> QED BY <2>2
<1>3. ASSUME NEW u \in User, NEW k \in DOMAIN cmds[u], NEW e \in {1, 2}, NEW d \in {1, 2},
             NEW m \in DOMAIN temp, cmds[u][k].fd[e] = temp[m][d]
      PROVE  FALSE
  <2>1. Owns(<<"cmd", u, k, e>>, cmds[u][k].fd[e]) /\ Owns(<<"temp", m, 0, d>>, cmds[u][k].fd[e])
    BY <1>3, OwnsAll
  <2>2. <<"cmd", u, k, e>> = <<"temp", m, 0, d>>
    BY <2>1 DEF Distinct
  <2> QED BY <2>2
<1>4. ASSUME NEW u \in User, NEW k \in DOMAIN cmds[u], NEW e \in {1, 2}, cmds[u][k].fd[e] \in scratch
      PROVE  FALSE
  <2>1. Owns(<<"cmd", u, k, e>>, cmds[u][k].fd[e])
        /\ Owns(<<"scratch", cmds[u][k].fd[e], 0, 0>>, cmds[u][k].fd[e])
    BY <1>4, OwnsAll
  <2>2. <<"cmd", u, k, e>> = <<"scratch", cmds[u][k].fd[e], 0, 0>>
    BY <2>1 DEF Distinct
  <2> QED BY <2>2
<1>5. ASSUME NEW a \in User, NEW b \in User, NEW c \in User, NEW d \in User, user_pipe[a][b] # NoPair,
             user_pipe[c][d] # NoPair, user_pipe[a][b][1] = user_pipe[c][d][1]
      PROVE  a = c /\ b = d
  <2>1. Owns(<<"pipe", a, b, 1>>, user_pipe[a][b][1]) /\ Owns(<<"pipe", c, d, 1>>, user_pipe[a][b][1])
    BY <1>5, OwnsAll
  <2>2. <<"pipe", a, b, 1>> = <<"pipe", c, d, 1>>
    BY <2>1 DEF Distinct
  <2> QED BY <2>2
<1>6. ASSUME NEW a \in User, NEW b \in User, NEW m \in DOMAIN temp, NEW e \in {1, 2},
             user_pipe[a][b] # NoPair, user_pipe[a][b][1] = temp[m][e]
      PROVE  FALSE
  <2>1. Owns(<<"pipe", a, b, 1>>, temp[m][e]) /\ Owns(<<"temp", m, 0, e>>, temp[m][e])
    BY <1>6, OwnsAll
  <2>2. <<"pipe", a, b, 1>> = <<"temp", m, 0, e>>
    BY <2>1 DEF Distinct
  <2> QED BY <2>2
<1>7. ASSUME NEW a \in User, NEW b \in User, user_pipe[a][b] # NoPair, user_pipe[a][b][1] \in scratch
      PROVE  FALSE
  <2>1. Owns(<<"pipe", a, b, 1>>, user_pipe[a][b][1])
        /\ Owns(<<"scratch", user_pipe[a][b][1], 0, 0>>, user_pipe[a][b][1])
    BY <1>7, OwnsAll
  <2>2. <<"pipe", a, b, 1>> = <<"scratch", user_pipe[a][b][1], 0, 0>>
    BY <2>1 DEF Distinct
  <2> QED BY <2>2
<1>8. ASSUME NEW m \in DOMAIN temp, NEW e \in {1, 2}, temp[m][e] \in scratch PROVE FALSE
  <2>1. Owns(<<"temp", m, 0, e>>, temp[m][e]) /\ Owns(<<"scratch", temp[m][e], 0, 0>>, temp[m][e])
    BY <1>8, OwnsAll
  <2>2. <<"temp", m, 0, e>> = <<"scratch", temp[m][e], 0, 0>>
    BY <2>1 DEF Distinct
  <2> QED BY <2>2
<1> QED BY <1>1, <1>2, <1>3, <1>4, <1>5, <1>6, <1>7, <1>8

LEMMA LooseKept ==
  ASSUME \A f \in DOMAIN tab' : f \in DOMAIN tab \/ \E n : Owns(n, f)',
         \A f \in DOMAIN tab : f \in DOMAIN tab' \/ \E n : Owns(n, f),
         \A f \in DOMAIN tab : f \in DOMAIN tab' => ((\E n : Owns(n, f)) <=> (\E n : Owns(n, f)'))
  PROVE  Loose' = Loose
<1>1. ASSUME NEW f PROVE f \in Loose' <=> f \in DOMAIN tab' /\ ~\E n : Owns(n, f)'
  BY DEF Loose
<1>2. ASSUME NEW f PROVE f \in Loose <=> f \in DOMAIN tab /\ ~\E n : Owns(n, f)
  BY DEF Loose
<1>3. ASSUME NEW f PROVE f \in Loose' <=> f \in Loose
  BY <1>1, <1>2
<1> QED BY <1>3

(* A step that opens nothing, closes only what is remembered, and forgets   *)
(* the user pipes it closes.                                                *)
SameCmds ==
  /\ \A u \in User : DOMAIN cmds'[u] = DOMAIN cmds[u]
  /\ \A u \in User : \A k \in DOMAIN cmds[u] :
       /\ Kept(cmds'[u][k], cmds[u][k])
       /\ cmds[u][k].piped => cmds'[u][k].piped
       /\ u # cur /\ ~cmds[u][k].piped => ~cmds'[u][k].piped
Closes(F) ==
  /\ DOMAIN tab' = DOMAIN tab \ F /\ \A f \in DOMAIN tab' : tab'[f] = tab[f]
  /\ \A f \in F : f \in DOMAIN tab => \E n : Owns(n, f)
  /\ \A u \in User : \A k \in DOMAIN cmds[u] :
       ~cmds'[u][k].piped => cmds[u][k].fd[1] \notin F /\ cmds[u][k].fd[2] \notin F
  /\ \A a, b \in User :
       /\ user_pipe'[a][b] # NoPair => user_pipe'[a][b] = user_pipe[a][b] /\ user_pipe[a][b][1] \notin F
       /\ user_pipe'[a][b] # user_pipe[a][b] => user_pipe[a][b][1] \in F
  /\ \A f \in scratch : f \notin F

LEMMA PlaceCloses ==
  ASSUME PlaceInv, SameCmds, UNCHANGED <<temp, scratch, lines, cur>>, pc' = "read" => pc = "read",
         NEW F, Closes(F), AllClosed', Whole', Unread'
  PROVE  PlaceInv'
<1>1. ASSUME NEW n, NEW f, Owns(n, f)' PROVE Owns(n, f)
  <2>1. CASE \E u \in User : \E k \in DOMAIN cmds'[u] : \E e \in {1, 2} :
               n = <<"cmd", u, k, e>> /\ f = cmds'[u][k].fd[e]
    <3>1. PICK u \in User : \E k \in DOMAIN cmds'[u] : \E e \in {1, 2} :
                 n = <<"cmd", u, k, e>> /\ f = cmds'[u][k].fd[e]
      BY <2>1
    <3>2. PICK k \in DOMAIN cmds'[u], e \in {1, 2} : n = <<"cmd", u, k, e>> /\ f = cmds'[u][k].fd[e]
      BY <3>1
    <3>3. k \in DOMAIN cmds[u] /\ cmds'[u][k].fd = cmds[u][k].fd
      BY DEF SameCmds, Kept
    <3> QED BY <3>2, <3>3 DEF Owns
  <2>2. CASE \E a, b \in User : user_pipe'[a][b] # NoPair /\ n = <<"pipe", a, b, 1>> /\ f = user_pipe'[a][b][1]
    <3>1. PICK a \in User, b \in User :
                 user_pipe'[a][b] # NoPair /\ n = <<"pipe", a, b, 1>> /\ f = user_pipe'[a][b][1]
      BY <2>2
    <3>2. user_pipe'[a][b] = user_pipe[a][b]
      BY <3>1 DEF Closes
    <3> QED BY <3>1, <3>2 DEF Owns
  <2>3. CASE \E m \in DOMAIN temp : \E e \in {1, 2} : n = <<"temp", m, 0, e>> /\ f = temp[m][e]
    BY <2>3 DEF Owns
  <2>4. CASE f \in scratch /\ n = <<"scratch", f, 0, 0>>
    BY <2>4 DEF Owns
  <2> QED BY <1>1, <2>1, <2>2, <2>3, <2>4 DEF Owns
<1>2. ASSUME NEW n, NEW f, Owns(n, f), f \notin F PROVE Owns(n, f)'
  <2>1. CASE \E u \in User : \E k \in DOMAIN cmds[u] : \E e \in {1, 2} :
               n = <<"cmd", u, k, e>> /\ f = cmds[u][k].fd[e]
    <3>1. PICK u \in User : \E k \in DOMAIN cmds[u] : \E e \in {1, 2} :
                 n = <<"cmd", u, k, e>> /\ f = cmds[u][k].fd[e]
      BY <2>1
    <3>2. PICK k \in DOMAIN cmds[u], e \in {1, 2} : n = <<"cmd", u, k, e>> /\ f = cmds[u][k].fd[e]
      BY <3>1
    <3>3. k \in DOMAIN cmds'[u] /\ cmds'[u][k].fd = cmds[u][k].fd
      BY DEF SameCmds, Kept
    <3> QED BY <3>2, <3>3 DEF Owns
  <2>2. CASE \E a, b \in User : user_pipe[a][b] # NoPair /\ n = <<"pipe", a, b, 1>> /\ f = user_pipe[a][b][1]
    <3>1. PICK a \in User, b \in User :
                 user_pipe[a][b] # NoPair /\ n = <<"pipe", a, b, 1>> /\ f = user_pipe[a][b][1]
      BY <2>2
    <3>2. user_pipe'[a][b] = user_pipe[a][b]
      BY <1>2, <3>1 DEF Closes
    <3> QED BY <3>1, <3>2 DEF Owns
  <2>3. CASE \E m \in DOMAIN temp : \E e \in {1, 2} : n = <<"temp", m, 0, e>> /\ f = temp[m][e]
    BY <2>3 DEF Owns
  <2>4. CASE f \in scratch /\ n = <<"scratch", f, 0, 0>>
    BY <2>4 DEF Owns
  <2> QED BY <1>2, <2>1, <2>2, <2>3, <2>4 DEF Owns
<1>3. Distinct'
  <2> SUFFICES ASSUME NEW m, NEW n, NEW f, Owns(m, f)', Owns(n, f)' PROVE m = n
    BY DEF Distinct
  <2> QED BY <1>1 DEF PlaceInv, Distinct
<1>4. OneEach'
  BY DEF PlaceInv, OneEach, Closes
<1>5. OpenCmds'
  <2> SUFFICES ASSUME NEW u \in User, NEW k \in DOMAIN cmds'[u], ~cmds'[u][k].piped
               PROVE  OpenIn(tab', cmds'[u][k].fd)
    BY DEF OpenCmds
  <2>1. /\ k \in DOMAIN cmds[u] /\ cmds'[u][k].fd = cmds[u][k].fd /\ ~cmds[u][k].piped
        /\ cmds[u][k].fd[1] \notin F /\ cmds[u][k].fd[2] \notin F
    BY DEF SameCmds, Kept, Closes
  <2>2. OpenIn(tab, cmds[u][k].fd)
    BY <2>1 DEF PlaceInv, OpenCmds
  <2> QED BY <2>1, <2>2, ZenonT(60) DEF OpenIn, Closes
<1>6. OpenPipes'
  <2> SUFFICES ASSUME NEW a \in User, NEW b \in User, user_pipe'[a][b] # NoPair
               PROVE  ReadIn(tab', user_pipe'[a][b][1])
    BY DEF OpenPipes
  <2>1. user_pipe'[a][b] = user_pipe[a][b] /\ user_pipe[a][b][1] \notin F
    BY DEF Closes
  <2>2. ReadIn(tab, user_pipe[a][b][1])
    BY <2>1 DEF PlaceInv, OpenPipes
  <2> QED BY <2>1, <2>2 DEF ReadIn, Closes
<1>7. OthersWait'
  BY DEF PlaceInv, OthersWait, SameCmds
<1>8. (scratch \subseteq DOMAIN tab)' /\ (pc = "read" => temp = << >> /\ scratch = {})'
  BY DEF PlaceInv, Closes
<1>9. Loose' = Loose
  <2>1. \A f \in DOMAIN tab' : f \in DOMAIN tab \/ \E n : Owns(n, f)'
    BY DEF Closes
  <2>2. \A f \in DOMAIN tab : f \in DOMAIN tab' \/ \E n : Owns(n, f)
    BY DEF Closes
  <2>3. \A f \in DOMAIN tab : f \in DOMAIN tab' => f \notin F
    BY DEF Closes
  <2>4. \A f \in DOMAIN tab : f \in DOMAIN tab' => ((\E n : Owns(n, f)) <=> (\E n : Owns(n, f)'))
    BY <1>1, <1>2, <2>3
  <2> QED BY <2>1, <2>2, <2>4, LooseKept
<1>10. (Cardinality(Loose) = Cardinality(Base) + lines)'
  BY <1>9 DEF PlaceInv, Base
<1> QED BY <1>3, <1>4, <1>5, <1>6, <1>7, <1>8, <1>10 DEF PlaceInv

(* Steps that change neither descriptors nor what remembers them.           *)
LEMMA PlaceSame ==
  ASSUME Typed, PlaceInv, UNCHANGED <<cmds, tab, user_pipe, temp, temp_id, scratch, lines, cur>>,
         \/ pc' = pc /\ i' = i
         \/ pc = "waitpre" /\ pc' = "stage" /\ i' = i + 1
  PROVE  PlaceInv'
<1>1. SameCmds
  BY DEF SameCmds, Kept
<1>2. Closes({})
  BY DEF Closes
<1>3. AllClosed'
  BY DEF PlaceInv, AllClosed, my
<1>4. Whole'
  <2> SUFFICES ASSUME pc' \in {"stage", "waitpre"}, NEW k \in DOMAIN my, k >= i', my[k].wr # -1
               PROVE  /\ temp_id = 0
                      /\ \A j \in DOMAIN my : /\ my[j].type # "NUM_PIPE"
                                              /\ my[j].fd[1] \in DOMAIN tab /\ my[j].fd[2] \in DOMAIN tab
                      /\ \A m \in DOMAIN temp : temp[m][1] \in DOMAIN tab /\ temp[m][2] \in DOMAIN tab
    BY DEF Whole, my
  <2>1. pc \in {"stage", "waitpre"} /\ pc # "read"
    OBVIOUS
  <2>2. k \in Nat /\ i \in Nat
    BY <2>1, CurUser DEF Typed, TypeInv
  <2>3. k >= i
    BY <2>2
  <2> QED BY <2>1, <2>3 DEF PlaceInv, Whole
<1>5. (pc' = "read" => pc = "read") /\ UNCHANGED <<temp, scratch, lines, cur>>
  OBVIOUS
<1>6. Unread'
  <2> SUFFICES ASSUME pc' \in {"stage", "waitpre"}, NEW k \in DOMAIN my, k > i' \/ (k = i' /\ pc' = "stage")
               PROVE  ~my[k].piped
    BY DEF Unread, my
  <2>1. pc \in {"stage", "waitpre"} /\ pc # "read"
    OBVIOUS
  <2>2. k \in Nat /\ i \in Nat
    BY <2>1, CurUser DEF Typed, TypeInv
  <2>3. k > i \/ (k = i /\ pc = "stage")
    BY <2>2
  <2> QED BY <2>1, <2>3 DEF PlaceInv, Unread
<1> QED BY <1>1, <1>2, <1>3, <1>4, <1>5, <1>6, PlaceCloses

LEMMA PlaceStageFails ==
  ASSUME Typed, PlaceInv, StageFails
  PROVE  PlaceInv'
<1>1. /\ AtStage /\ pc' = "waitpre" /\ i' = i /\ cur' = cur
      /\ UNCHANGED <<temp, temp_id, scratch, lines, user_pipe, tab>>
      /\ cmds' = [cmds EXCEPT ![cur] = Mark(reduce_num_pipes(my), i, TRUE)]
  BY DEF StageFails, Collected, line, ghost, Mark, my
<1>2. /\ cur \in User /\ i \in 1..Len(my) /\ Len(my) \in Nat
      /\ my' \in Seq(Cmd) /\ Len(my') = Len(my)
      /\ \A v \in User : v # cur => cmds'[v] = cmds[v]
      /\ \A k \in 1..Len(my) :
           /\ Kept(my'[k], my[k]) /\ (k # i => my'[k].piped = my[k].piped)
      /\ my'[i].piped
  BY <1>1, StageCmds
<1>3. DOMAIN my = 1..Len(my) /\ DOMAIN my' = 1..Len(my) /\ pc = "stage"
  BY <1>1, <1>2, CurUser, LenProperties DEF Typed, AtStage
<1>4. my' = cmds'[cur] /\ my = cmds[cur]
  BY <1>1 DEF my
<1>5. SameCmds
  <2>1. \A u \in User : DOMAIN cmds'[u] = DOMAIN cmds[u]
    BY <1>2, <1>3, <1>4
  <2>2. ASSUME NEW u \in User, NEW k \in DOMAIN cmds[u], u # cur
        PROVE  cmds'[u][k] = cmds[u][k]
    BY <1>2, <2>2
  <2>3. ASSUME NEW k \in DOMAIN my
        PROVE  Kept(my'[k], my[k]) /\ (my[k].piped => my'[k].piped)
    BY <1>2, <1>3
  <2> QED BY <1>4, <2>1, <2>2, <2>3 DEF SameCmds, Kept
<1>6. Closes({})
  BY <1>1 DEF Closes
<1>7. AllClosed'
  BY <1>1 DEF AllClosed
<1>8. \A k \in DOMAIN my : my'[k].wr = my[k].wr /\ my'[k].type = my[k].type /\ my'[k].fd = my[k].fd
  BY <1>2, <1>3 DEF Kept
<1>9. Whole'
  BY <1>1, <1>3, <1>8 DEF PlaceInv, Whole
<1>10. Unread'
  <2> SUFFICES ASSUME NEW k \in DOMAIN my', k > i PROVE ~my'[k].piped
    BY <1>1 DEF Unread
  <2>1. k \in 1..Len(my) /\ k # i
    BY <1>2, <1>3
  <2>2. my'[k].piped = my[k].piped
    BY <1>2, <2>1
  <2> QED BY <1>3, <2>1, <2>2 DEF PlaceInv, Unread
<1> QED BY <1>1, <1>5, <1>6, <1>7, <1>9, <1>10, PlaceCloses

LEMMA PlaceCollect ==
  ASSUME Typed, PlaceInv, Collect
  PROVE  PlaceInv'
<1>1. /\ AtStage /\ pc = "stage" /\ pc # "read"
      /\ UNCHANGED <<cur, i, temp, scratch, user_pipe, lines>>
  BY CollectNames DEF AtStage, ghost
<1>2. PICK j \in 1..(i - 1) :
        /\ Due(cur, j)
        /\ \/ pc' = "killed" /\ UNCHANGED <<cmds, tab>>
           \/ /\ pc' = pc
              /\ cmds' = [cmds EXCEPT ![cur] = [@ EXCEPT ![j].piped = TRUE]]
              /\ tab' = Close(tab, Both(my[j].fd))
  BY CollectNames
<1>3. CASE pc' = "killed" /\ UNCHANGED <<cmds, tab>>
  <2>1. SameCmds /\ Closes({})
    BY <1>1, <1>3 DEF SameCmds, Kept, Closes
  <2>2. AllClosed' /\ Whole' /\ Unread'
    BY <1>3 DEF AllClosed, Whole, Unread
  <2> QED BY <1>1, <1>3, <2>1, <2>2, PlaceCloses
<1>4. CASE /\ pc' = pc
           /\ cmds' = [cmds EXCEPT ![cur] = [@ EXCEPT ![j].piped = TRUE]]
           /\ tab' = Close(tab, Both(my[j].fd))
  <2>1. /\ cur \in User /\ i \in 1..Len(my) /\ Len(my) \in Nat /\ DOMAIN my = 1..Len(my)
    BY <1>1, CurUser DEF Typed
  <2>2. /\ my' \in Seq(Cmd) /\ Len(my') = Len(my)
        /\ \A v \in User : v # cur => cmds'[v] = cmds[v]
        /\ \A k \in 1..Len(my) : Kept(my'[k], my[k]) /\ (k # j => my'[k] = my[k])
        /\ my'[j].piped
    BY <1>1, <1>4, CollectCmds
  <2>3. DOMAIN my' = 1..Len(my) /\ j \in DOMAIN my
    BY <2>1, <2>2, LenProperties
  <2>4. my' = cmds'[cur] /\ my = cmds[cur]
    BY <1>1 DEF my
  <2>5. SameCmds
    <3>1. \A u \in User : DOMAIN cmds'[u] = DOMAIN cmds[u]
      BY <2>1, <2>2, <2>3, <2>4
    <3>2. ASSUME NEW u \in User, NEW k \in DOMAIN cmds[u], u # cur
          PROVE  cmds'[u][k] = cmds[u][k]
      BY <2>2, <3>2
    <3>3. ASSUME NEW k \in DOMAIN my
          PROVE  Kept(my'[k], my[k]) /\ (my[k].piped => my'[k].piped)
      BY <2>1, <2>2
    <3> QED BY <2>4, <3>1, <3>2, <3>3 DEF SameCmds, Kept
  <2> DEFINE F == Both(my[j].fd)
  <2>6. F = {cmds[cur][j].fd[1], cmds[cur][j].fd[2]}
    BY <2>4 DEF Both
  <2>7. Distinct
    BY DEF PlaceInv
  <2>8. Closes(F)
    <3>1. DOMAIN tab' = DOMAIN tab \ F /\ \A f \in DOMAIN tab' : tab'[f] = tab[f]
      <4>1. tab' = Close(tab, F)
        BY <1>4
      <4> HIDE DEF F
      <4>2. DOMAIN Close(tab, F) = DOMAIN tab \ F /\ \A f \in DOMAIN tab \ F : Close(tab, F)[f] = tab[f]
        BY CloseParts
      <4> QED BY <4>1, <4>2
    <3>2. \A f \in F : \E n : Owns(n, f)
      <4>1. /\ Owns(<<"cmd", cur, j, 1>>, cmds[cur][j].fd[1])
            /\ Owns(<<"cmd", cur, j, 2>>, cmds[cur][j].fd[2])
        BY <2>1, <2>3, <2>4, OwnsAll
      <4> QED BY <2>6, <4>1
    <3>3. ASSUME NEW u \in User, NEW k \in DOMAIN cmds[u], ~cmds'[u][k].piped
          PROVE  cmds[u][k].fd[1] \notin F /\ cmds[u][k].fd[2] \notin F
      <4>1. u # cur \/ k # j
        BY <2>2, <2>4, <3>3
      <4> QED BY <2>1, <2>3, <2>4, <2>6, <2>7, <4>1, Separate
    <3>4. \A a, b \in User : user_pipe[a][b] # NoPair => user_pipe[a][b][1] \notin F
      BY <2>1, <2>3, <2>4, <2>6, <2>7, Separate
    <3>5. \A f \in scratch : f \notin F
      BY <2>1, <2>3, <2>4, <2>6, <2>7, Separate
    <3> HIDE DEF F
    <3> QED BY <1>1, <3>1, <3>2, <3>3, <3>4, <3>5 DEF Closes
  <2>9. AllClosed'
    BY <1>1, <1>4 DEF AllClosed
  <2>10. Whole'
    <3>1. my[j].type = "NUM_PIPE"
      BY <1>2 DEF Due, my
    <3>2. ~\E k \in DOMAIN my : k >= i /\ my[k].wr # -1
      BY <1>1, <2>3, <3>1 DEF PlaceInv, Whole
    <3>3. \A k \in DOMAIN my : my'[k].wr = my[k].wr
      BY <2>1, <2>2 DEF Kept
    <3>4. DOMAIN my' = DOMAIN my
      BY <2>1, <2>3
    <3> QED BY <1>1, <3>2, <3>3, <3>4 DEF Whole
  <2>11. (pc' = "read" => pc = "read") /\ UNCHANGED <<temp, scratch, lines, cur>>
    BY <1>1, <1>4
  <2>12. Unread'
    <3> SUFFICES ASSUME NEW k \in DOMAIN my', k >= i PROVE ~my'[k].piped
      BY <1>1, <1>4, <2>1, <2>3 DEF Unread
    <3>1. k \in 1..Len(my) /\ k # j
      BY <2>1, <2>3
    <3>2. my'[k] = my[k] /\ (k > i \/ k = i)
      BY <2>1, <2>2, <3>1
    <3> QED BY <1>1, <2>1, <3>1, <3>2 DEF PlaceInv, Unread
  <2> HIDE DEF F
  <2> QED BY <2>5, <2>8, <2>9, <2>10, <2>11, <2>12, PlaceCloses
<1> QED BY <1>2, <1>3, <1>4

LEMMA PlaceEndLine ==
  ASSUME Typed, PlaceInv, EndLine
  PROVE  PlaceInv'
<1> DEFINE F == close_pipe \cup close_temp_pipe
<1>1. /\ pc = "stage" /\ i > Len(my) /\ pc' = "wait" /\ tab' = Close(tab, F)
      /\ UNCHANGED <<cur, i, temp, scratch, cmds, user_pipe, lines>>
  BY DEF EndLine, line, ghost
<1>2. /\ cur \in User /\ Len(my) \in Nat /\ DOMAIN my = 1..Len(my) /\ i \in Nat
      /\ my = cmds[cur] /\ my' = my
  BY <1>1, CurUser DEF Typed, TypeInv, my
<1>3. \A k \in DOMAIN my : my[k].type # "NUM_PIPE" => my[k].piped
  BY <1>1, <1>2 DEF Typed, Progress, Done
<1>4. \A f : f \in F <=> \/ \E k \in DOMAIN my : my[k].piped /\ (f = my[k].fd[1] \/ f = my[k].fd[2])
                         \/ \E m \in DOMAIN temp : f = temp[m][1] \/ f = temp[m][2]
  BY <1>3 DEF close_pipe, close_temp_pipe, Both
<1>5. SameCmds
  BY <1>1 DEF SameCmds, Kept
<1>6. DOMAIN tab' = DOMAIN tab \ F /\ \A f \in DOMAIN tab' : tab'[f] = tab[f]
  <2> HIDE DEF F
  <2>1. DOMAIN Close(tab, F) = DOMAIN tab \ F /\ \A f \in DOMAIN tab \ F : Close(tab, F)[f] = tab[f]
    BY CloseParts
  <2> QED BY <1>1, <2>1
<1>7. Distinct
  BY DEF PlaceInv
<1> HIDE DEF F
<1>8. Closes(F)
  <2>1. ASSUME NEW f \in F PROVE \E n : Owns(n, f)
    <3>1. CASE \E k \in DOMAIN my : f = my[k].fd[1] \/ f = my[k].fd[2]
      BY <1>2, <3>1, OwnsAll
    <3>2. CASE \E m \in DOMAIN temp : f = temp[m][1] \/ f = temp[m][2]
      BY <3>2, OwnsAll
    <3> QED BY <1>4, <2>1, <3>1, <3>2
  <2>2. ASSUME NEW u \in User, NEW k \in DOMAIN cmds[u], ~cmds'[u][k].piped, NEW e \in {1, 2}
        PROVE  cmds[u][k].fd[e] \notin F
    <3> SUFFICES ASSUME cmds[u][k].fd[e] \in F PROVE FALSE
      OBVIOUS
    <3>1. CASE \E j \in DOMAIN my : my[j].piped /\ (cmds[u][k].fd[e] = my[j].fd[1] \/ cmds[u][k].fd[e] = my[j].fd[2])
      <4>1. PICK j \in DOMAIN cmds[cur], d \in {1, 2} : cmds[cur][j].piped /\ cmds[u][k].fd[e] = cmds[cur][j].fd[d]
        BY <1>2, <3>1
      <4>2. u = cur /\ k = j
        BY <1>2, <1>7, <4>1, Separate
      <4> QED BY <1>1, <2>2, <4>1, <4>2
    <3>2. CASE \E m \in DOMAIN temp : cmds[u][k].fd[e] = temp[m][1] \/ cmds[u][k].fd[e] = temp[m][2]
      BY <1>7, <3>2, Separate
    <3> QED BY <1>4, <3>1, <3>2
  <2>3. ASSUME NEW a \in User, NEW b \in User, user_pipe[a][b] # NoPair PROVE user_pipe[a][b][1] \notin F
    BY <1>2, <1>4, <1>7, <2>3, Separate
  <2>4. ASSUME NEW f \in scratch PROVE f \notin F
    BY <1>2, <1>4, <1>7, <2>4, Separate
  <2>5. \A u \in User : \A k \in DOMAIN cmds[u] :
          ~cmds'[u][k].piped => cmds[u][k].fd[1] \notin F /\ cmds[u][k].fd[2] \notin F
    BY <2>2
  <2> QED BY <1>1, <1>6, <2>1, <2>3, <2>4, <2>5 DEF Closes
<1>9. AllClosed'
  BY <1>1, <1>2, <1>4, <1>6 DEF AllClosed
<1>10. Whole' /\ Unread'
  BY <1>1 DEF Whole, Unread
<1>11. (pc' = "read" => pc = "read") /\ UNCHANGED <<temp, scratch, lines, cur>>
  BY <1>1
<1> QED BY <1>5, <1>8, <1>9, <1>10, <1>11, PlaceCloses

(* The table a forked stage finds: the server's, with the user pipe it made.*)
LEMMA ForkTabParts ==
  ASSUME Typed, AtStage, CanWrite, C.wr # -1 => Room(2, 1)
  PROVE  /\ \A f \in DOMAIN tab : f \in DOMAIN ForkTab /\ ForkTab[f] = tab[f]
         /\ C.wr = -1 => DOMAIN ForkTab = DOMAIN tab /\ ForkUp = user_pipe
         /\ C.wr # -1 => \E a, b \in FreeFd : \E q \in FreePipes :
              /\ a # b /\ DOMAIN ForkTab = DOMAIN tab \cup {a, b}
              /\ ForkTab[a] = <<q, "r">> /\ ForkTab[b] = <<q, "w">>
              /\ ForkUp = [user_pipe EXCEPT ![cur][C.wr] = <<a, b>>]
<1> DEFINE s == EndsOf(ForkPairs)
<1>1. /\ DOMAIN ForkTab = DOMAIN tab \cup DOMAIN s
      /\ \A f \in DOMAIN s : ForkTab[f] = s[f]
      /\ \A f \in DOMAIN tab \ DOMAIN s : ForkTab[f] = tab[f]
  BY MergeParts DEF ForkTab
<1>2. /\ C.wr # -1 => /\ LowSeq(FreeFd, 2) \in FreeFd \X FreeFd
                      /\ LowSeq(FreeFd, 2)[1] # LowSeq(FreeFd, 2)[2]
                      /\ ForkPairs[1] = LowSeq(FreeFd, 2)
      /\ ForkPairs \in Seq((0..MaxFd) \X (0..MaxFd)) /\ Apart(ForkPairs)
      /\ Cardinality(FreePipes) >= Len(ForkPairs)
      /\ Len(ForkPairs) = IF C.wr = -1 THEN 0 ELSE 1
  BY ForkParts
<1>3. DOMAIN ForkPairs = 1..Len(ForkPairs)
  BY <1>2, LenProperties
<1>4. /\ DOMAIN s = UNION {Both(ForkPairs[m]) : m \in DOMAIN ForkPairs}
      /\ \A m \in DOMAIN ForkPairs : \E q \in FreePipes : /\ s[ForkPairs[m][1]] = <<q, "r">>
                                                          /\ s[ForkPairs[m][2]] = <<q, "w">>
  <2> DEFINE id == LowSeq(FreePipes, Len(ForkPairs))
  <2>1. /\ DOMAIN s = UNION {Both(ForkPairs[m]) : m \in DOMAIN ForkPairs}
        /\ \A m \in DOMAIN ForkPairs : /\ id[m] \in FreePipes
                                       /\ s[ForkPairs[m][1]] = <<id[m], "r">>
                                       /\ s[ForkPairs[m][2]] = <<id[m], "w">>
    BY <1>2, EndsOfParts
  <2> HIDE DEF id, s
  <2> QED BY <2>1
<1> HIDE DEF s
<1>5. CASE C.wr = -1
  <2>1. DOMAIN s = {}
    BY <1>2, <1>3, <1>4, <1>5
  <2> QED BY <1>1, <1>5, <2>1 DEF ForkUp
<1>6. CASE C.wr # -1
  <2>1. PICK a \in FreeFd, b \in FreeFd : LowSeq(FreeFd, 2) = <<a, b>>
    BY <1>2, <1>6
  <2>2. DOMAIN ForkPairs = {1} /\ ForkPairs[1] = <<a, b>> /\ a # b
    BY <1>2, <1>3, <1>6, <2>1
  <2>3. DOMAIN s = {a, b}
    BY <1>4, <2>2 DEF Both
  <2>4. PICK q \in FreePipes : s[a] = <<q, "r">> /\ s[b] = <<q, "w">>
    BY <1>4, <2>2
  <2>5. a \notin DOMAIN tab /\ b \notin DOMAIN tab
    BY DEF FreeFd
  <2>6. ForkUp = [user_pipe EXCEPT ![cur][C.wr] = <<a, b>>]
    BY <1>6, <2>2 DEF ForkUp
  <2> QED BY <1>1, <1>6, <2>2, <2>3, <2>4, <2>5, <2>6
<1> QED BY <1>5, <1>6

LEMMA ForkCmds ==
  ASSUME Typed, PlaceInv, StageForks
  PROVE  /\ pc = "stage" /\ pc' = "stage" /\ cur' = cur /\ cur \in User /\ i' = i + 1 /\ i \in 1..Len(my)
         /\ UNCHANGED <<temp, temp_id, scratch, lines>> /\ SameCmds /\ Unread'
         /\ DOMAIN my = 1..Len(my) /\ DOMAIN my' = DOMAIN my /\ Len(my) \in Nat /\ my = cmds[cur]
         /\ \A k \in DOMAIN my : Kept(my'[k], my[k])
         /\ (C.rd # -1 => C.rd \in User /\ user_pipe[C.rd][cur] # NoPair)
         /\ (C.wr # -1 => C.wr \in User /\ user_pipe[cur][C.wr] = NoPair)
         /\ temp_id + 1 \in DOMAIN temp /\ C = my[i] /\ my' = cmds'[cur]
<1>1. /\ AtStage /\ CanRead /\ CanWrite
      /\ UNCHANGED <<pc, cur, temp, temp_id, scratch, lines>> /\ i' = i + 1
  BY StageForksNames
<1>2. /\ cur \in User /\ i \in 1..Len(my) /\ Len(my) \in Nat
      /\ my' \in Seq(Cmd) /\ Len(my') = Len(my)
      /\ \A v \in User : v # cur => cmds'[v] = cmds[v]
      /\ \A k \in 1..Len(my) : /\ Kept(my'[k], my[k]) /\ (k # i => my'[k].piped = my[k].piped)
  BY StageForksCmds
<1>3. DOMAIN my = 1..Len(my) /\ DOMAIN my' = 1..Len(my) /\ pc = "stage"
  BY <1>1, <1>2, CurUser, LenProperties DEF Typed, AtStage
<1>4. my' = cmds'[cur] /\ my = cmds[cur]
  BY <1>1 DEF my
<1>5. ~my[i].piped
  BY <1>2, <1>3 DEF PlaceInv, Unread
<1>6. SameCmds
  <2>1. \A u \in User : DOMAIN cmds'[u] = DOMAIN cmds[u]
    BY <1>2, <1>3, <1>4
  <2>2. ASSUME NEW u \in User, NEW k \in DOMAIN cmds[u], u # cur
        PROVE  cmds'[u][k] = cmds[u][k]
    BY <1>2, <2>2
  <2>3. ASSUME NEW k \in DOMAIN my
        PROVE  Kept(my'[k], my[k]) /\ (my[k].piped => my'[k].piped)
    BY <1>2, <1>3, <1>5
  <2> QED BY <1>4, <2>1, <2>2, <2>3 DEF SameCmds, Kept
<1>7. Unread'
  <2> SUFFICES ASSUME NEW k \in DOMAIN my', k >= i + 1 PROVE ~my'[k].piped
    BY <1>1, <1>2, <1>3 DEF Unread
  <2>1. k \in 1..Len(my) /\ k # i /\ k > i
    BY <1>2, <1>3
  <2>2. my'[k].piped = my[k].piped
    BY <1>2, <2>1
  <2> QED BY <1>3, <2>1, <2>2 DEF PlaceInv, Unread
<1>8. temp_id + 1 \in DOMAIN temp
  <2>1. Len(temp) = TempPipes /\ temp_id < TempPipes /\ temp_id \in 0..TempPipes /\ temp \in Seq(Pair)
    BY <1>3 DEF Typed, TypeInv, Progress
  <2>2. DOMAIN temp = 1..TempPipes /\ TempPipes \in Nat
    BY <2>1, LenProperties, BoundAssumption
  <2> QED BY <2>1, <2>2
<1>9. (C.rd # -1 => C.rd \in User /\ user_pipe[C.rd][cur] # NoPair)
  BY <1>1 DEF CanRead
<1>10. (C.wr # -1 => C.wr \in User /\ user_pipe[cur][C.wr] = NoPair)
  BY <1>1 DEF CanWrite
<1>11. \A k \in DOMAIN my : Kept(my'[k], my[k])
  BY <1>2, <1>3
<1>12. C = my[i] /\ pc' = "stage"
  BY <1>1, <1>3 DEF C
<1> QED BY <1>1, <1>2, <1>3, <1>4, <1>6, <1>7, <1>8, <1>9, <1>10, <1>11, <1>12

(* The server closes the temporary pipe and the user pipe the stage read.   *)
LEMMA PlaceReads ==
  ASSUME Typed, PlaceInv, StageForks, C.wr = -1
  PROVE  PlaceInv'
<1> DEFINE F == ParentCloses(ForkUp)
<1>1. /\ pc = "stage" /\ pc' = "stage" /\ cur' = cur /\ cur \in User /\ i' = i + 1 /\ i \in 1..Len(my)
      /\ UNCHANGED <<temp, temp_id, scratch, lines>> /\ SameCmds /\ Unread'
      /\ DOMAIN my = 1..Len(my) /\ DOMAIN my' = DOMAIN my /\ Len(my) \in Nat /\ my = cmds[cur]
      /\ \A k \in DOMAIN my : Kept(my'[k], my[k])
      /\ (C.rd # -1 => C.rd \in User /\ user_pipe[C.rd][cur] # NoPair)
      /\ temp_id + 1 \in DOMAIN temp
  BY ForkCmds
<1>2. /\ tab' = Close(ForkTab, F)
      /\ user_pipe' = IF C.rd = -1 THEN ForkUp ELSE [ForkUp EXCEPT ![C.rd][cur] = NoPair]
  BY StageForksNames
<1>3. DOMAIN ForkTab = DOMAIN tab /\ ForkUp = user_pipe /\ \A f \in DOMAIN tab : ForkTab[f] = tab[f]
  BY StageForksNames, ForkTabParts
<1>4. \A f : f \in F <=> \/ temp_id # 0 /\ (f = temp[temp_id + 1][1] \/ f = temp[temp_id + 1][2])
                         \/ C.rd # -1 /\ f = user_pipe[C.rd][cur][1]
  BY <1>3 DEF ParentCloses, Both
<1>5. user_pipe \in [User -> [User -> Pair]]
  BY DEF Typed, TypeInv
<1>6. \A a, b \in User : user_pipe'[a][b] = IF a = C.rd /\ b = cur THEN NoPair ELSE user_pipe[a][b]
  <2>1. CASE C.rd = -1
    <3>1. -1 \notin User
      BY UserAssumption
    <3> QED BY <1>2, <1>3, <2>1, <3>1
  <2>2. CASE C.rd # -1
    <3>1. user_pipe' = [user_pipe EXCEPT ![C.rd][cur] = NoPair]
      BY <1>2, <1>3, <2>2
    <3> QED BY <1>1, <1>5, <2>2, <3>1
  <2> QED BY <2>1, <2>2
<1> HIDE DEF F
<1>7. DOMAIN tab' = DOMAIN tab \ F /\ \A f \in DOMAIN tab' : tab'[f] = tab[f]
  <2>1. /\ DOMAIN Close(ForkTab, F) = DOMAIN ForkTab \ F
        /\ \A f \in DOMAIN ForkTab \ F : Close(ForkTab, F)[f] = ForkTab[f]
    BY CloseParts
  <2> QED BY <1>2, <1>3, <2>1
<1>8. Distinct
  BY DEF PlaceInv
<1>9. Closes(F)
  <2>1. ASSUME NEW f \in F PROVE \E n : Owns(n, f)
    <3>1. CASE f = temp[temp_id + 1][1] \/ f = temp[temp_id + 1][2]
      BY <1>1, <3>1, OwnsAll
    <3>2. CASE C.rd # -1 /\ f = user_pipe[C.rd][cur][1]
      BY <1>1, <3>2, OwnsAll
    <3> QED BY <1>4, <2>1, <3>1, <3>2
  <2>2. ASSUME NEW u \in User, NEW k \in DOMAIN cmds[u], NEW e \in {1, 2}
        PROVE  cmds[u][k].fd[e] \notin F
    BY <1>1, <1>4, <1>8, Separate
  <2>3. ASSUME NEW a \in User, NEW b \in User, user_pipe'[a][b] # NoPair
        PROVE  user_pipe'[a][b] = user_pipe[a][b] /\ user_pipe[a][b][1] \notin F
    <3>1. ~(a = C.rd /\ b = cur) /\ user_pipe'[a][b] = user_pipe[a][b] /\ user_pipe[a][b] # NoPair
      BY <1>6, <2>3
    <3>2. user_pipe[a][b][1] # temp[temp_id + 1][1] /\ user_pipe[a][b][1] # temp[temp_id + 1][2]
      BY <1>1, <1>8, <3>1, Separate
    <3>3. C.rd # -1 => user_pipe[a][b][1] # user_pipe[C.rd][cur][1]
      BY <1>1, <1>8, <3>1, Separate
    <3> QED BY <1>4, <3>1, <3>2, <3>3
  <2>4. ASSUME NEW a \in User, NEW b \in User, user_pipe'[a][b] # user_pipe[a][b]
        PROVE  user_pipe[a][b][1] \in F
    <3>1. a = C.rd /\ b = cur /\ C.rd # -1
      BY <1>6, <2>4, UserAssumption
    <3> QED BY <1>4, <3>1
  <2>5. ASSUME NEW f \in scratch PROVE f \notin F
    BY <1>1, <1>4, <1>8, <2>5, Separate
  <2> QED BY <1>7, <2>1, <2>2, <2>3, <2>4, <2>5 DEF Closes
<1>10. AllClosed'
  BY <1>1 DEF AllClosed
<1>11. Whole'
  <2> SUFFICES ASSUME NEW k \in DOMAIN my, k >= i + 1, my'[k].wr # -1
               PROVE  /\ temp_id' = 0
                      /\ \A j \in DOMAIN my' : /\ my'[j].type # "NUM_PIPE"
                                               /\ my'[j].fd[1] \in DOMAIN tab' /\ my'[j].fd[2] \in DOMAIN tab'
                      /\ \A m \in DOMAIN temp' : temp'[m][1] \in DOMAIN tab' /\ temp'[m][2] \in DOMAIN tab'
    BY <1>1 DEF Whole
  <2>1. k >= i /\ my[k].wr # -1
    BY <1>1 DEF Kept
  <2>2. /\ temp_id = 0
        /\ \A j \in DOMAIN my : /\ my[j].type # "NUM_PIPE"
                                /\ my[j].fd[1] \in DOMAIN tab /\ my[j].fd[2] \in DOMAIN tab
        /\ \A m \in DOMAIN temp : temp[m][1] \in DOMAIN tab /\ temp[m][2] \in DOMAIN tab
    BY <1>1, <2>1 DEF PlaceInv, Whole
  <2>3. \A f \in F : C.rd # -1 /\ f = user_pipe[C.rd][cur][1]
    BY <1>4, <2>2
  <2>4. \A j \in DOMAIN my : my[j].fd[1] \notin F /\ my[j].fd[2] \notin F
    BY <1>1, <1>8, <2>3, Separate
  <2>5. \A m \in DOMAIN temp : temp[m][1] \notin F /\ temp[m][2] \notin F
    BY <1>1, <1>8, <2>3, Separate
  <2>6. \A j \in DOMAIN my : my'[j].type = my[j].type /\ my'[j].fd = my[j].fd
    BY <1>1 DEF Kept
  <2> QED BY <1>1, <1>7, <2>2, <2>4, <2>5, <2>6
<1>12. (pc' = "read" => pc = "read") /\ UNCHANGED <<temp, scratch, lines, cur>>
  BY <1>1
<1> QED BY <1>1, <1>9, <1>10, <1>11, <1>12, PlaceCloses

(* While a user pipe is still to be made, all that is remembered is open.   *)
LEMMA WholeOpen ==
  ASSUME Typed, PlaceInv, pc = "stage", NEW k \in DOMAIN my, k >= i, my[k].wr # -1,
         NEW n, NEW f, Owns(n, f)
  PROVE  f \in DOMAIN tab
<1>1. cur \in User /\ my = cmds[cur]
  BY CurUser DEF Typed, my
<1>2. /\ \A j \in DOMAIN my : my[j].fd[1] \in DOMAIN tab /\ my[j].fd[2] \in DOMAIN tab
      /\ \A m \in DOMAIN temp : temp[m][1] \in DOMAIN tab /\ temp[m][2] \in DOMAIN tab
  BY DEF PlaceInv, Whole
<1>3. CASE \E u \in User : \E j \in DOMAIN cmds[u] : \E e \in {1, 2} :
             n = <<"cmd", u, j, e>> /\ f = cmds[u][j].fd[e]
  <2>1. PICK u \in User : \E j \in DOMAIN cmds[u] : \E e \in {1, 2} : f = cmds[u][j].fd[e]
    BY <1>3
  <2>2. PICK j \in DOMAIN cmds[u], e \in {1, 2} : f = cmds[u][j].fd[e]
    BY <2>1
  <2>3. CASE u = cur
    BY <1>1, <1>2, <2>2, <2>3
  <2>4. CASE u # cur
    <3>1. OpenIn(tab, cmds[u][j].fd)
      BY <2>2, <2>4 DEF PlaceInv, OthersWait, OpenCmds
    <3> QED BY <2>2, <3>1 DEF OpenIn
  <2> QED BY <2>3, <2>4
<1>4. CASE \E a, b \in User : user_pipe[a][b] # NoPair /\ n = <<"pipe", a, b, 1>> /\ f = user_pipe[a][b][1]
  BY <1>4 DEF PlaceInv, OpenPipes, ReadIn
<1>5. CASE \E m \in DOMAIN temp : \E e \in {1, 2} : n = <<"temp", m, 0, e>> /\ f = temp[m][e]
  BY <1>2, <1>5
<1>6. CASE f \in scratch
  BY <1>6 DEF PlaceInv
<1> QED BY <1>3, <1>4, <1>5, <1>6 DEF Owns

(* A pipe that is free has no end in the table.                             *)
LEMMA FreeUnheld ==
  ASSUME NEW q \in FreePipes
  PROVE  /\ \A f \in DOMAIN tab : \A x : tab[f] # <<q, x>>
         /\ \A p \in procs : \A x : <<q, x>> \notin p.held
<1>1. \A e \in Held : e[1] # q
  BY DEF FreePipes
<1>2. \A x : <<q, x>> \notin Held
  <2> SUFFICES ASSUME NEW x, <<q, x>> \in Held PROVE FALSE
    OBVIOUS
  <2>1. <<q, x>>[1] = q
    OBVIOUS
  <2> QED BY <1>1, <2>1
<1>3. \A f \in DOMAIN tab : tab[f] \in Held
  BY DEF Held, Range
<1>4. \A p \in procs : p.held \subseteq Held
  BY DEF Held
<1> QED BY <1>2, <1>3, <1>4

(* The stage makes a user pipe: its read end is kept, on a new number.      *)
LEMMA PlaceWrites ==
  ASSUME Typed, PlaceInv, StageForks, C.wr # -1
  PROVE  PlaceInv'
<1>1. /\ pc = "stage" /\ pc' = "stage" /\ cur' = cur /\ cur \in User /\ i' = i + 1 /\ i \in 1..Len(my)
      /\ UNCHANGED <<temp, temp_id, scratch, lines>> /\ SameCmds /\ Unread'
      /\ DOMAIN my = 1..Len(my) /\ DOMAIN my' = DOMAIN my /\ Len(my) \in Nat /\ my = cmds[cur]
      /\ \A k \in DOMAIN my : Kept(my'[k], my[k])
      /\ (C.rd # -1 => C.rd \in User /\ user_pipe[C.rd][cur] # NoPair)
      /\ C.wr \in User /\ user_pipe[cur][C.wr] = NoPair /\ C = my[i]
  BY ForkCmds
<1>2. /\ tab' = Close(ForkTab, ParentCloses(ForkUp))
      /\ user_pipe' = IF C.rd = -1 THEN ForkUp ELSE [ForkUp EXCEPT ![C.rd][cur] = NoPair]
  BY StageForksNames
<1>3. /\ temp_id = 0
      /\ \A j \in DOMAIN my : /\ my[j].type # "NUM_PIPE"
                              /\ my[j].fd[1] \in DOMAIN tab /\ my[j].fd[2] \in DOMAIN tab
      /\ \A m \in DOMAIN temp : temp[m][1] \in DOMAIN tab /\ temp[m][2] \in DOMAIN tab
  BY <1>1 DEF PlaceInv, Whole
<1>4. ASSUME NEW n, NEW f, Owns(n, f) PROVE f \in DOMAIN tab
  <2>1. i \in DOMAIN my /\ i >= i /\ my[i].wr # -1
    BY <1>1
  <2> QED BY <1>1, <1>4, <2>1, WholeOpen
<1>5. \A f \in DOMAIN tab : f \in DOMAIN ForkTab /\ ForkTab[f] = tab[f]
  BY StageForksNames, ForkTabParts
<1>6. PICK a \in FreeFd, b \in FreeFd, q \in FreePipes :
        /\ a # b /\ DOMAIN ForkTab = DOMAIN tab \cup {a, b}
        /\ ForkTab[a] = <<q, "r">> /\ ForkTab[b] = <<q, "w">>
        /\ ForkUp = [user_pipe EXCEPT ![cur][C.wr] = <<a, b>>]
  BY StageForksNames, ForkTabParts
<1>7. a \notin DOMAIN tab /\ b \notin DOMAIN tab
  BY DEF FreeFd
<1>8. user_pipe \in [User -> [User -> Pair]]
  BY DEF Typed, TypeInv
<1>9. ~(C.rd = cur /\ cur = C.wr)
  BY <1>1, UserAssumption
<1>10. \A c, d \in User : user_pipe'[c][d] = IF c = C.rd /\ d = cur THEN NoPair
                                          ELSE IF c = cur /\ d = C.wr THEN <<a, b>> ELSE user_pipe[c][d]
  <2>1. \A c, d \in User : ForkUp[c][d] = IF c = cur /\ d = C.wr THEN <<a, b>> ELSE user_pipe[c][d]
    BY <1>1, <1>6, <1>8
  <2>2. ForkUp \in [User -> [User -> {<<a, b>>} \cup Pair]]
    BY <1>1, <1>6, <1>8
  <2>3. CASE C.rd = -1
    <3>1. -1 \notin User
      BY UserAssumption
    <3> QED BY <1>2, <2>1, <2>3, <3>1
  <2>4. CASE C.rd # -1
    <3>1. user_pipe' = [ForkUp EXCEPT ![C.rd][cur] = NoPair]
      BY <1>2, <2>4
    <3>2. \A c, d \in User : user_pipe'[c][d] = IF c = C.rd /\ d = cur THEN NoPair ELSE ForkUp[c][d]
      BY <1>1, <2>2, <2>4, <3>1
    <3> QED BY <2>1, <3>2
  <2> QED BY <2>3, <2>4
<1> DEFINE G == {f \in DOMAIN tab : C.rd # -1 /\ f = user_pipe[C.rd][cur][1]}
<1>11. \A f : f \in ParentCloses(ForkUp) <=> f = b \/ (C.rd # -1 /\ f = user_pipe[C.rd][cur][1])
  <2>1. ForkUp[cur][C.wr] = <<a, b>> /\ ForkUp[cur][C.wr][2] = b
    BY <1>1, <1>6, <1>8
  <2>2. C.rd # -1 => ForkUp[C.rd][cur] = user_pipe[C.rd][cur]
    BY <1>1, <1>6, <1>8, <1>9
  <2> QED BY <1>1, <1>3, <2>1, <2>2 DEF ParentCloses
<1>12. /\ DOMAIN tab' = (DOMAIN tab \cup {a}) \ G
       /\ \A f \in DOMAIN tab \ G : tab'[f] = tab[f]
       /\ tab'[a] = <<q, "r">>
  <2>1. /\ DOMAIN tab' = DOMAIN ForkTab \ ParentCloses(ForkUp)
        /\ \A f \in DOMAIN ForkTab \ ParentCloses(ForkUp) : tab'[f] = ForkTab[f]
    BY <1>2, CloseParts
  <2>2. C.rd # -1 => user_pipe[C.rd][cur][1] \in DOMAIN tab
    BY <1>1, <1>4, OwnsAll
  <2>3. DOMAIN tab' = (DOMAIN tab \cup {a}) \ G
    <3>1. ASSUME NEW f PROVE f \in DOMAIN tab' <=> f \in (DOMAIN tab \cup {a}) \ G
      <4>1. f \in DOMAIN tab' <=> (f \in DOMAIN tab \/ f = a \/ f = b) /\ f \notin ParentCloses(ForkUp)
        BY <1>6, <2>1
      <4>2. f \in G <=> f \in DOMAIN tab /\ C.rd # -1 /\ f = user_pipe[C.rd][cur][1]
        OBVIOUS
      <4>3. f \in ParentCloses(ForkUp) <=> f = b \/ (C.rd # -1 /\ f = user_pipe[C.rd][cur][1])
        BY <1>11
      <4> HIDE DEF G
      <4> QED BY <1>6, <1>7, <2>2, <4>1, <4>2, <4>3
    <3> HIDE DEF G
    <3> QED BY <3>1
  <2>4. \A f \in DOMAIN tab \ G : f \in DOMAIN ForkTab /\ f \notin ParentCloses(ForkUp)
    BY <1>5, <1>7, <1>11
  <2>5. a \in DOMAIN ForkTab /\ a \notin ParentCloses(ForkUp)
    BY <1>6, <1>7, <1>11, <2>2
  <2> QED BY <1>5, <1>6, <2>1, <2>3, <2>4, <2>5
<1>13. /\ \A f \in G : C.rd # -1 /\ f = user_pipe[C.rd][cur][1] /\ f \in DOMAIN tab
       /\ \A c, d \in User : user_pipe'[c][d] # user_pipe[c][d] /\ user_pipe[c][d] # NoPair
            => user_pipe[c][d][1] \in G
  <2>1. ASSUME NEW c \in User, NEW d \in User, user_pipe'[c][d] # user_pipe[c][d], user_pipe[c][d] # NoPair
        PROVE  user_pipe[c][d][1] \in G
    <3>1. c = C.rd /\ d = cur
      BY <1>1, <1>10, <2>1
    <3>2. C.rd # -1
      BY <3>1, UserAssumption
    <3>3. user_pipe[c][d][1] \in DOMAIN tab
      BY <1>4, <2>1, OwnsAll
    <3> QED BY <3>1, <3>2, <3>3
  <2> QED BY <2>1
<1> HIDE DEF G
<1>14. ASSUME NEW n, NEW f, Owns(n, f)' PROVE Owns(n, f) \/ (n = <<"pipe", cur, C.wr, 1>> /\ f = a)
  <2>1. CASE \E u \in User : \E k \in DOMAIN cmds'[u] : \E e \in {1, 2} :
               n = <<"cmd", u, k, e>> /\ f = cmds'[u][k].fd[e]
    <3>1. PICK u \in User : \E k \in DOMAIN cmds'[u] : \E e \in {1, 2} :
                 n = <<"cmd", u, k, e>> /\ f = cmds'[u][k].fd[e]
      BY <2>1
    <3>2. PICK k \in DOMAIN cmds'[u], e \in {1, 2} : n = <<"cmd", u, k, e>> /\ f = cmds'[u][k].fd[e]
      BY <3>1
    <3>3. k \in DOMAIN cmds[u] /\ cmds'[u][k].fd = cmds[u][k].fd
      BY <1>1 DEF SameCmds, Kept
    <3> QED BY <3>2, <3>3 DEF Owns
  <2>2. CASE \E c, d \in User : user_pipe'[c][d] # NoPair /\ n = <<"pipe", c, d, 1>> /\ f = user_pipe'[c][d][1]
    <3>1. PICK c \in User, d \in User :
                 user_pipe'[c][d] # NoPair /\ n = <<"pipe", c, d, 1>> /\ f = user_pipe'[c][d][1]
      BY <2>2
    <3>2. CASE c = cur /\ d = C.wr
      <4>1. user_pipe'[c][d] = <<a, b>>
        BY <1>10, <3>1, <3>2
      <4> QED BY <3>1, <3>2, <4>1
    <3>3. CASE ~(c = cur /\ d = C.wr)
      <4>1. user_pipe'[c][d] = user_pipe[c][d]
        BY <1>10, <3>1, <3>3
      <4> QED BY <3>1, <4>1 DEF Owns
    <3> QED BY <3>2, <3>3
  <2>3. CASE \E m \in DOMAIN temp : \E e \in {1, 2} : n = <<"temp", m, 0, e>> /\ f = temp[m][e]
    BY <2>3 DEF Owns
  <2>4. CASE f \in scratch /\ n = <<"scratch", f, 0, 0>>
    BY <2>4 DEF Owns
  <2> QED BY <1>1, <1>14, <2>1, <2>2, <2>3, <2>4 DEF Owns
<1>15. ASSUME NEW n, NEW f, Owns(n, f), f \notin G PROVE Owns(n, f)'
  <2>1. CASE \E u \in User : \E k \in DOMAIN cmds[u] : \E e \in {1, 2} :
               n = <<"cmd", u, k, e>> /\ f = cmds[u][k].fd[e]
    <3>1. PICK u \in User : \E k \in DOMAIN cmds[u] : \E e \in {1, 2} :
                 n = <<"cmd", u, k, e>> /\ f = cmds[u][k].fd[e]
      BY <2>1
    <3>2. PICK k \in DOMAIN cmds[u], e \in {1, 2} : n = <<"cmd", u, k, e>> /\ f = cmds[u][k].fd[e]
      BY <3>1
    <3>3. k \in DOMAIN cmds'[u] /\ cmds'[u][k].fd = cmds[u][k].fd
      BY <1>1 DEF SameCmds, Kept
    <3> QED BY <3>2, <3>3 DEF Owns
  <2>2. CASE \E c, d \in User : user_pipe[c][d] # NoPair /\ n = <<"pipe", c, d, 1>> /\ f = user_pipe[c][d][1]
    <3>1. PICK c \in User, d \in User :
                 user_pipe[c][d] # NoPair /\ n = <<"pipe", c, d, 1>> /\ f = user_pipe[c][d][1]
      BY <2>2
    <3>2. user_pipe'[c][d] = user_pipe[c][d]
      BY <1>13, <1>15, <3>1
    <3> QED BY <3>1, <3>2 DEF Owns
  <2>3. CASE \E m \in DOMAIN temp : \E e \in {1, 2} : n = <<"temp", m, 0, e>> /\ f = temp[m][e]
    BY <1>1, <2>3 DEF Owns
  <2>4. CASE f \in scratch /\ n = <<"scratch", f, 0, 0>>
    BY <1>1, <2>4 DEF Owns
  <2> QED BY <1>15, <2>1, <2>2, <2>3, <2>4 DEF Owns
<1>16. Distinct /\ OneEach
  BY DEF PlaceInv
<1>17. Distinct'
  <2> SUFFICES ASSUME NEW m, NEW n, NEW f, Owns(m, f)', Owns(n, f)' PROVE m = n
    BY DEF Distinct
  <2>1. CASE f = a
    BY <1>4, <1>7, <1>14, <2>1
  <2>2. CASE f # a
    BY <1>14, <1>16, <2>2 DEF Distinct
  <2> QED BY <2>1, <2>2
<1>18. OneEach'
  <2> SUFFICES ASSUME NEW f \in DOMAIN tab', NEW g \in DOMAIN tab', tab'[f] = tab'[g], tab'[f] # Other
               PROVE  f = g
    BY DEF OneEach
  <2>1. \A h \in DOMAIN tab' : h # a => h \in DOMAIN tab /\ tab'[h] = tab[h] /\ tab'[h] # <<q, "r">>
    BY <1>12, FreeUnheld
  <2> QED BY <1>12, <1>16, <2>1 DEF OneEach
<1>19. \A u \in User : \A k \in DOMAIN cmds[u] : cmds[u][k].fd[1] \notin G /\ cmds[u][k].fd[2] \notin G
  BY <1>1, <1>13, <1>16, Separate
<1>20. \A m \in DOMAIN temp : temp[m][1] \notin G /\ temp[m][2] \notin G
  BY <1>1, <1>13, <1>16, Separate
<1>21. \A f \in scratch : f \notin G
  BY <1>1, <1>13, <1>16, Separate
<1>22. OpenCmds'
  <2> SUFFICES ASSUME NEW u \in User, NEW k \in DOMAIN cmds'[u], ~cmds'[u][k].piped
               PROVE  OpenIn(tab', cmds'[u][k].fd)
    BY DEF OpenCmds
  <2>1. k \in DOMAIN cmds[u] /\ cmds'[u][k].fd = cmds[u][k].fd /\ ~cmds[u][k].piped
    BY <1>1 DEF SameCmds, Kept
  <2>2. OpenIn(tab, cmds[u][k].fd)
    BY <2>1 DEF PlaceInv, OpenCmds
  <2> QED BY <1>12, <1>19, <2>1, <2>2 DEF OpenIn
<1>23. OpenPipes'
  <2> SUFFICES ASSUME NEW c \in User, NEW d \in User, user_pipe'[c][d] # NoPair
               PROVE  ReadIn(tab', user_pipe'[c][d][1])
    BY DEF OpenPipes
  <2>0. q \in Pipes
    BY DEF FreePipes
  <2>1. CASE c = cur /\ d = C.wr
    <3>1. user_pipe'[c][d] = <<a, b>>
      BY <1>10, <2>1
    <3>2. a \in DOMAIN tab'
      <4>1. a \notin G
        BY <1>7, <1>13
      <4> QED BY <1>12, <4>1
    <3> QED BY <1>12, <2>0, <3>1, <3>2 DEF ReadIn
  <2>2. CASE ~(c = cur /\ d = C.wr)
    <3>1. user_pipe'[c][d] = user_pipe[c][d] /\ ~(c = C.rd /\ d = cur)
      BY <1>10, <2>2
    <3>2. user_pipe[c][d][1] \notin G
      BY <1>1, <1>13, <1>16, <3>1, Separate
    <3>3. ReadIn(tab, user_pipe[c][d][1])
      BY <3>1 DEF PlaceInv, OpenPipes
    <3> QED BY <1>12, <3>1, <3>2, <3>3 DEF ReadIn
  <2> QED BY <2>1, <2>2
<1>24. OthersWait'
  BY <1>1 DEF PlaceInv, OthersWait, SameCmds
<1>25. Whole'
  <2>1. \A j \in DOMAIN my : my'[j].type = my[j].type /\ my'[j].fd = my[j].fd
    BY <1>1 DEF Kept
  <2>2. \A j \in DOMAIN my : my[j].fd[1] \in DOMAIN tab' /\ my[j].fd[2] \in DOMAIN tab'
    BY <1>1, <1>3, <1>12, <1>19
  <2>3. \A m \in DOMAIN temp : temp[m][1] \in DOMAIN tab' /\ temp[m][2] \in DOMAIN tab'
    BY <1>3, <1>12, <1>20
  <2> QED BY <1>1, <1>3, <2>1, <2>2, <2>3 DEF Whole
<1>26. AllClosed' /\ (scratch \subseteq DOMAIN tab)' /\ (pc = "read" => temp = << >> /\ scratch = {})'
  <2>1. scratch \subseteq DOMAIN tab
    BY DEF PlaceInv
  <2> QED BY <1>1, <1>12, <1>21, <2>1 DEF AllClosed
<1>27. Loose' = Loose
  <2>1. \E n : Owns(n, a)'
    <3>1. user_pipe'[cur][C.wr] = <<a, b>>
      BY <1>1, <1>9, <1>10
    <3>2. <<a, b>> # NoPair
      <4>1. a \in Nat
        BY FreeParts
      <4> QED BY <4>1 DEF NoPair
    <3>3. user_pipe'[cur][C.wr] # NoPair /\ a = user_pipe'[cur][C.wr][1]
      BY <3>1, <3>2
    <3>4. PICK c \in User, d \in User : c = cur /\ d = C.wr
      BY <1>1
    <3>5. Owns(<<"pipe", c, d, 1>>, a)'
      BY <3>3, <3>4 DEF Owns
    <3> QED BY <3>5
  <2>2. \A f \in DOMAIN tab' : f \in DOMAIN tab \/ \E n : Owns(n, f)'
    BY <1>12, <2>1
  <2>3. \A f \in G : \E n : Owns(n, f)
    BY <1>1, <1>13, OwnsAll, ZenonT(60)
  <2>4. \A f \in DOMAIN tab : f \in DOMAIN tab' \/ \E n : Owns(n, f)
    BY <1>12, <2>3
  <2>5. \A f \in DOMAIN tab : f \in DOMAIN tab' => f \notin G /\ f # a
    BY <1>7, <1>12
  <2>6. \A f \in DOMAIN tab : f \in DOMAIN tab' => ((\E n : Owns(n, f)) <=> (\E n : Owns(n, f)'))
    BY <1>14, <1>15, <2>5
  <2> QED BY <2>2, <2>4, <2>6, LooseKept
<1>28. (Cardinality(Loose) = Cardinality(Base) + lines)'
  BY <1>1, <1>27 DEF PlaceInv, Base
<1> QED BY <1>1, <1>17, <1>18, <1>22, <1>23, <1>24, <1>25, <1>26, <1>28 DEF PlaceInv

(* What is kept after the line are its number pipes that still wait.        *)
LEMMA PlaceReap ==
  ASSUME Typed, PlaceInv, Reap
  PROVE  PlaceInv'
<1> DEFINE g == InOrder(Remaining)
           N == Cardinality(Remaining)
<1>1. /\ pc = "wait" /\ tab' = Close(tab, scratch) /\ pc' = "read" /\ cur' = None
      /\ temp' = << >> /\ scratch' = {} /\ user_pipe' = user_pipe /\ lines' = lines
  BY ReapNames DEF ghost
<1>2. PICK v \in User : v = cur
  BY ReapParts
<1>3. /\ my = cmds[v] /\ DOMAIN my = 1..Len(my) /\ Len(my) \in Nat
      /\ \A u \in User : u # v => cmds'[u] = cmds[u]
      /\ Remaining \in SUBSET Nat /\ IsFiniteSet(Remaining) /\ Remaining = {k \in 1..Len(my) : ~my[k].piped}
      /\ DOMAIN cmds'[v] = 1..N /\ N \in Nat
      /\ \A n \in 1..N : /\ g[n] \in DOMAIN my /\ ~my[g[n]].piped
                         /\ cmds'[v][n].fd = my[g[n]].fd /\ ~cmds'[v][n].piped
  <2>1. my \in Seq(Cmd) /\ my = cmds[v]
    BY <1>2, ReapParts DEF my
  <2>2. DOMAIN my = 1..Len(my) /\ Len(my) \in Nat
    BY <2>1, LenProperties
  <2>3. IsFiniteSet(1..Len(my)) /\ 1..Len(my) \subseteq Nat
    BY <2>2, FS_Interval
  <2>4. Remaining \in SUBSET Nat /\ IsFiniteSet(Remaining) /\ Remaining = {k \in 1..Len(my) : ~my[k].piped}
    BY <2>3, ReapParts, FS_Subset
  <2>5. ASSUME NEW n \in 1..N
        PROVE  /\ g[n] \in DOMAIN my /\ ~my[g[n]].piped
               /\ cmds'[v][n].fd = my[g[n]].fd /\ ~cmds'[v][n].piped
    BY <1>2, <2>2, ReapParts DEF Kept
  <2>6. DOMAIN cmds'[v] = 1..N /\ N \in Nat /\ \A u \in User : u # v => cmds'[u] = cmds[u]
    BY <1>2, ReapParts
  <2> HIDE DEF g, N
  <2> QED BY <2>1, <2>2, <2>4, <2>5, <2>6
<1>4. /\ \A m, n \in 1..N : g[m] = g[n] => m = n
      /\ \A k \in Remaining : \E n \in 1..N : g[n] = k
  <2>1. /\ g \in [1..N -> Remaining] /\ \A m, n \in 1..N : m < n => g[m] < g[n]
        /\ \A k \in Remaining : \E n \in 1..N : g[n] = k
    BY <1>3, InOrderLists
  <2> HIDE DEF g, N
  <2>2. \A n \in 1..N : g[n] \in Nat
    BY <1>3, <2>1
  <2>3. \A m, n \in 1..N : m < n \/ n < m \/ m = n
    BY <1>3
  <2>4. ASSUME NEW m \in 1..N, NEW n \in 1..N, g[m] = g[n] PROVE m = n
    BY <2>1, <2>2, <2>3, <2>4
  <2> QED BY <2>1, <2>4
<1> HIDE DEF g, N
<1>5. /\ Distinct /\ OneEach /\ OpenCmds /\ OpenPipes /\ scratch \subseteq DOMAIN tab
      /\ \A k \in DOMAIN my : my[k].piped => my[k].fd[1] \notin DOMAIN tab /\ my[k].fd[2] \notin DOMAIN tab
      /\ \A m \in DOMAIN temp : temp[m][1] \notin DOMAIN tab /\ temp[m][2] \notin DOMAIN tab
  BY <1>1 DEF PlaceInv, AllClosed
<1>6. DOMAIN tab' = DOMAIN tab \ scratch /\ \A f \in DOMAIN tab' : tab'[f] = tab[f]
  <2>1. /\ DOMAIN Close(tab, scratch) = DOMAIN tab \ scratch
        /\ \A f \in DOMAIN tab \ scratch : Close(tab, scratch)[f] = tab[f]
    BY CloseParts
  <2> QED BY <1>1, <2>1
<1>7. ASSUME NEW n, NEW f, Owns(n, f)'
      PROVE  \E o : /\ Owns(o, f)
                    /\ \/ o = n /\ (n[1] # "cmd" \/ n[2] # v)
                       \/ \E k \in 1..N : \E e \in {1, 2} : n = <<"cmd", v, k, e>> /\ o = <<"cmd", v, g[k], e>>
  <2>1. CASE \E u \in User : \E k \in DOMAIN cmds'[u] : \E e \in {1, 2} :
               n = <<"cmd", u, k, e>> /\ f = cmds'[u][k].fd[e]
    <3>1. PICK u \in User : \E k \in DOMAIN cmds'[u] : \E e \in {1, 2} :
                 n = <<"cmd", u, k, e>> /\ f = cmds'[u][k].fd[e]
      BY <2>1
    <3>2. PICK k \in DOMAIN cmds'[u], e \in {1, 2} : n = <<"cmd", u, k, e>> /\ f = cmds'[u][k].fd[e]
      BY <3>1
    <3>3. CASE u = v
      <4>1. k \in 1..N /\ f = cmds[v][g[k]].fd[e] /\ g[k] \in DOMAIN cmds[v]
        BY <1>3, <3>2, <3>3
      <4>2. Owns(<<"cmd", v, g[k], e>>, f)
        BY <4>1 DEF Owns
      <4> QED BY <3>2, <3>3, <4>1, <4>2
    <3>4. CASE u # v
      <4>1. Owns(<<"cmd", u, k, e>>, f)
        BY <1>3, <3>2, <3>4 DEF Owns
      <4>2. n[2] = u
        BY <3>2
      <4> QED BY <3>2, <3>4, <4>1, <4>2
    <3> QED BY <3>3, <3>4
  <2>2. CASE \E a, b \in User : user_pipe[a][b] # NoPair /\ n = <<"pipe", a, b, 1>> /\ f = user_pipe[a][b][1]
    <3>1. Owns(n, f)
      BY <2>2 DEF Owns
    <3>2. n[1] = "pipe"
      BY <2>2
    <3> QED BY <3>1, <3>2
  <2>3. DOMAIN temp' = {} /\ scratch' = {}
    BY <1>1
  <2> QED BY <1>1, <1>7, <2>1, <2>2, <2>3 DEF Owns
<1>8. ASSUME NEW n, NEW f \in DOMAIN tab, Owns(n, f), f \notin scratch PROVE \E o : Owns(o, f)'
  <2>1. CASE \E u \in User : \E k \in DOMAIN cmds[u] : \E e \in {1, 2} :
               n = <<"cmd", u, k, e>> /\ f = cmds[u][k].fd[e]
    <3>1. PICK u \in User : \E k \in DOMAIN cmds[u] : \E e \in {1, 2} : f = cmds[u][k].fd[e]
      BY <2>1
    <3>2. PICK k \in DOMAIN cmds[u], e \in {1, 2} : f = cmds[u][k].fd[e]
      BY <3>1
    <3>3. CASE u = v
      <4>1. k \in DOMAIN my /\ ~my[k].piped
        BY <1>3, <1>5, <3>2, <3>3
      <4>2. k \in Remaining
        BY <1>3, <4>1
      <4>3. PICK m \in 1..N : g[m] = k
        BY <1>4, <4>2
      <4>4. m \in DOMAIN cmds'[v] /\ f = cmds'[v][m].fd[e]
        BY <1>3, <3>2, <3>3, <4>3
      <4>5. Owns(<<"cmd", v, m, e>>, f)'
        BY <4>4 DEF Owns
      <4> QED BY <4>5
    <3>4. CASE u # v
      <4>1. Owns(<<"cmd", u, k, e>>, f)'
        BY <1>3, <3>2, <3>4 DEF Owns
      <4> QED BY <4>1
    <3> QED BY <3>3, <3>4
  <2>2. CASE \E a, b \in User : user_pipe[a][b] # NoPair /\ n = <<"pipe", a, b, 1>> /\ f = user_pipe[a][b][1]
    <3>1. Owns(n, f)'
      BY <1>1, <2>2 DEF Owns
    <3> QED BY <3>1
  <2>3. CASE \E m \in DOMAIN temp : \E e \in {1, 2} : n = <<"temp", m, 0, e>> /\ f = temp[m][e]
    BY <1>5, <2>3
  <2> QED BY <1>8, <2>1, <2>2, <2>3 DEF Owns
<1>9. Distinct'
  <2> SUFFICES ASSUME NEW m, NEW n, NEW f, Owns(m, f)', Owns(n, f)' PROVE m = n
    BY DEF Distinct
  <2>1. PICK o : /\ Owns(o, f)
                 /\ \/ o = n /\ (n[1] # "cmd" \/ n[2] # v)
                    \/ \E k \in 1..N : \E e \in {1, 2} : n = <<"cmd", v, k, e>> /\ o = <<"cmd", v, g[k], e>>
    BY <1>7
  <2>2. PICK x : /\ Owns(x, f)
                 /\ \/ x = m /\ (m[1] # "cmd" \/ m[2] # v)
                    \/ \E k \in 1..N : \E e \in {1, 2} : m = <<"cmd", v, k, e>> /\ x = <<"cmd", v, g[k], e>>
    BY <1>7
  <2>3. o = x
    BY <1>5, <2>1, <2>2 DEF Distinct
  <2>4. ASSUME NEW k \in 1..N, NEW e \in {1, 2}, n = <<"cmd", v, k, e>>, o = <<"cmd", v, g[k], e>> PROVE m = n
    <3>1. o[1] = "cmd" /\ o[2] = v
      BY <2>4
    <3>2. PICK j \in 1..N, d \in {1, 2} : m = <<"cmd", v, j, d>> /\ x = <<"cmd", v, g[j], d>>
      BY <2>2, <2>3, <3>1
    <3>3. <<"cmd", v, g[k], e>> = <<"cmd", v, g[j], d>>
      <4>1. o = <<"cmd", v, g[k], e>> /\ x = <<"cmd", v, g[j], d>>
        BY <2>4, <3>2
      <4> QED BY <2>3, <4>1, Zenon
    <3>4. g[k] = g[j] /\ e = d
      BY <3>3
    <3>5. k = j
      BY <1>4, <3>4
    <3> QED BY <2>4, <3>2, <3>4, <3>5
  <2>5. ASSUME o = n, n[1] # "cmd" \/ n[2] # v PROVE m = n
    <3>1. ASSUME NEW k \in 1..N, NEW e \in {1, 2}, x = <<"cmd", v, g[k], e>> PROVE FALSE
      <4>1. n = <<"cmd", v, g[k], e>>
        BY <2>3, <2>5, <3>1, Zenon
      <4>2. n[1] = "cmd" /\ n[2] = v
        BY <4>1
      <4> QED BY <2>5, <4>2
    <3> QED BY <2>2, <2>3, <2>5, <3>1
  <2> QED BY <2>1, <2>4, <2>5
<1>10. OneEach'
  BY <1>5, <1>6 DEF OneEach
<1>11. OpenCmds'
  <2> SUFFICES ASSUME NEW u \in User, NEW k \in DOMAIN cmds'[u], ~cmds'[u][k].piped
               PROVE  OpenIn(tab', cmds'[u][k].fd)
    BY DEF OpenCmds
  <2>1. PICK j \in DOMAIN cmds[u] : cmds'[u][k].fd = cmds[u][j].fd /\ ~cmds[u][j].piped
    BY <1>3
  <2>2. OpenIn(tab, cmds[u][j].fd)
    BY <1>5, <2>1 DEF OpenCmds
  <2>3. cmds[u][j].fd[1] \notin scratch /\ cmds[u][j].fd[2] \notin scratch
    BY <1>5, Separate
  <2> QED BY <1>6, <2>1, <2>2, <2>3 DEF OpenIn
<1>12. OpenPipes'
  <2> SUFFICES ASSUME NEW a \in User, NEW b \in User, user_pipe'[a][b] # NoPair
               PROVE  ReadIn(tab', user_pipe'[a][b][1])
    BY DEF OpenPipes
  <2>1. ReadIn(tab, user_pipe[a][b][1]) /\ user_pipe[a][b][1] \notin scratch
    BY <1>1, <1>5, Separate DEF OpenPipes
  <2> QED BY <1>1, <1>6, <2>1 DEF ReadIn
<1>13. OthersWait'
  <2>1. \A u \in User : \A k \in DOMAIN cmds'[u] : ~cmds'[u][k].piped
    BY <1>2, <1>3 DEF PlaceInv, OthersWait
  <2> QED BY <2>1 DEF OthersWait
<1>14. AllClosed' /\ Whole' /\ Unread'
  BY <1>1 DEF AllClosed, Whole, Unread
<1>15. Loose' = Loose
  <2>1. \A f \in scratch : \E n : Owns(n, f)
    BY OwnsAll
  <2>2. \A f \in DOMAIN tab' : f \in DOMAIN tab /\ f \notin scratch
    BY <1>6
  <2>3. \A f \in DOMAIN tab : f \in DOMAIN tab' \/ \E n : Owns(n, f)
    BY <1>6, <2>1
  <2>4. \A f \in DOMAIN tab : f \in DOMAIN tab' => ((\E n : Owns(n, f)) <=> (\E n : Owns(n, f)'))
    BY <1>7, <1>8, <2>2
  <2> QED BY <2>2, <2>3, <2>4, LooseKept
<1>16. (Cardinality(Loose) = Cardinality(Base) + lines)'
  BY <1>1, <1>15 DEF PlaceInv, Base
<1>17. (scratch \subseteq DOMAIN tab)' /\ (pc = "read" => temp = << >> /\ scratch = {})'
  BY <1>1
<1> QED BY <1>9, <1>10, <1>11, <1>12, <1>13, <1>14, <1>16, <1>17 DEF PlaceInv

(* The table a line begins with.                                            *)
LEMMA StartTab ==
  ASSUME NEW u, NEW l, GoodLine(l), Start(u, l), NEW n, n = TempPipes + Len(split_by_pipe(l)),
         NEW P, P = NewPairs(l), NEW F, F = NewFds(l), NEW id, id = LowSeq(FreePipes, n)
  PROVE  /\ \A f : f \in DOMAIN tab' <=> \/ f \in DOMAIN tab \/ \E a \in 1..3 : f = F[a]
                                         \/ \E m \in 1..n : \E e \in {1, 2} : f = P[m][e]
         /\ \A f \in DOMAIN tab : tab'[f] = tab[f]
         /\ \A a \in 1..3 : tab'[F[a]] = Other
         /\ \A m \in 1..n : /\ id[m] \in FreePipes
                            /\ tab'[P[m][1]] = <<id[m], "r">> /\ tab'[P[m][2]] = <<id[m], "w">>
         /\ \A m, k \in 1..n : id[m] = id[k] => m = k
<1> DEFINE D  == {F[1], F[2], F[3]}
           t0 == [f \in D |-> Other]
           t1 == Merge(tab, t0)
           s  == EndsOf(P)
<1>1. Room(NeedsFds(l), TempPipes + Len(split_by_pipe(l))) /\ tab' = Merge(t1, s)
  BY StartNames
<1>2. /\ n \in Nat
      /\ \A a \in 1..3 : F[a] \in FreeFd
      /\ P \in Seq(FreeFd \X FreeFd) /\ Len(P) = n /\ DOMAIN P = 1..n /\ Apart(P)
      /\ \A m \in 1..n : \A e \in {1, 2} : P[m][e] \in FreeFd
      /\ \A a \in 1..3 : \A m \in 1..n : \A e \in {1, 2} : P[m][e] # F[a]
  BY <1>1, NewParts, ZenonT(60)
<1>3. P \in Seq((0..MaxFd) \X (0..MaxFd)) /\ Cardinality(FreePipes) >= Len(P)
  <2>1. FreeFd \X FreeFd \subseteq (0..MaxFd) \X (0..MaxFd)
    BY FreeParts
  <2>2. P \in Seq((0..MaxFd) \X (0..MaxFd))
    BY <1>2, <2>1
  <2> QED BY <1>1, <1>2, <2>2 DEF Room
<1>4. /\ DOMAIN s = UNION {Both(P[m]) : m \in DOMAIN P}
      /\ \A m, k \in DOMAIN P : id[m] = id[k] => m = k
      /\ \A m \in DOMAIN P : /\ id[m] \in FreePipes
                             /\ s[P[m][1]] = <<id[m], "r">> /\ s[P[m][2]] = <<id[m], "w">>
  <2>1. id = LowSeq(FreePipes, Len(P))
    BY <1>2
  <2> HIDE DEF s
  <2>2. LET ids == LowSeq(FreePipes, Len(P))
        IN /\ DOMAIN EndsOf(P) = UNION {Both(P[m]) : m \in DOMAIN P}
           /\ \A m, k \in DOMAIN P : ids[m] = ids[k] => m = k
           /\ \A m \in DOMAIN P : /\ ids[m] \in FreePipes
                                  /\ EndsOf(P)[P[m][1]] = <<ids[m], "r">>
                                  /\ EndsOf(P)[P[m][2]] = <<ids[m], "w">>
    BY <1>2, <1>3, EndsOfParts
  <2> QED BY <2>1, <2>2, ZenonT(60) DEF s
<1>5. DOMAIN t0 = D /\ \A f \in D : t0[f] = Other
  OBVIOUS
<1> HIDE DEF s, t0
<1>6. /\ DOMAIN t1 = DOMAIN tab \cup D
      /\ \A f \in D : t1[f] = Other
      /\ \A f \in DOMAIN tab \ D : t1[f] = tab[f]
  <2> HIDE DEF D
  <2>1. /\ DOMAIN Merge(tab, t0) = DOMAIN tab \cup DOMAIN t0
        /\ \A f \in DOMAIN t0 : Merge(tab, t0)[f] = t0[f]
        /\ \A f \in DOMAIN tab \ DOMAIN t0 : Merge(tab, t0)[f] = tab[f]
    BY MergeParts
  <2>2. t1 = Merge(tab, t0)
    BY DEF t1
  <2> HIDE DEF t1
  <2> QED BY <1>5, <2>1, <2>2
<1> HIDE DEF t1
<1>7. /\ DOMAIN tab' = DOMAIN t1 \cup DOMAIN s
      /\ \A f \in DOMAIN s : tab'[f] = s[f]
      /\ \A f \in DOMAIN t1 \ DOMAIN s : tab'[f] = t1[f]
  <2>1. /\ DOMAIN Merge(t1, s) = DOMAIN t1 \cup DOMAIN s
        /\ \A f \in DOMAIN s : Merge(t1, s)[f] = s[f]
        /\ \A f \in DOMAIN t1 \ DOMAIN s : Merge(t1, s)[f] = t1[f]
    BY MergeParts
  <2> QED BY <1>1, <2>1
<1>8. \A f : f \in DOMAIN s <=> \E m \in 1..n : \E e \in {1, 2} : f = P[m][e]
  <2>1. ASSUME NEW f PROVE f \in DOMAIN s <=> \E m \in 1..n : f = P[m][1] \/ f = P[m][2]
    <3>1. f \in DOMAIN s <=> \E m \in DOMAIN P : f \in Both(P[m])
      BY <1>4
    <3>2. DOMAIN P = 1..n
      BY <1>2
    <3>3. \A m : f \in Both(P[m]) <=> f = P[m][1] \/ f = P[m][2]
      BY DEF Both
    <3> QED BY <3>1, <3>2, <3>3
  <2> QED BY <2>1
<1>9. \A f : f \in D <=> \E a \in 1..3 : f = F[a]
  <2>1. \A a : a \in 1..3 <=> a = 1 \/ a = 2 \/ a = 3
    OBVIOUS
  <2> QED BY <2>1
<1>10. \A f \in DOMAIN tab : f \notin DOMAIN s /\ f \notin D
  <2>1. \A f \in FreeFd : f \notin DOMAIN tab
    BY DEF FreeFd
  <2> HIDE DEF D
  <2> QED BY <1>2, <1>8, <1>9, <2>1
<1>11. \A f \in D : f \notin DOMAIN s
  <2> HIDE DEF D
  <2> QED BY <1>2, <1>8, <1>9
<1> HIDE DEF D
<1>12. \A f : f \in DOMAIN tab' <=> \/ f \in DOMAIN tab \/ \E a \in 1..3 : f = F[a]
                                    \/ \E m \in 1..n : \E e \in {1, 2} : f = P[m][e]
  BY <1>6, <1>7, <1>8, <1>9
<1>13. \A f \in DOMAIN tab : tab'[f] = tab[f]
  BY <1>6, <1>7, <1>10
<1>14. \A a \in 1..3 : tab'[F[a]] = Other
  BY <1>6, <1>7, <1>9, <1>11
<1>15. \A m \in 1..n : /\ id[m] \in FreePipes
                       /\ tab'[P[m][1]] = <<id[m], "r">> /\ tab'[P[m][2]] = <<id[m], "w">>
  BY <1>2, <1>4, <1>7, <1>8
<1>16. \A m, k \in 1..n : id[m] = id[k] => m = k
  BY <1>2, <1>4
<1> QED BY <1>12, <1>13, <1>14, <1>15, <1>16

(* The numbers of a line that begins: first those of the temporary pipes,   *)
(* then those of its commands.                                              *)
Given(u, K, M, P) == \A k \in 1..M : cmds'[u][K + k].fd = P[TempPipes + k]

LEMMA StartFds ==
  ASSUME Typed, NEW u \in User, NEW l, GoodLine(l), Start(u, l),
         NEW n, n = TempPipes + Len(split_by_pipe(l)), NEW K, K = Len(cmds[u]), NEW P, P = NewPairs(l),
         NEW M, M = Len(split_by_pipe(l))
  PROVE  /\ cmds[u] \in Seq(Cmd) /\ K \in Nat /\ M \in Nat /\ cmds'[u] \in Seq(Cmd)
         /\ Len(cmds'[u]) = K + M
         /\ \A k \in 1..K : cmds'[u][k] = cmds[u][k]
         /\ Given(u, K, M, P)
         /\ \A v \in User : v # u => cmds'[v] = cmds[v]
         /\ n = TempPipes + M /\ n \in Nat /\ TempPipes \in Nat
         /\ DOMAIN cmds[u] = 1..K /\ DOMAIN cmds'[u] = 1..(K + M)
         /\ DOMAIN temp' = 1..TempPipes /\ \A m \in 1..TempPipes : temp'[m] = P[m]
<1>1. /\ temp' = SubSeq(P, 1, TempPipes) /\ cur' = u
      /\ Room(NeedsFds(l), TempPipes + Len(split_by_pipe(l)))
  BY StartNames
<1>2. /\ cmds[u] \in Seq(Cmd) /\ K \in Nat /\ M \in Nat /\ cmds'[u] \in Seq(Cmd)
      /\ Len(cmds'[u]) = K + M
      /\ \A k \in 1..K : cmds'[u][k] = cmds[u][k]
      /\ \A k \in 1..M : cmds'[u][K + k].fd = P[TempPipes + k]
      /\ \A v \in User : v # u => cmds'[v] = cmds[v]
  <2>1. my' = cmds'[u]
    BY <1>1 DEF my
  <2>2. M = Len(split_by_pipe(l))
    OBVIOUS
  <2>3. /\ cmds[u] \in Seq(Cmd) /\ Len(cmds[u]) \in Nat /\ M \in Nat
        /\ my' \in Seq(Cmd) /\ Len(my') = Len(cmds[u]) + M
        /\ \A k \in 1..Len(cmds[u]) : my'[k] = cmds[u][k]
        /\ \A k \in 1..M : my'[Len(cmds[u]) + k] = NewCmds(u, l)[k]
        /\ \A v \in User : v # u => cmds'[v] = cmds[v]
        /\ \A m \in 1..M : NewCmdOK(u, l, m)
    BY <2>2, StartCmds
  <2>4. \A k \in 1..M : NewCmds(u, l)[k].fd = NewPairs(l)[TempPipes + k]
    BY <2>3 DEF NewCmdOK
  <2> QED BY <2>1, <2>3, <2>4
<1>3. P \in Seq(FreeFd \X FreeFd) /\ Len(P) = n /\ n \in Nat /\ TempPipes \in Nat
  BY <1>1, NewParts
<1>4. n = TempPipes + M
  OBVIOUS
<1>5. DOMAIN cmds[u] = 1..K /\ DOMAIN cmds'[u] = 1..(K + M)
  BY <1>2, LenProperties
<1>6. DOMAIN temp' = 1..TempPipes /\ \A m \in 1..TempPipes : temp'[m] = P[m]
  <2>1. TempPipes <= n
    BY <1>2, <1>3, <1>4
  <2>2. \A m \in 1..TempPipes : P[m] \in FreeFd \X FreeFd
    BY <1>3, <2>1, LenProperties
  <2>3. /\ SubSeq(P, 1, TempPipes) \in Seq(FreeFd \X FreeFd)
        /\ Len(SubSeq(P, 1, TempPipes)) = IF 1 <= TempPipes THEN TempPipes - 1 + 1 ELSE 0
        /\ \A a \in 1..(TempPipes - 1 + 1) : SubSeq(P, 1, TempPipes)[a] = P[1 + a - 1]
    BY <1>3, <2>1, <2>2, SubSeqProperties
  <2>4. Len(SubSeq(P, 1, TempPipes)) = TempPipes /\ TempPipes - 1 + 1 = TempPipes
    BY <1>3, <2>3
  <2>5. DOMAIN SubSeq(P, 1, TempPipes) = 1..TempPipes
    BY <2>3, <2>4, LenProperties
  <2>6. \A a \in 1..TempPipes : 1 + a - 1 = a
    BY <1>3
  <2> QED BY <1>1, <2>3, <2>4, <2>5, <2>6
<1> QED BY <1>2, <1>3, <1>4, <1>5, <1>6 DEF Given

(* Who remembers what once a line has begun: what was remembered before,    *)
(* the pipes of its commands, the temporary pipes and what its caller saved.*)
NameOf(u, K, m, e) == IF m <= TempPipes THEN <<"temp", m, 0, e>> ELSE <<"cmd", u, K + (m - TempPipes), e>>

LEMMA StartOwns ==
  ASSUME Typed, NEW u \in User, NEW l, GoodLine(l), Start(u, l), temp = << >>, scratch = {},
         NEW n, n = TempPipes + Len(split_by_pipe(l)), NEW K, K = Len(cmds[u]),
         NEW P, P = NewPairs(l), NEW F, F = NewFds(l), NEW x, NEW f
  PROVE  Owns(x, f)' <=> \/ Owns(x, f)
                         \/ \E m \in 1..n : \E e \in {1, 2} : f = P[m][e] /\ x = NameOf(u, K, m, e)
                         \/ (f = F[1] \/ f = F[2]) /\ x = <<"scratch", f, 0, 0>>
<1>1. /\ scratch' = {F[1], F[2]} /\ temp' = SubSeq(P, 1, TempPipes) /\ user_pipe' = user_pipe
      /\ Room(NeedsFds(l), TempPipes + Len(split_by_pipe(l))) /\ cur' = u
  BY StartNames
<1> DEFINE M == Len(split_by_pipe(l))
<1>2. /\ cmds[u] \in Seq(Cmd) /\ K \in Nat /\ M \in Nat /\ cmds'[u] \in Seq(Cmd)
      /\ Len(cmds'[u]) = K + M
      /\ \A k \in 1..K : cmds'[u][k] = cmds[u][k]
      /\ \A k \in 1..M : cmds'[u][K + k].fd = P[TempPipes + k]
      /\ \A v \in User : v # u => cmds'[v] = cmds[v]
      /\ n = TempPipes + M /\ n \in Nat /\ TempPipes \in Nat
      /\ DOMAIN cmds[u] = 1..K /\ DOMAIN cmds'[u] = 1..(K + M)
      /\ DOMAIN temp' = 1..TempPipes /\ \A m \in 1..TempPipes : temp'[m] = P[m]
  <2> HIDE DEF M
  <2>1. M = Len(split_by_pipe(l))
    BY DEF M
  <2>2. Given(u, K, M, P)
    BY <2>1, StartFds
  <2>3. Len(cmds'[u]) = K + M
    BY <2>1, StartFds
  <2>4. cmds[u] \in Seq(Cmd) /\ K \in Nat /\ M \in Nat /\ cmds'[u] \in Seq(Cmd)
    BY <2>1, StartFds
  <2>5. (\A k \in 1..K : cmds'[u][k] = cmds[u][k]) /\ \A v \in User : v # u => cmds'[v] = cmds[v]
    BY <2>1, StartFds
  <2>6. /\ n = TempPipes + M /\ n \in Nat /\ TempPipes \in Nat
        /\ DOMAIN cmds[u] = 1..K /\ DOMAIN cmds'[u] = 1..(K + M)
    BY <2>1, StartFds
  <2>7. DOMAIN temp' = 1..TempPipes /\ \A m \in 1..TempPipes : temp'[m] = P[m]
    BY <2>1, StartFds
  <2> QED BY <2>2, <2>3, <2>4, <2>5, <2>6, <2>7 DEF Given
<1> HIDE DEF M
<1>7. Owns(x, f)' => \/ Owns(x, f)
                     \/ \E m \in 1..n : \E e \in {1, 2} : f = P[m][e] /\ x = NameOf(u, K, m, e)
                     \/ (f = F[1] \/ f = F[2]) /\ x = <<"scratch", f, 0, 0>>
  <2>1. CASE \E v \in User : \E k \in DOMAIN cmds'[v] : \E e \in {1, 2} :
               x = <<"cmd", v, k, e>> /\ f = cmds'[v][k].fd[e]
    <3>1. PICK v \in User : \E k \in DOMAIN cmds'[v] : \E e \in {1, 2} :
                 x = <<"cmd", v, k, e>> /\ f = cmds'[v][k].fd[e]
      BY <2>1
    <3>2. PICK k \in DOMAIN cmds'[v], e \in {1, 2} : x = <<"cmd", v, k, e>> /\ f = cmds'[v][k].fd[e]
      BY <3>1
    <3>3. CASE v # u
      BY <1>2, <3>2, <3>3 DEF Owns
    <3>4. CASE v = u /\ k <= K
      <4>1. k \in 1..K
        BY <1>2, <3>4
      <4> QED BY <1>2, <3>2, <3>4, <4>1 DEF Owns
    <3>5. CASE v = u /\ k > K
      <4> DEFINE m == TempPipes + (k - K)
      <4>1. k - K \in 1..M /\ k = K + (k - K)
        <5>1. DOMAIN cmds'[u] = 1..(K + M) /\ K \in Nat /\ M \in Nat
          BY <1>2
        <5>2. k \in 1..(K + M)
          BY <3>5, <5>1
        <5> QED BY <3>5, <5>1, <5>2
      <4>2. m \in 1..n /\ ~(m <= TempPipes) /\ K + (m - TempPipes) = k
        BY <1>2, <4>1
      <4>3. cmds'[u][K + (k - K)].fd = P[TempPipes + (k - K)]
        BY <1>2, <4>1
      <4>4. cmds'[u][k].fd = P[m]
        BY <4>1, <4>3
      <4> HIDE DEF m
      <4>5. NameOf(u, K, m, e) = <<"cmd", u, k, e>>
        BY <4>2 DEF NameOf
      <4> QED BY <3>2, <3>5, <4>2, <4>4, <4>5
    <3>6. k <= K \/ k > K
      <4>1. DOMAIN cmds'[u] = 1..(K + M)
        BY <1>2
      <4>2. v = u => k \in Int
        BY <1>2, <4>1
      <4>3. CASE v = u
        BY <1>2, <4>2, <4>3
      <4>4. CASE v # u
        <5>1. cmds[v] \in Seq(Cmd) /\ cmds'[v] = cmds[v]
          BY <1>2, <4>4 DEF Typed, TypeInv
        <5>2. DOMAIN cmds[v] = 1..Len(cmds[v]) /\ Len(cmds[v]) \in Nat
          BY <5>1, LenProperties
        <5> QED BY <1>2, <5>1, <5>2
      <4> QED BY <4>3, <4>4
    <3> QED BY <3>3, <3>4, <3>5, <3>6
  <2>2. CASE \E a, b \in User : user_pipe[a][b] # NoPair /\ x = <<"pipe", a, b, 1>> /\ f = user_pipe[a][b][1]
    BY <2>2 DEF Owns
  <2>3. CASE \E m \in DOMAIN temp' : \E e \in {1, 2} : x = <<"temp", m, 0, e>> /\ f = temp'[m][e]
    <3>1. PICK m \in DOMAIN temp', e \in {1, 2} : x = <<"temp", m, 0, e>> /\ f = temp'[m][e]
      BY <2>3
    <3>2. m \in 1..TempPipes /\ f = P[m][e]
      BY <1>2, <3>1
    <3>3. m \in 1..n /\ m <= TempPipes
      BY <1>2, <3>2
    <3>4. NameOf(u, K, m, e) = x
      BY <3>1, <3>3 DEF NameOf
    <3> QED BY <3>2, <3>3, <3>4
  <2>4. CASE f \in scratch' /\ x = <<"scratch", f, 0, 0>>
    BY <1>1, <2>4
  <2> QED BY <1>1, <2>1, <2>2, <2>3, <2>4 DEF Owns
<1>8. ASSUME Owns(x, f) PROVE Owns(x, f)'
  <2>1. CASE \E v \in User : \E k \in DOMAIN cmds[v] : \E e \in {1, 2} :
               x = <<"cmd", v, k, e>> /\ f = cmds[v][k].fd[e]
    <3>1. PICK v \in User : \E k \in DOMAIN cmds[v] : \E e \in {1, 2} :
                 x = <<"cmd", v, k, e>> /\ f = cmds[v][k].fd[e]
      BY <2>1
    <3>2. PICK k \in DOMAIN cmds[v], e \in {1, 2} : x = <<"cmd", v, k, e>> /\ f = cmds[v][k].fd[e]
      BY <3>1
    <3>3. k \in DOMAIN cmds'[v] /\ cmds'[v][k] = cmds[v][k]
      <4>1. CASE v # u
        BY <1>2, <4>1
      <4>2. CASE v = u
        <5>1. k \in 1..K /\ k \in 1..(K + M)
          BY <1>2, <4>2
        <5> QED BY <1>2, <4>2, <5>1
      <4> QED BY <4>1, <4>2
    <3> QED BY <3>2, <3>3 DEF Owns
  <2>2. CASE \E a, b \in User : user_pipe[a][b] # NoPair /\ x = <<"pipe", a, b, 1>> /\ f = user_pipe[a][b][1]
    BY <1>1, <2>2 DEF Owns
  <2>3. DOMAIN temp = {} /\ scratch = {}
    OBVIOUS
  <2> QED BY <1>8, <2>1, <2>2, <2>3 DEF Owns
<1>9. ASSUME NEW m \in 1..n, NEW e \in {1, 2}, f = P[m][e], x = NameOf(u, K, m, e) PROVE Owns(x, f)'
  <2>1. CASE m <= TempPipes
    <3>1. m \in 1..TempPipes
      BY <1>2, <2>1
    <3>2. m \in DOMAIN temp' /\ x = <<"temp", m, 0, e>> /\ f = temp'[m][e]
      BY <1>2, <1>9, <2>1, <3>1 DEF NameOf
    <3> QED BY <3>2 DEF Owns
  <2>2. CASE ~(m <= TempPipes)
    <3>1. /\ m - TempPipes \in 1..M /\ TempPipes + (m - TempPipes) = m
          /\ K + (m - TempPipes) \in 1..(K + M)
      BY <1>2, <2>2, SMTT(30)
    <3>2. PICK k : k = K + (m - TempPipes)
      OBVIOUS
    <3>3. k \in DOMAIN cmds'[u] /\ x = <<"cmd", u, k, e>>
      BY <1>2, <1>9, <2>2, <3>1, <3>2 DEF NameOf
    <3>4. cmds'[u][K + (m - TempPipes)].fd = P[TempPipes + (m - TempPipes)]
      BY <1>2, <3>1
    <3>5. cmds'[u][k].fd = P[m]
      BY <3>1, <3>2, <3>4
    <3> QED BY <1>9, <3>3, <3>5 DEF Owns
  <2> QED BY <2>1, <2>2
<1>10. ASSUME f = F[1] \/ f = F[2], x = <<"scratch", f, 0, 0>> PROVE Owns(x, f)'
  BY <1>1, <1>10 DEF Owns
<1> QED BY <1>7, <1>8, <1>9, <1>10

(* No command of a line with ">n" is a number pipe.                         *)
LEMMA LineUnmixed ==
  ASSUME NEW l, GoodLine(l), UnmixedLine(l), NEW m \in 1..Len(split_by_pipe(l)), split_by_pipe(l)[m].wr # -1
  PROVE  UsesUserPipe(l) /\ \A k \in 1..Len(split_by_pipe(l)) : split_by_pipe(l)[k].type # "NUM_PIPE"
<1> DEFINE f == InOrder(EndsIn(l))
           N == Cardinality(EndsIn(l))
<1>1. Len(split_by_pipe(l)) = N /\ \A k \in 1..N : split_by_pipe(l)[k] = Made(l, f[k])
  BY SplitParts
<1>2. \A k \in 1..N : f[k] \in EndsIn(l)
  <2>1. f \in [1..N -> EndsIn(l)]
    BY LineParts, InOrderLists
  <2> HIDE DEF f, N
  <2> QED BY <2>1
<1> HIDE DEF f, N
<1>3. \E j \in DOMAIN l : l[j].t = "to"
  <2>1. m \in 1..N
    BY <1>1
  <2>2. f[m] \in EndsIn(l) /\ Made(l, f[m]).wr # -1
    BY <1>1, <1>2, <2>1
  <2> QED BY <2>2, MadeWrites
<1>4. UsesUserPipe(l)
  BY <1>3 DEF UsesUserPipe, IsUserPipe
<1>5. ASSUME NEW k \in 1..Len(split_by_pipe(l)), split_by_pipe(l)[k].type = "NUM_PIPE" PROVE FALSE
  <2>1. k \in 1..N
    BY <1>1
  <2>2. f[k] \in EndsIn(l) /\ Made(l, f[k]).type = "NUM_PIPE"
    BY <1>1, <1>2, <1>5, <2>1
  <2>3. f[k] \in Seps(l) /\ l[f[k]].t = "num"
    BY <2>2, MadeParts
  <2>4. f[k] \in DOMAIN l
    BY <2>3 DEF Seps
  <2> QED BY <1>3, <2>3, <2>4 DEF UnmixedLine
<1> QED BY <1>4, <1>5

(* What a line opens is new, and remembered but for one number.             *)
LEMMA PlaceStart ==
  ASSUME ~Mixed, Typed, PlaceInv, NEW u \in User, NEW l, GoodLine(l), UnmixedLine(l), Start(u, l)
  PROVE  PlaceInv'
<1> DEFINE M == Len(split_by_pipe(l))
<1>1. /\ pc = "read" /\ cur = None /\ temp = << >> /\ scratch = {} /\ lines < MaxLines
      /\ Room(NeedsFds(l), TempPipes + Len(split_by_pipe(l)))
      /\ pc' = "stage" /\ cur' = u /\ user_pipe' = user_pipe /\ lines' = lines + 1 /\ temp_id' = 0
      /\ UsesUserPipe(l) => cmds[u] = << >>
  BY StartNames DEF PlaceInv, Typed, Progress
<1>2. /\ Distinct /\ OneEach /\ OpenCmds /\ OpenPipes
      /\ \A v \in User : \A k \in DOMAIN cmds[v] : ~cmds[v][k].piped /\ OpenIn(tab, cmds[v][k].fd)
  <2>1. None \notin User
    BY BoundAssumption
  <2> QED BY <1>1, <2>1 DEF PlaceInv, OthersWait, OpenCmds
<1>3. PICK n, K, P, F, id : /\ n = TempPipes + Len(split_by_pipe(l)) /\ K = Len(cmds[u])
                            /\ P = NewPairs(l) /\ F = NewFds(l) /\ id = LowSeq(FreePipes, n)
  OBVIOUS
<1>4. /\ n \in Nat /\ \A a \in 1..3 : F[a] \in FreeFd
      /\ \A a, b \in 1..3 : F[a] = F[b] => a = b
      /\ DOMAIN P = 1..n /\ \A m \in 1..n : \A e \in {1, 2} : P[m][e] \in FreeFd
      /\ Apart(P)
      /\ \A a \in 1..3 : \A m \in 1..n : \A e \in {1, 2} : P[m][e] # F[a]
  BY <1>1, <1>3, NewParts
<1>5. /\ \A f : f \in DOMAIN tab' <=> \/ f \in DOMAIN tab \/ \E a \in 1..3 : f = F[a]
                                      \/ \E m \in 1..n : \E e \in {1, 2} : f = P[m][e]
      /\ \A f \in DOMAIN tab : tab'[f] = tab[f]
      /\ \A a \in 1..3 : tab'[F[a]] = Other
      /\ \A m \in 1..n : /\ id[m] \in FreePipes
                         /\ tab'[P[m][1]] = <<id[m], "r">> /\ tab'[P[m][2]] = <<id[m], "w">>
      /\ \A m, k \in 1..n : id[m] = id[k] => m = k
  <2> HIDE DEF M
  <2> QED BY <1>3, StartTab
<1>7. \A x, f : Owns(x, f)' <=> \/ Owns(x, f)
                                \/ \E m \in 1..n : \E e \in {1, 2} : f = P[m][e] /\ x = NameOf(u, K, m, e)
                                \/ (f = F[1] \/ f = F[2]) /\ x = <<"scratch", f, 0, 0>>
  BY <1>1, <1>3, StartOwns
<1>8. \A f \in FreeFd : f \notin DOMAIN tab
  BY DEF FreeFd
<1>9. 1 \in 1..3 /\ 2 \in 1..3 /\ 3 \in 1..3
  OBVIOUS
<1>10. ASSUME NEW x, NEW f, Owns(x, f) PROVE f \in DOMAIN tab
  <2>1. CASE \E v \in User : \E k \in DOMAIN cmds[v] : \E e \in {1, 2} :
               x = <<"cmd", v, k, e>> /\ f = cmds[v][k].fd[e]
    BY <1>2, <2>1 DEF OpenIn
  <2>2. CASE \E a, b \in User : user_pipe[a][b] # NoPair /\ x = <<"pipe", a, b, 1>> /\ f = user_pipe[a][b][1]
    BY <1>2, <2>2 DEF OpenPipes, ReadIn
  <2>3. DOMAIN temp = {} /\ scratch = {}
    BY <1>1
  <2> QED BY <1>10, <2>1, <2>2, <2>3 DEF Owns
<1>11. Distinct'
  <2> SUFFICES ASSUME NEW x, NEW y, NEW f, Owns(x, f)', Owns(y, f)' PROVE x = y
    BY DEF Distinct
  <2>1. CASE f \in DOMAIN tab
    <3>1. Owns(x, f) /\ Owns(y, f)
      BY <1>4, <1>7, <1>8, <1>9, <2>1
    <3> QED BY <1>2, <3>1 DEF Distinct
  <2>2. CASE f \notin DOMAIN tab /\ (f = F[1] \/ f = F[2])
    BY <1>4, <1>7, <1>9, <1>10, <2>2
  <2>3. CASE f \notin DOMAIN tab /\ ~(f = F[1] \/ f = F[2])
    <3>1. PICK m \in 1..n, e \in {1, 2} : f = P[m][e] /\ x = NameOf(u, K, m, e)
      BY <1>7, <1>10, <2>3
    <3>2. PICK k \in 1..n, d \in {1, 2} : f = P[k][d] /\ y = NameOf(u, K, k, d)
      BY <1>7, <1>10, <2>3
    <3>3. P[m][e] = P[k][d] /\ m \in DOMAIN P /\ k \in DOMAIN P
      BY <1>4, <3>1, <3>2
    <3>4. m = k /\ e = d
      BY <1>4, <3>3, Zenon DEF Apart
    <3> QED BY <3>1, <3>2, <3>4
  <2> QED BY <2>1, <2>2, <2>3
<1>12. \A q \in FreePipes : \A f \in DOMAIN tab : \A x : tab[f] # <<q, x>>
  BY FreeUnheld
<1>13. OneEach'
  <2> SUFFICES ASSUME NEW f \in DOMAIN tab', NEW g \in DOMAIN tab', tab'[f] = tab'[g], tab'[f] # Other
               PROVE  f = g
    BY DEF OneEach
  <2>1. \A h \in DOMAIN tab' : tab'[h] # Other =>
           \/ h \in DOMAIN tab /\ tab'[h] = tab[h]
           \/ \E m \in 1..n : \/ h = P[m][1] /\ tab'[h] = <<id[m], "r">>
                              \/ h = P[m][2] /\ tab'[h] = <<id[m], "w">>
    <3> SUFFICES ASSUME NEW h \in DOMAIN tab', tab'[h] # Other
                 PROVE  \/ h \in DOMAIN tab /\ tab'[h] = tab[h]
                        \/ \E m \in 1..n : \/ h = P[m][1] /\ tab'[h] = <<id[m], "r">>
                                           \/ h = P[m][2] /\ tab'[h] = <<id[m], "w">>
      OBVIOUS
    <3>1. CASE h \in DOMAIN tab
      BY <1>5, <3>1
    <3>2. CASE \E a \in 1..3 : h = F[a]
      BY <1>5, <3>2
    <3>3. CASE \E m \in 1..n : \E e \in {1, 2} : h = P[m][e]
      BY <1>5, <3>3
    <3> QED BY <1>5, <3>1, <3>2, <3>3
  <2>2. CASE f \in DOMAIN tab /\ tab'[f] = tab[f] /\ g \in DOMAIN tab /\ tab'[g] = tab[g]
    BY <1>2, <2>2 DEF OneEach
  <2>3. ASSUME NEW m \in 1..n, NEW x, NEW h \in DOMAIN tab, tab[h] = <<id[m], x>> PROVE FALSE
    BY <1>5, <1>12, <2>3
  <2>4. CASE f \in DOMAIN tab /\ tab'[f] = tab[f] /\ ~(g \in DOMAIN tab /\ tab'[g] = tab[g])
    BY <2>1, <2>3, <2>4
  <2>5. CASE ~(f \in DOMAIN tab /\ tab'[f] = tab[f]) /\ g \in DOMAIN tab /\ tab'[g] = tab[g]
    BY <2>1, <2>3, <2>5
  <2>6. CASE ~(f \in DOMAIN tab /\ tab'[f] = tab[f]) /\ ~(g \in DOMAIN tab /\ tab'[g] = tab[g])
    <3>1. PICK m \in 1..n : \/ f = P[m][1] /\ tab'[f] = <<id[m], "r">>
                            \/ f = P[m][2] /\ tab'[f] = <<id[m], "w">>
      BY <2>1, <2>6
    <3>2. PICK k \in 1..n : \/ g = P[k][1] /\ tab'[g] = <<id[k], "r">>
                            \/ g = P[k][2] /\ tab'[g] = <<id[k], "w">>
      BY <2>1, <2>6
    <3>3. id[m] = id[k]
      BY <3>1, <3>2
    <3>4. m = k
      BY <1>5, <3>3
    <3> QED BY <3>1, <3>2, <3>4
  <2> QED BY <2>2, <2>4, <2>5, <2>6
<1>14. /\ my' = cmds'[u] /\ i' = K + 1 /\ K \in Nat /\ M \in Nat
       /\ DOMAIN cmds[u] = 1..K /\ DOMAIN cmds'[u] = 1..(K + M)
       /\ \A k \in 1..K : cmds'[u][k] = cmds[u][k]
       /\ \A k \in 1..M : NewCmdOK(u, l, k) /\ cmds'[u][K + k] = NewCmds(u, l)[k]
       /\ \A v \in User : v # u => cmds'[v] = cmds[v]
  <2>1. my' = cmds'[u]
    BY <1>1 DEF my
  <2>2. /\ cmds[u] \in Seq(Cmd) /\ Len(cmds[u]) \in Nat /\ Len(split_by_pipe(l)) \in Nat
        /\ i' = Len(cmds[u]) + 1 /\ my' \in Seq(Cmd)
        /\ Len(my') = Len(cmds[u]) + Len(split_by_pipe(l))
        /\ \A k \in 1..Len(cmds[u]) : my'[k] = cmds[u][k]
        /\ \A k \in 1..Len(split_by_pipe(l)) : my'[Len(cmds[u]) + k] = NewCmds(u, l)[k]
        /\ \A v \in User : v # u => cmds'[v] = cmds[v]
        /\ \A m \in 1..Len(split_by_pipe(l)) : NewCmdOK(u, l, m)
    BY StartCmds
  <2>3. DOMAIN cmds[u] = 1..Len(cmds[u]) /\ DOMAIN my' = 1..(Len(cmds[u]) + Len(split_by_pipe(l)))
    BY <2>2, LenProperties
  <2> QED BY <1>3, <2>1, <2>2, <2>3
<1>15. ASSUME NEW k \in DOMAIN cmds'[u], k \notin 1..K
       PROVE  /\ k > K /\ k - K \in 1..M /\ ~cmds'[u][k].piped
              /\ TempPipes + (k - K) \in 1..n /\ cmds'[u][k].fd = P[TempPipes + (k - K)]
              /\ cmds'[u][k].wr = split_by_pipe(l)[k - K].wr /\ cmds'[u][k].type = split_by_pipe(l)[k - K].type
  <2>0. M = Len(split_by_pipe(l))
    OBVIOUS
  <2> HIDE DEF M
  <2>1. k > K /\ k - K \in 1..M /\ K + (k - K) = k
    BY <1>14, <1>15
  <2>2. TempPipes + (k - K) \in 1..n
    <3>1. n = TempPipes + M /\ TempPipes \in Nat /\ M \in Nat
      BY <1>3, <1>14, <2>0, BoundAssumption
    <3> DEFINE d == k - K
    <3>2. d \in 1..M
      BY <2>1
    <3> HIDE DEF d
    <3>3. TempPipes + d \in 1..n
      BY <3>1, <3>2
    <3> QED BY <3>3 DEF d
  <2>3. cmds'[u][k] = NewCmds(u, l)[k - K] /\ NewCmdOK(u, l, k - K)
    BY <1>14, <2>1
  <2> QED BY <1>3, <2>1, <2>2, <2>3 DEF NewCmdOK
<1> HIDE DEF M
<1>16. \A v \in User : \A k \in DOMAIN cmds'[v] : ~cmds'[v][k].piped
  BY <1>2, <1>14, <1>15
<1>17. ASSUME NEW m \in 1..n PROVE OpenIn(tab', P[m])
  <2>1. P[m][1] \in DOMAIN tab' /\ P[m][2] \in DOMAIN tab' /\ id[m] \in Pipes
    BY <1>5, FreeParts
  <2> QED BY <1>5, <2>1 DEF OpenIn
<1>18. ASSUME NEW v \in User, NEW k \in DOMAIN cmds'[v] PROVE OpenIn(tab', cmds'[v][k].fd)
  <2>1. CASE v = u /\ k \notin 1..K
    BY <1>15, <1>17, <2>1
  <2>2. CASE ~(v = u /\ k \notin 1..K)
    <3>1. k \in DOMAIN cmds[v] /\ cmds'[v][k] = cmds[v][k]
      BY <1>14, <2>2
    <3>2. OpenIn(tab, cmds[v][k].fd)
      BY <1>2, <3>1
    <3> QED BY <1>5, <3>1, <3>2 DEF OpenIn
  <2> QED BY <2>1, <2>2
<1>19. OpenCmds'
  BY <1>18 DEF OpenCmds
<1>20. OpenPipes'
  BY <1>1, <1>2, <1>5 DEF OpenPipes, ReadIn
<1>21. OthersWait' /\ AllClosed' /\ Unread'
  BY <1>1, <1>14, <1>16 DEF OthersWait, AllClosed, Unread
<1>22. ASSUME NEW m \in DOMAIN temp' PROVE temp'[m][1] \in DOMAIN tab' /\ temp'[m][2] \in DOMAIN tab'
  <2>1. ASSUME NEW e \in {1, 2} PROVE temp'[m][e] \in DOMAIN tab'
    <3>1. PICK f : f = temp'[m][e]
      OBVIOUS
    <3>2. Owns(<<"temp", m, 0, e>>, f)'
      BY <3>1 DEF Owns
    <3> QED BY <1>5, <1>7, <1>9, <1>10, <3>1, <3>2
  <2> QED BY <2>1
<1>23. Whole'
  <2> SUFFICES ASSUME NEW k \in DOMAIN my', k >= i', my'[k].wr # -1
               PROVE  /\ temp_id' = 0
                      /\ \A j \in DOMAIN my' : /\ my'[j].type # "NUM_PIPE"
                                               /\ my'[j].fd[1] \in DOMAIN tab' /\ my'[j].fd[2] \in DOMAIN tab'
                      /\ \A m \in DOMAIN temp' : temp'[m][1] \in DOMAIN tab' /\ temp'[m][2] \in DOMAIN tab'
    BY DEF Whole
  <2>1. k \notin 1..K
    BY <1>14
  <2>2. k - K \in 1..Len(split_by_pipe(l)) /\ split_by_pipe(l)[k - K].wr # -1
    BY <1>14, <1>15, <2>1 DEF M
  <2>3. UsesUserPipe(l) /\ \A j \in 1..Len(split_by_pipe(l)) : split_by_pipe(l)[j].type # "NUM_PIPE"
    BY <2>2, LineUnmixed
  <2>4. K = 0
    BY <1>1, <1>3, <2>3
  <2>5. ASSUME NEW j \in DOMAIN my' PROVE my'[j].type # "NUM_PIPE"
    <3>1. j \in DOMAIN cmds'[u] /\ j \notin 1..K
      BY <1>14, <2>4
    <3>2. j - K \in 1..M /\ cmds'[u][j].type = split_by_pipe(l)[j - K].type
      BY <1>15, <3>1
    <3> QED BY <1>14, <2>3, <3>2 DEF M
  <2>6. \A j \in DOMAIN my' : my'[j].fd[1] \in DOMAIN tab' /\ my'[j].fd[2] \in DOMAIN tab'
    BY <1>14, <1>18 DEF OpenIn
  <2> QED BY <1>1, <1>22, <2>5, <2>6
<1>24. (scratch \subseteq DOMAIN tab)'
  <2>1. scratch' = {F[1], F[2]}
    BY <1>3, StartNames
  <2> QED BY <1>5, <1>9, <2>1
<1>25. Loose' = Loose \cup {F[3]} /\ F[3] \notin Loose
  <2>1. ASSUME NEW f PROVE f \in Loose' <=> f \in DOMAIN tab' /\ ~\E x : Owns(x, f)'
    BY DEF Loose
  <2>2. ASSUME NEW f PROVE f \in Loose <=> f \in DOMAIN tab /\ ~\E x : Owns(x, f)
    BY DEF Loose
  <2>3. ASSUME NEW f \in DOMAIN tab PROVE f \in Loose' <=> f \in Loose
    <3>1. f \in DOMAIN tab' /\ \A x : Owns(x, f)' <=> Owns(x, f)
      BY <1>4, <1>5, <1>7, <1>8, <1>9
    <3> QED BY <2>1, <2>2, <3>1
  <2>4. F[3] \notin DOMAIN tab /\ F[3] \in Loose'
    <3>1. F[3] \notin DOMAIN tab /\ F[3] \in DOMAIN tab' /\ F[3] # F[1] /\ F[3] # F[2]
      BY <1>4, <1>5, <1>8, <1>9
    <3>2. PICK f : f = F[3]
      OBVIOUS
    <3>3. \A x : ~Owns(x, f)'
      BY <1>4, <1>7, <1>9, <1>10, <3>1, <3>2
    <3> QED BY <2>1, <3>1, <3>2, <3>3
  <2>5. ASSUME NEW f \in Loose', f \notin DOMAIN tab PROVE f = F[3]
    <3>1. f \in DOMAIN tab' /\ \A x : ~Owns(x, f)'
      BY <2>1
    <3>2. CASE \E m \in 1..n : \E e \in {1, 2} : f = P[m][e]
      BY <1>7, <3>1, <3>2
    <3>3. CASE \E a \in 1..3 : f = F[a]
      <4>1. PICK a \in 1..3 : f = F[a]
        BY <3>3
      <4>2. f # F[1] /\ f # F[2]
        BY <1>7, <3>1
      <4>3. a = 1 \/ a = 2 \/ a = 3
        OBVIOUS
      <4> QED BY <4>1, <4>2, <4>3
    <3> QED BY <1>5, <2>5, <3>1, <3>2, <3>3
  <2>6. ASSUME NEW f PROVE f \in Loose' <=> f \in Loose \/ f = F[3]
    BY <2>2, <2>3, <2>4, <2>5
  <2> QED BY <2>2, <2>4, <2>6
<1>26. (Cardinality(Loose) = Cardinality(Base) + lines)'
  <2>1. IsFiniteSet(Loose)
    <3>1. Loose \subseteq 0..MaxFd
      BY DEF Loose, Typed, TypeInv, TabOK
    <3>2. IsFiniteSet(0..MaxFd)
      BY BoundAssumption, FS_Interval
    <3> QED BY <3>1, <3>2, FS_Subset
  <2>2. Cardinality(Loose \cup {F[3]}) = Cardinality(Loose) + 1
    BY <1>25, <2>1, FS_AddElement
  <2>3. Cardinality(Loose) = Cardinality(Base) + lines
    BY DEF PlaceInv
  <2>4. Cardinality(Loose) \in Nat /\ lines \in Nat /\ Cardinality(Base) \in Nat
    <3>1. Cardinality(User) \in Nat
      BY UserAssumption, FS_CardinalityType
    <3>2. IsFiniteSet(Base)
      BY <3>1, FS_Interval DEF Base
    <3> QED BY <2>1, <3>2, FS_CardinalityType, BoundAssumption DEF Typed, TypeInv
  <2>5. Cardinality(Loose') = Cardinality(Base) + lines'
    BY <1>1, <1>25, <2>2, <2>3, <2>4
  <2> QED BY <2>5 DEF Base
<1>27. (pc = "read" => temp = << >> /\ scratch = {})'
  BY <1>1
<1> QED BY <1>11, <1>13, <1>19, <1>20, <1>21, <1>23, <1>24, <1>26, <1>27 DEF PlaceInv

LEMMA PlaceInit ==
  ASSUME Init
  PROVE  PlaceInv
<1>1. /\ DOMAIN tab = Base /\ \A f \in Base : tab[f] = Other
      /\ \A u \in User : cmds[u] = << >>
      /\ \A a, b \in User : user_pipe[a][b] = NoPair
      /\ temp = << >> /\ scratch = {} /\ lines = 0 /\ pc = "read"
  BY DEF Init
<1>2. /\ \A u \in User : DOMAIN cmds[u] = {} /\ DOMAIN temp = {}
  BY <1>1
<1>3. \A n, f : ~Owns(n, f)
  BY <1>1, <1>2 DEF Owns
<1>4. Loose = Base
  <2>1. \A f : f \in Loose <=> f \in DOMAIN tab
    BY <1>3 DEF Loose
  <2>2. Loose = DOMAIN tab
    BY <2>1 DEF Loose
  <2> QED BY <1>1, <2>2
<1>5. Cardinality(Base) + 0 = Cardinality(Base)
  <2>1. Cardinality(User) \in Nat
    BY UserAssumption, FS_CardinalityType
  <2>2. IsFiniteSet(Base)
    BY <2>1, FS_Interval DEF Base
  <2>3. Cardinality(Base) \in Nat
    BY <2>2, FS_CardinalityType
  <2> QED BY <2>3
<1>6. Distinct /\ OneEach /\ OpenCmds /\ OpenPipes /\ OthersWait
  BY <1>1, <1>2, <1>3 DEF Distinct, OneEach, OpenCmds, OpenPipes, OthersWait
<1>7. AllClosed /\ Whole /\ Unread
  BY <1>1 DEF AllClosed, Whole, Unread
<1> QED BY <1>1, <1>4, <1>5, <1>6, <1>7 DEF PlaceInv

LEMMA PlaceStep ==
  ASSUME ~Mixed, UnmixedLines, Typed, PlaceInv, [Next]_vars
  PROVE  PlaceInv'
<1>1. \A u \in User : \A l \in Inputs[u] : GoodLine(l)
  BY InputAssumption DEF GoodLine
<1>2. ASSUME NEW u \in User, NEW l \in Inputs[u], Start(u, l) PROVE PlaceInv'
  BY <1>1, <1>2, PlaceStart DEF UnmixedLines
<1>3. CASE Collect
  BY <1>3, PlaceCollect
<1>4. CASE StageFails
  BY <1>4, PlaceStageFails
<1>5. CASE WaitPre
  <2>1. /\ UNCHANGED <<cmds, tab, user_pipe, temp, temp_id, scratch, lines, cur>>
        /\ pc = "waitpre" /\ pc' = "stage" /\ i' = i + 1
    BY <1>5 DEF WaitPre, NextStage, ghost
  <2> QED BY <2>1, PlaceSame
<1>6. CASE StageForks
  BY <1>6, PlaceReads, PlaceWrites
<1>7. CASE EndLine
  BY <1>7, PlaceEndLine
<1>8. CASE Reap
  BY <1>8, PlaceReap
<1>9. ASSUME NEW p \in procs, Finish(p) PROVE PlaceInv'
  <2>1. /\ UNCHANGED <<cmds, tab, user_pipe, temp, temp_id, scratch, lines, cur>>
        /\ pc' = pc /\ i' = i
    BY <1>9 DEF Finish, line, ghost
  <2> QED BY <2>1, PlaceSame
<1>10. CASE UNCHANGED vars
  <2>1. /\ UNCHANGED <<cmds, tab, user_pipe, temp, temp_id, scratch, lines, cur>>
        /\ pc' = pc /\ i' = i
    BY <1>10 DEF vars, line, ghost
  <2> QED BY <2>1, PlaceSame
<1> QED BY <1>2, <1>3, <1>4, <1>5, <1>6, <1>7, <1>8, <1>9, <1>10 DEF Next, Server

(* At every step no descriptor number is remembered for two things, every   *)
(* open end of a pipe is open under one number only, what is still to be    *)
(* read is open on its own pipe, and beside what is remembered one copy of  *)
(* standard output is open for each line: closing by number, also numbers   *)
(* that were closed before, never hits a pipe that took the number over     *)
(* (close_pipe, close_temp_pipe, close_wr_user_pipe, close_rd_user_pipe).   *)
THEOREM PlaceAlways == ASSUME ~Mixed, UnmixedLines PROVE Spec => []PlaceInv
<1>1. Init => PlaceInv
  BY PlaceInit
<1>2. Typed /\ PlaceInv /\ [Next]_vars => PlaceInv'
  BY PlaceStep
<1> QED BY <1>1, <1>2, TypedAlways, PTL DEF Spec

-------------------------------------------------------------------------------
(* What a command wrote is in its pipe, or the command still runs and will  *)
(* write there; and nobody reads the pipe of somebody else.                 *)
Writes(p, q, j) == p.id = j /\ p.kind = "stage" /\ p.out = <<q, "w">>
Flow(q, j)      == j \in data[q] \/ \E p \in procs : Writes(p, q, j)

InHeld    == \A p \in procs : p.in \in p.held
NoReader  == \A a, b \in User : user_pipe[a][b] # NoPair =>
               \A p \in procs : p.in # tab[user_pipe[a][b][1]]
FlowCmds  == \A u \in User : \A k \in DOMAIN cmds[u] : cmds[u][k].exe /\ ~cmds[u][k].piped =>
               Flow(tab[cmds[u][k].fd[1]][1], cmds[u][k].job)
FlowPipes == \A a, b \in User : user_pipe[a][b] # NoPair => Flow(tab[user_pipe[a][b][1]][1], made[a][b])

(* A stage that reads the command before it has one.                        *)
Before    == /\ pc = "stage" /\ ~stop_pipe => i > 1
             /\ pc # "read" => \A k \in DOMAIN my : my[k].type = "F_RED_PIPE" => k > 1 /\ my[k].wr = -1

FlowInv == InHeld /\ NoReader /\ FlowCmds /\ FlowPipes /\ Before

(* A pipe the server has an end of is not free.                             *)
LEMMA OpenTaken ==
  ASSUME NEW f \in DOMAIN tab, NEW q, NEW x, tab[f] = <<q, x>>
  PROVE  q \notin FreePipes
BY FreeUnheld

(* A step of the server: what is kept keeps its pipe and its writer, and a  *)
(* new child reads nobody else's pipe.                                      *)
KeepsTab   == \A f \in DOMAIN tab : f \in DOMAIN tab' => tab'[f] = tab[f]
KeepsData  == procs \subseteq procs' /\ \A q \in Pipes \ FreePipes : data[q] \subseteq data'[q]
StillWaits(u, k) ==
  \E j \in DOMAIN cmds[u] : /\ cmds[u][j].exe /\ ~cmds[u][j].piped
                            /\ cmds'[u][k].fd = cmds[u][j].fd /\ cmds'[u][k].job = cmds[u][j].job
KeepsCmds  == \A u \in User : \A k \in DOMAIN cmds'[u] : cmds'[u][k].exe /\ ~cmds'[u][k].piped =>
                \/ StillWaits(u, k)
                \/ \E p \in procs' : Writes(p, tab'[cmds'[u][k].fd[1]][1], cmds'[u][k].job)
KeepsPipes == \A a, b \in User : user_pipe'[a][b] # NoPair =>
                \/ user_pipe[a][b] = user_pipe'[a][b] /\ made'[a][b] = made[a][b]
                \/ /\ \E p \in procs' : Writes(p, tab'[user_pipe'[a][b][1]][1], made'[a][b])
                   /\ \A p \in procs : p.in # tab'[user_pipe'[a][b][1]]
NewReaders == \A p \in procs' \ procs : /\ p.in \in p.held
                /\ \A a, b \in User : user_pipe'[a][b] # NoPair => p.in # tab'[user_pipe'[a][b][1]]

LEMMA FlowServes ==
  ASSUME PlaceInv, PlaceInv', FlowInv, KeepsTab, KeepsData, KeepsCmds, KeepsPipes, NewReaders, Before'
  PROVE  FlowInv'
<1>1. ASSUME NEW q \in Pipes, NEW f \in DOMAIN tab, tab[f] = <<q, "r">>, NEW j, Flow(q, j)
      PROVE  Flow(q, j)'
  <2>1. q \notin FreePipes
    BY <1>1, OpenTaken
  <2>2. data[q] \subseteq data'[q] /\ procs \subseteq procs'
    BY <2>1 DEF KeepsData
  <2> QED BY <1>1, <2>2 DEF Flow
<1>2. FlowCmds'
  <2> SUFFICES ASSUME NEW u \in User, NEW k \in DOMAIN cmds'[u], cmds'[u][k].exe, ~cmds'[u][k].piped
               PROVE  Flow(tab[cmds[u][k].fd[1]][1], cmds[u][k].job)'
    BY DEF FlowCmds
  <2>1. CASE StillWaits(u, k)
    <3>1. PICK n \in DOMAIN cmds[u] : /\ cmds[u][n].exe /\ ~cmds[u][n].piped
                                      /\ cmds'[u][k].fd = cmds[u][n].fd /\ cmds'[u][k].job = cmds[u][n].job
      BY <2>1 DEF StillWaits
    <3>2. PICK q \in Pipes : cmds[u][n].fd[1] \in DOMAIN tab /\ tab[cmds[u][n].fd[1]] = <<q, "r">>
      BY <3>1 DEF PlaceInv, OpenCmds, OpenIn
    <3>3. cmds'[u][k].fd[1] \in DOMAIN tab'
      BY DEF PlaceInv, OpenCmds, OpenIn
    <3>4. tab'[cmds'[u][k].fd[1]] = <<q, "r">>
      BY <3>1, <3>2, <3>3 DEF KeepsTab
    <3>5. PICK j : j = cmds[u][n].job
      OBVIOUS
    <3>6. Flow(q, j)
      BY <3>1, <3>2, <3>5 DEF FlowInv, FlowCmds
    <3>7. Flow(q, j)'
      BY <1>1, <3>2, <3>6
    <3>8. tab'[cmds'[u][k].fd[1]][1] = q /\ cmds'[u][k].job = j
      BY <3>1, <3>4, <3>5
    <3> QED BY <3>7, <3>8 DEF Flow
  <2>2. CASE \E p \in procs' : Writes(p, tab'[cmds'[u][k].fd[1]][1], cmds'[u][k].job)
    BY <2>2 DEF Flow, Writes
  <2> QED BY <2>1, <2>2 DEF KeepsCmds
<1>3. ASSUME NEW a \in User, NEW b \in User, user_pipe'[a][b] # NoPair, user_pipe[a][b] = user_pipe'[a][b]
      PROVE  \E q \in Pipes : /\ user_pipe[a][b][1] \in DOMAIN tab /\ tab[user_pipe[a][b][1]] = <<q, "r">>
                              /\ tab'[user_pipe'[a][b][1]] = <<q, "r">>
  <2>1. PICK q \in Pipes : user_pipe[a][b][1] \in DOMAIN tab /\ tab[user_pipe[a][b][1]] = <<q, "r">>
    BY <1>3 DEF PlaceInv, OpenPipes, ReadIn
  <2>2. user_pipe'[a][b][1] \in DOMAIN tab'
    BY <1>3 DEF PlaceInv, OpenPipes, ReadIn
  <2> QED BY <1>3, <2>1, <2>2 DEF KeepsTab
<1>4. FlowPipes'
  <2> SUFFICES ASSUME NEW a \in User, NEW b \in User, user_pipe'[a][b] # NoPair
               PROVE  Flow(tab[user_pipe[a][b][1]][1], made[a][b])'
    BY DEF FlowPipes
  <2>1. CASE user_pipe[a][b] = user_pipe'[a][b] /\ made'[a][b] = made[a][b]
    <3>1. PICK q \in Pipes : /\ user_pipe[a][b][1] \in DOMAIN tab /\ tab[user_pipe[a][b][1]] = <<q, "r">>
                             /\ tab'[user_pipe'[a][b][1]] = <<q, "r">>
      BY <1>3, <2>1
    <3>2. PICK j : j = made[a][b]
      OBVIOUS
    <3>3. Flow(q, j)
      BY <2>1, <3>1, <3>2 DEF FlowInv, FlowPipes
    <3>4. Flow(q, j)'
      BY <1>1, <3>1, <3>3
    <3>5. tab'[user_pipe'[a][b][1]][1] = q /\ made'[a][b] = j
      BY <2>1, <3>1, <3>2
    <3> QED BY <3>4, <3>5 DEF Flow
  <2>2. CASE \E p \in procs' : Writes(p, tab'[user_pipe'[a][b][1]][1], made'[a][b])
    BY <2>2 DEF Flow, Writes
  <2> QED BY <2>1, <2>2 DEF KeepsPipes
<1>5. NoReader'
  <2> SUFFICES ASSUME NEW a \in User, NEW b \in User, user_pipe'[a][b] # NoPair, NEW p \in procs'
               PROVE  p.in # tab'[user_pipe'[a][b][1]]
    BY DEF NoReader
  <2>1. CASE p \notin procs
    BY <2>1 DEF NewReaders
  <2>2. CASE p \in procs /\ user_pipe[a][b] = user_pipe'[a][b]
    <3>1. tab'[user_pipe'[a][b][1]] = tab[user_pipe[a][b][1]]
      BY <1>3, <2>2
    <3> QED BY <2>2, <3>1 DEF FlowInv, NoReader
  <2>3. CASE p \in procs /\ user_pipe[a][b] # user_pipe'[a][b]
    BY <2>3 DEF KeepsPipes
  <2> QED BY <2>1, <2>2, <2>3
<1>6. InHeld'
  BY DEF FlowInv, InHeld, NewReaders
<1> QED BY <1>2, <1>4, <1>5, <1>6 DEF FlowInv

(* A child that exits has read nobody else's pipe.                          *)
LEMMA FlowFinish ==
  ASSUME Typed, PlaceInv, FlowInv, NEW p \in procs, Finish(p)
  PROVE  FlowInv'
<1>1. /\ UNCHANGED <<pc, i, cur, stop_pipe, cmds, user_pipe, tab, made>> /\ my' = my
      /\ procs' = procs \ {p} /\ CanEnd(p)
      /\ data' = [q \in Pipes |->
                IF p.reads /\ q = p.in[1] THEN {}
                ELSE IF q = p.out[1] /\ <<q, "r">> \in Held
                     THEN data[q] \cup (IF p.kind = "collect" THEN Got(p) ELSE {p.id})
                     ELSE data[q]]
  BY DEF Finish, line, ghost, my
<1>2. ASSUME NEW q \in Pipes, NEW f \in DOMAIN tab, tab[f] = <<q, "r">>, ~(p.reads /\ q = p.in[1]),
             NEW j, Flow(q, j)
      PROVE  Flow(q, j)'
  <2>1. <<q, "r">> \in Held
    BY <1>2 DEF Held, Range
  <2>2. CASE j \in data[q]
    BY <1>1, <1>2, <2>2 DEF Flow
  <2>3. CASE \E c \in procs : c # p /\ Writes(c, q, j)
    BY <1>1, <2>3 DEF Flow, Writes
  <2>4. CASE Writes(p, q, j)
    <3>1. p.out[1] = q /\ p.kind # "collect" /\ p.id = j
      BY <2>4 DEF Writes
    <3> QED BY <1>1, <1>2, <2>1, <3>1 DEF Flow
  <2> QED BY <1>2, <2>2, <2>3, <2>4 DEF Flow
<1>3. FlowCmds'
  <2> SUFFICES ASSUME NEW u \in User, NEW k \in DOMAIN cmds[u], cmds[u][k].exe, ~cmds[u][k].piped
               PROVE  Flow(tab[cmds[u][k].fd[1]][1], cmds[u][k].job)'
    BY <1>1 DEF FlowCmds
  <2>1. PICK q \in Pipes : /\ cmds[u][k].fd[1] \in DOMAIN tab /\ tab[cmds[u][k].fd[1]] = <<q, "r">>
                           /\ cmds[u][k].fd[2] \in DOMAIN tab /\ tab[cmds[u][k].fd[2]] = <<q, "w">>
    BY DEF PlaceInv, OpenCmds, OpenIn
  <2>2. <<q, "w">> \in Held
    BY <2>1 DEF Held, Range
  <2>3. ~(p.reads /\ q = p.in[1])
    BY <1>1, <2>2 DEF CanEnd
  <2>4. PICK j : j = cmds[u][k].job
    OBVIOUS
  <2>5. Flow(q, j)
    BY <2>1, <2>4 DEF FlowInv, FlowCmds
  <2>6. Flow(q, j)'
    BY <1>2, <2>1, <2>3, <2>5
  <2>7. tab'[cmds'[u][k].fd[1]][1] = q /\ cmds'[u][k].job = j
    BY <1>1, <2>1, <2>4
  <2> QED BY <2>6, <2>7 DEF Flow
<1>4. FlowPipes'
  <2> SUFFICES ASSUME NEW a \in User, NEW b \in User, user_pipe[a][b] # NoPair
               PROVE  Flow(tab[user_pipe[a][b][1]][1], made[a][b])'
    BY <1>1 DEF FlowPipes
  <2>1. PICK q \in Pipes : user_pipe[a][b][1] \in DOMAIN tab /\ tab[user_pipe[a][b][1]] = <<q, "r">>
    BY DEF PlaceInv, OpenPipes, ReadIn
  <2>2. ~(p.reads /\ q = p.in[1])
    <3> SUFFICES ASSUME p.reads, q = p.in[1] PROVE FALSE
      OBVIOUS
    <3>1. p.in # Other /\ <<q, "w">> \notin Held
      BY <1>1 DEF CanEnd
    <3>2. p.in \in Ends
      BY DEF Typed, TypeInv, Proc
    <3>3. p.in = <<q, "r">> \/ p.in = <<q, "w">>
      BY <3>1, <3>2 DEF Ends
    <3>4. p.in # <<q, "r">>
      BY <2>1 DEF FlowInv, NoReader
    <3>5. p.in \in Held
      BY DEF FlowInv, InHeld, Held
    <3> QED BY <3>1, <3>3, <3>4, <3>5
  <2>3. PICK j : j = made[a][b]
    OBVIOUS
  <2>4. Flow(q, j)
    BY <2>1, <2>3 DEF FlowInv, FlowPipes
  <2>5. Flow(q, j)'
    BY <1>2, <2>1, <2>2, <2>4
  <2>6. tab'[user_pipe'[a][b][1]][1] = q /\ made'[a][b] = j
    BY <1>1, <2>1, <2>3
  <2> QED BY <2>5, <2>6 DEF Flow
<1>5. InHeld' /\ NoReader' /\ Before'
  BY <1>1 DEF FlowInv, InHeld, NoReader, Before
<1> QED BY <1>3, <1>4, <1>5 DEF FlowInv

(* Steps that leave the commands and the children alone.                    *)
LEMMA FlowSame ==
  ASSUME PlaceInv, PlaceInv', FlowInv, UNCHANGED <<cmds, user_pipe, made, data, procs>>, KeepsTab, Before'
  PROVE  FlowInv'
<1>1. KeepsData /\ NewReaders
  BY DEF KeepsData, NewReaders
<1>2. KeepsCmds
  BY DEF KeepsCmds, StillWaits
<1>3. KeepsPipes
  BY DEF KeepsPipes
<1> QED BY <1>1, <1>2, <1>3, FlowServes

LEMMA FlowInit ==
  ASSUME Init
  PROVE  FlowInv
<1>1. /\ \A u \in User : cmds[u] = << >>
      /\ \A a, b \in User : user_pipe[a][b] = NoPair
      /\ procs = {} /\ pc = "read"
  BY DEF Init
<1>2. \A u \in User : DOMAIN cmds[u] = {}
  BY <1>1
<1> QED BY <1>1, <1>2 DEF FlowInv, InHeld, NoReader, FlowCmds, FlowPipes, Before

LEMMA FlowStart ==
  ASSUME Typed, PlaceInv, PlaceInv', FlowInv, NEW u \in User, NEW l, GoodLine(l), Start(u, l)
  PROVE  FlowInv'
<1>1. /\ pc = "read" /\ cur = None /\ pc' = "stage" /\ cur' = u /\ stop_pipe' = TRUE
      /\ UNCHANGED <<user_pipe, procs, made>>
      /\ data' = [p \in Pipes |-> IF p \in FreePipes THEN {} ELSE data[p]]
  BY StartNames DEF Typed, Progress
<1>2. KeepsTab
  <2>1. \A f \in DOMAIN tab : tab'[f] = tab[f]
    BY StartTab
  <2> QED BY <2>1 DEF KeepsTab
<1>3. KeepsData /\ NewReaders /\ KeepsPipes
  BY <1>1 DEF KeepsData, NewReaders, KeepsPipes
<1>4. PICK K, M : K = Len(cmds[u]) /\ M = Len(split_by_pipe(l))
  OBVIOUS
<1>5. /\ my' = cmds'[u] /\ K \in Nat /\ M \in Nat
      /\ DOMAIN cmds[u] = 1..K /\ DOMAIN cmds'[u] = 1..(K + M)
      /\ \A k \in 1..K : cmds'[u][k] = cmds[u][k]
      /\ \A k \in 1..M : NewCmdOK(u, l, k) /\ cmds'[u][K + k] = NewCmds(u, l)[k]
      /\ \A v \in User : v # u => cmds'[v] = cmds[v]
  <2>1. my' = cmds'[u]
    BY <1>1 DEF my
  <2>2. /\ cmds[u] \in Seq(Cmd) /\ Len(cmds[u]) \in Nat /\ Len(split_by_pipe(l)) \in Nat
        /\ my' \in Seq(Cmd)
        /\ Len(my') = Len(cmds[u]) + Len(split_by_pipe(l))
        /\ \A k \in 1..Len(cmds[u]) : my'[k] = cmds[u][k]
        /\ \A k \in 1..Len(split_by_pipe(l)) : my'[Len(cmds[u]) + k] = NewCmds(u, l)[k]
        /\ \A v \in User : v # u => cmds'[v] = cmds[v]
        /\ \A m \in 1..Len(split_by_pipe(l)) : NewCmdOK(u, l, m)
    BY StartCmds
  <2>3. DOMAIN cmds[u] = 1..Len(cmds[u]) /\ DOMAIN my' = 1..(Len(cmds[u]) + Len(split_by_pipe(l)))
    BY <2>2, LenProperties
  <2> QED BY <1>4, <2>1, <2>2, <2>3
<1>6. ASSUME NEW k \in DOMAIN cmds'[u], k \notin 1..K
      PROVE  /\ k - K \in 1..M /\ k = K + (k - K) /\ K \in Nat /\ ~cmds'[u][k].exe
             /\ cmds'[u][k].type = split_by_pipe(l)[k - K].type /\ cmds'[u][k].wr = split_by_pipe(l)[k - K].wr
  <2>1. k - K \in 1..M /\ K + (k - K) = k
    BY <1>5, <1>6
  <2>2. cmds'[u][k] = NewCmds(u, l)[k - K] /\ NewCmdOK(u, l, k - K)
    BY <1>5, <2>1
  <2> QED BY <1>5, <2>1, <2>2 DEF NewCmdOK
<1>7. KeepsCmds
  <2> SUFFICES ASSUME NEW v \in User, NEW k \in DOMAIN cmds'[v], cmds'[v][k].exe, ~cmds'[v][k].piped
               PROVE  StillWaits(v, k)
    BY DEF KeepsCmds
  <2>1. k \in DOMAIN cmds[v] /\ cmds'[v][k] = cmds[v][k]
    BY <1>5, <1>6
  <2> QED BY <2>1 DEF StillWaits
<1>8. Before'
  <2> SUFFICES ASSUME NEW k \in DOMAIN my', my'[k].type = "F_RED_PIPE" PROVE k > 1 /\ my'[k].wr = -1
    BY <1>1 DEF Before
  <2>1. k \notin 1..K
    <3> SUFFICES ASSUME k \in 1..K PROVE FALSE
      OBVIOUS
    <3>1. u # cur
      BY <1>1, BoundAssumption
    <3>2. cmds[u][k].type = "NUM_PIPE"
      BY <1>5, <3>1 DEF Typed, Progress
    <3> QED BY <1>5, <3>2
  <2>2. /\ k - K \in 1..M /\ k = K + (k - K) /\ K \in Nat
        /\ split_by_pipe(l)[k - K].type = "F_RED_PIPE" /\ my'[k].wr = split_by_pipe(l)[k - K].wr
    BY <1>5, <1>6, <2>1
  <2>3. k - K \in 1..Cardinality(EndsIn(l))
    BY <1>4, <2>2, SplitParts
  <2>4. k - K > 1 /\ split_by_pipe(l)[k - K].wr = -1
    BY <2>2, <2>3, MadeFile
  <2> QED BY <2>2, <2>4
<1> QED BY <1>2, <1>3, <1>7, <1>8, FlowServes

LEMMA FlowStageFails ==
  ASSUME Typed, PlaceInv, PlaceInv', FlowInv, StageFails
  PROVE  FlowInv'
<1>1. /\ AtStage /\ pc' = "waitpre" /\ cur' = cur
      /\ UNCHANGED <<user_pipe, tab, made, data, procs>>
      /\ cmds' = [cmds EXCEPT ![cur] = Mark(reduce_num_pipes(my), i, TRUE)]
  BY DEF StageFails, Collected, line, ghost, Mark, my
<1>2. /\ cur \in User /\ i \in 1..Len(my) /\ Len(my) \in Nat
      /\ my' \in Seq(Cmd) /\ Len(my') = Len(my)
      /\ \A v \in User : v # cur => cmds'[v] = cmds[v]
      /\ \A k \in 1..Len(my) :
           /\ Kept(my'[k], my[k])
           /\ (k # i => my'[k].piped = my[k].piped /\ my'[k].exe = my[k].exe)
      /\ my'[i].piped
  BY <1>1, StageCmds
<1>3. DOMAIN my = 1..Len(my) /\ DOMAIN my' = 1..Len(my) /\ pc = "stage" /\ my' = cmds'[cur] /\ my = cmds[cur]
  BY <1>1, <1>2, CurUser, LenProperties DEF Typed, AtStage, my
<1>4. KeepsCmds
  <2> SUFFICES ASSUME NEW v \in User, NEW k \in DOMAIN cmds'[v], cmds'[v][k].exe, ~cmds'[v][k].piped
               PROVE  StillWaits(v, k)
    BY DEF KeepsCmds
  <2>1. CASE v # cur
    BY <1>2, <2>1 DEF StillWaits
  <2>2. CASE v = cur
    <3>1. k \in 1..Len(my) /\ k # i
      BY <1>2, <1>3, <2>2
    <3>2. /\ Kept(my'[k], my[k]) /\ my[k].exe /\ ~my[k].piped
      BY <1>2, <1>3, <2>2, <3>1
    <3> QED BY <1>3, <2>2, <3>1, <3>2 DEF StillWaits, Kept
  <2> QED BY <2>1, <2>2
<1>5. Before'
  <2>1. \A k \in 1..Len(my) : my'[k].type = my[k].type /\ my'[k].wr = my[k].wr
    BY <1>2 DEF Kept
  <2> QED BY <1>1, <1>3, <2>1 DEF FlowInv, Before
<1>6. KeepsTab /\ KeepsData /\ NewReaders /\ KeepsPipes
  BY <1>1 DEF KeepsTab, KeepsData, NewReaders, KeepsPipes
<1> QED BY <1>4, <1>5, <1>6, FlowServes

LEMMA FlowReap ==
  ASSUME Typed, PlaceInv, PlaceInv', FlowInv, Reap
  PROVE  FlowInv'
<1>1. /\ tab' = Close(tab, scratch) /\ pc' = "read"
      /\ UNCHANGED <<user_pipe, made, data, procs>>
  BY ReapNames DEF ghost
<1>2. KeepsTab
  <2>1. /\ DOMAIN Close(tab, scratch) = DOMAIN tab \ scratch
        /\ \A f \in DOMAIN tab \ scratch : Close(tab, scratch)[f] = tab[f]
    BY CloseParts
  <2> QED BY <1>1, <2>1 DEF KeepsTab
<1>3. KeepsCmds
  <2> SUFFICES ASSUME NEW v \in User, NEW n \in DOMAIN cmds'[v], cmds'[v][n].exe, ~cmds'[v][n].piped
               PROVE  StillWaits(v, n)
    BY DEF KeepsCmds
  <2>1. CASE v # cur
    <3>1. cmds'[v] = cmds[v]
      BY <2>1, ReapParts
    <3> QED BY <3>1 DEF StillWaits
  <2>2. CASE v = cur
    <3>1. PICK k : k = InOrder(Remaining)[n]
      OBVIOUS
    <3>2. n \in 1..Cardinality(Remaining)
      BY <2>2, ReapParts
    <3>3. k \in 1..Len(my) /\ ~my[k].piped /\ my[k].exe /\ Kept(cmds'[cur][n], my[k])
      BY <3>1, <3>2, ReapParts
    <3>4. DOMAIN my = 1..Len(my) /\ my = cmds[cur]
      BY ReapParts, LenProperties DEF my
    <3> QED BY <2>2, <3>3, <3>4 DEF StillWaits, Kept
  <2> QED BY <2>1, <2>2
<1>4. KeepsData /\ NewReaders /\ KeepsPipes
  BY <1>1 DEF KeepsData, NewReaders, KeepsPipes
<1>5. Before'
  BY <1>1 DEF Before
<1> QED BY <1>2, <1>3, <1>4, <1>5, FlowServes

(* A number that is open, and not the one a user pipe is kept on, does not  *)
(* stand for that user pipe.                                                *)
LEMMA ReadsOther ==
  ASSUME PlaceInv, NEW a \in User, NEW b \in User, user_pipe[a][b] # NoPair,
         NEW f, f # user_pipe[a][b][1], NEW t, \A g \in DOMAIN t : g \in DOMAIN tab => t[g] = tab[g],
         f \in DOMAIN t => f \in DOMAIN tab
  PROVE  At(t, f) # tab[user_pipe[a][b][1]]
<1>1. PICK q \in Pipes : user_pipe[a][b][1] \in DOMAIN tab /\ tab[user_pipe[a][b][1]] = <<q, "r">>
  BY DEF PlaceInv, OpenPipes, ReadIn
<1>2. <<q, "r">> # Other
  BY BoundAssumption DEF Other
<1>3. CASE f \in DOMAIN t
  <2>1. At(t, f) = tab[f] /\ f \in DOMAIN tab
    BY <1>3 DEF At
  <2> QED BY <1>1, <1>2, <2>1 DEF PlaceInv, OneEach
<1>4. CASE f \notin DOMAIN t
  BY <1>1, <1>2, <1>4 DEF At
<1> QED BY <1>3, <1>4

LEMMA FlowCollect ==
  ASSUME Typed, PlaceInv, PlaceInv', FlowInv, Collect
  PROVE  FlowInv'
<1>1. /\ AtStage /\ pc = "stage" /\ pc # "read" /\ cur' = cur
      /\ UNCHANGED <<cur, i, stop_pipe, user_pipe, data, made>>
  BY CollectNames DEF AtStage, ghost
<1>2. PICK j \in 1..(i - 1) :
        /\ Due(cur, j)
        /\ \/ pc' = "killed" /\ UNCHANGED <<cmds, tab, procs>>
           \/ /\ pc' = pc
              /\ procs' = procs \cup {Collector(j)}
              /\ cmds' = [cmds EXCEPT ![cur] = [@ EXCEPT ![j].piped = TRUE]]
              /\ tab' = Close(tab, Both(my[j].fd))
  BY CollectNames
<1>3. CASE pc' = "killed" /\ UNCHANGED <<cmds, tab, procs>>
  <2>1. my' = my
    BY <1>1, <1>3 DEF my
  <2>2. Before' /\ KeepsTab
    BY <1>1, <1>3, <2>1 DEF FlowInv, Before, KeepsTab
  <2> QED BY <1>1, <1>3, <2>2, FlowSame
<1>4. CASE /\ pc' = pc
           /\ procs' = procs \cup {Collector(j)}
           /\ cmds' = [cmds EXCEPT ![cur] = [@ EXCEPT ![j].piped = TRUE]]
           /\ tab' = Close(tab, Both(my[j].fd))
  <2>1. /\ cur \in User /\ i \in 1..Len(my) /\ Len(my) \in Nat /\ DOMAIN my = 1..Len(my)
        /\ my' = cmds'[cur] /\ my = cmds[cur]
    BY <1>1, CurUser DEF Typed, my
  <2>2. /\ my' \in Seq(Cmd) /\ Len(my') = Len(my)
        /\ \A v \in User : v # cur => cmds'[v] = cmds[v]
        /\ \A k \in 1..Len(my) : Kept(my'[k], my[k]) /\ (k # j => my'[k] = my[k])
        /\ my'[j].piped
    BY <1>1, <1>4, CollectCmds
  <2>3. DOMAIN my' = 1..Len(my) /\ j \in DOMAIN my
    BY <2>1, <2>2, LenProperties
  <2>4. DOMAIN tab' \subseteq DOMAIN tab /\ \A f \in DOMAIN tab' : tab'[f] = tab[f]
    <3> DEFINE F == Both(my[j].fd)
    <3> HIDE DEF F
    <3>1. DOMAIN Close(tab, F) = DOMAIN tab \ F /\ \A f \in DOMAIN tab \ F : Close(tab, F)[f] = tab[f]
      BY CloseParts
    <3>2. tab' = Close(tab, F)
      BY <1>4 DEF F
    <3> QED BY <3>1, <3>2
  <2>5. KeepsTab /\ KeepsData
    BY <1>1, <1>4, <2>4 DEF KeepsTab, KeepsData
  <2>6. KeepsPipes
    BY <1>1 DEF KeepsPipes
  <2>7. KeepsCmds
    <3> SUFFICES ASSUME NEW v \in User, NEW k \in DOMAIN cmds'[v], cmds'[v][k].exe, ~cmds'[v][k].piped
                 PROVE  StillWaits(v, k)
      BY DEF KeepsCmds
    <3>1. CASE v # cur
      BY <2>2, <3>1 DEF StillWaits
    <3>2. CASE v = cur
      <4>1. k \in 1..Len(my) /\ k # j
        BY <2>1, <2>2, <2>3, <3>2
      <4> QED BY <2>1, <2>2, <3>2, <4>1 DEF StillWaits
    <3> QED BY <3>1, <3>2
  <2>8. Collector(j).in = At(tab, my[j].fd[1]) /\ Collector(j).in \in Collector(j).held
    BY DEF Collector
  <2>9. NewReaders
    <3> SUFFICES ASSUME NEW a \in User, NEW b \in User, user_pipe'[a][b] # NoPair
                 PROVE  Collector(j).in # tab'[user_pipe'[a][b][1]]
      BY <1>4, <2>8 DEF NewReaders
    <3>1. my[j].fd[1] # user_pipe[a][b][1]
      BY <1>1, <2>1, <2>3, Separate DEF PlaceInv
    <3>2. At(tab, my[j].fd[1]) # tab[user_pipe[a][b][1]]
      BY <1>1, <3>1, ReadsOther
    <3>3. user_pipe[a][b][1] \in DOMAIN tab'
      BY <1>1 DEF PlaceInv, OpenPipes, ReadIn
    <3> QED BY <1>1, <2>4, <2>8, <3>2, <3>3
  <2>10. Before'
    <3>1. \A k \in 1..Len(my) : my'[k].type = my[k].type /\ my'[k].wr = my[k].wr
      BY <2>2 DEF Kept
    <3> QED BY <1>1, <1>4, <2>1, <2>3, <3>1 DEF FlowInv, Before
  <2> QED BY <2>5, <2>6, <2>7, <2>9, <2>10, FlowServes
<1> QED BY <1>2, <1>3, <1>4

(* Where a forked stage takes its input from, and what it writes to.        *)
From(up) == CASE C.rd # -1               -> up[C.rd][cur][1]
              [] C.rd = -1 /\ stop_pipe  -> temp[temp_id + 1][1]
              [] C.rd = -1 /\ ~stop_pipe -> my[i - 1].fd[1]
To(up)   == CASE C.wr # -1                          -> {up[cur][C.wr][2]}
              [] C.wr = -1 /\ C.type = "NO_PIPE"    -> {}
              [] C.wr = -1 /\ C.type # "NO_PIPE"    -> {C.fd[2]}
Unused   == {my[j].fd[1] : j \in DOMAIN my \ {i - 1}} \cup {my[j].fd[2] : j \in DOMAIN my \ {i}}
Own      == {From(ForkUp)} \cup Both(temp[temp_id + 1])

LEMMA ChildNames ==
  /\ C.type # "F_RED_PIPE" =>
       /\ ForkChild.in = At(Close(ForkTab, Unused), From(ForkUp))
       /\ ForkChild.out = IF To(ForkUp) = {} THEN Other
                          ELSE At(Close(Close(ForkTab, Unused), Own), Max(To(ForkUp)))
       /\ ForkChild.in \in ForkChild.held
  /\ C.type = "F_RED_PIPE" =>
       /\ \E F : ForkChild.in = At(Close(Close(ForkTab, Unused), F), my[i - 1].fd[1])
       /\ ForkChild.in \in ForkChild.held
<1> DEFINE t0 == close_unused_pipe_in_child(ForkTab)
<1>1. t0 = Close(ForkTab, Unused)
  BY DEF close_unused_pipe_in_child, Unused
<1>2. ForkChild = IF C.type = "F_RED_PIPE" THEN exe_f_red(t0) ELSE exe_command(t0, ForkUp)
  BY DEF ForkChild, Child
<1> HIDE DEF t0
<1>3. /\ exe_command(t0, ForkUp).in = At(t0, From(ForkUp))
      /\ exe_command(t0, ForkUp).out = IF To(ForkUp) = {} THEN Other ELSE At(Close(t0, Own), Max(To(ForkUp)))
      /\ exe_command(t0, ForkUp).in \in exe_command(t0, ForkUp).held
  BY DEF exe_command, From, To, Own
<1>4. /\ exe_f_red(t0).in = At(Close(t0, Both(temp[temp_id + 1]) \cup Both(C.fd)), my[i - 1].fd[1])
      /\ exe_f_red(t0).in \in exe_f_red(t0).held
  BY DEF exe_f_red
<1>5. C.type = "F_RED_PIPE" => \E F : ForkChild.in = At(Close(Close(ForkTab, Unused), F), my[i - 1].fd[1])
  BY <1>1, <1>2, <1>4
<1> QED BY <1>1, <1>2, <1>3, <1>4, <1>5

LEMMA ForkPipes ==
  ASSUME Typed, PlaceInv, PlaceInv', StageForks
  PROVE  /\ \A c, d \in User : user_pipe'[c][d] # NoPair =>
              \/ user_pipe'[c][d] = user_pipe[c][d] /\ ~(c = C.rd /\ d = cur) /\ ~(C.wr # -1 /\ c = cur /\ d = C.wr)
              \/ C.wr # -1 /\ c = cur /\ d = C.wr
         /\ C.wr # -1 => \E a, b \in FreeFd : \E q \in FreePipes :
              /\ user_pipe'[cur][C.wr] = <<a, b>> /\ ForkUp[cur][C.wr] = <<a, b>>
              /\ b \in DOMAIN ForkTab /\ ForkTab[b] = <<q, "w">> /\ tab'[a] = <<q, "r">>
         /\ C.rd # -1 => ForkUp[C.rd][cur] = user_pipe[C.rd][cur]
         /\ KeepsTab
<1>1. /\ cur \in User /\ (C.rd # -1 => C.rd \in User /\ user_pipe[C.rd][cur] # NoPair)
      /\ (C.wr # -1 => C.wr \in User /\ user_pipe[cur][C.wr] = NoPair)
  BY ForkCmds
<1>2. /\ tab' = Close(ForkTab, ParentCloses(ForkUp))
      /\ user_pipe' = IF C.rd = -1 THEN ForkUp ELSE [ForkUp EXCEPT ![C.rd][cur] = NoPair]
      /\ AtStage /\ CanWrite /\ (C.wr # -1 => Room(2, 1))
  BY StageForksNames
<1>3. /\ \A f \in DOMAIN tab : f \in DOMAIN ForkTab /\ ForkTab[f] = tab[f]
      /\ C.wr = -1 => DOMAIN ForkTab = DOMAIN tab /\ ForkUp = user_pipe
      /\ C.wr # -1 => \E a, b \in FreeFd : \E q \in FreePipes :
           /\ a # b /\ DOMAIN ForkTab = DOMAIN tab \cup {a, b}
           /\ ForkTab[a] = <<q, "r">> /\ ForkTab[b] = <<q, "w">>
           /\ ForkUp = [user_pipe EXCEPT ![cur][C.wr] = <<a, b>>]
  BY <1>2, ForkTabParts
<1>4. user_pipe \in [User -> [User -> Pair]] /\ -1 \notin User
  BY UserAssumption DEF Typed, TypeInv
<1>5. DOMAIN tab' \subseteq DOMAIN ForkTab /\ \A f \in DOMAIN tab' : tab'[f] = ForkTab[f]
  <2>1. /\ DOMAIN Close(ForkTab, ParentCloses(ForkUp)) = DOMAIN ForkTab \ ParentCloses(ForkUp)
        /\ \A f \in DOMAIN ForkTab \ ParentCloses(ForkUp) :
             Close(ForkTab, ParentCloses(ForkUp))[f] = ForkTab[f]
    BY CloseParts
  <2> QED BY <1>2, <2>1
<1>6. KeepsTab
  BY <1>3, <1>5 DEF KeepsTab
<1>7. CASE C.wr = -1
  <2>1. ForkUp = user_pipe
    BY <1>3, <1>7
  <2>2. \A c, d \in User : user_pipe'[c][d] # NoPair => user_pipe'[c][d] = user_pipe[c][d] /\ ~(c = C.rd /\ d = cur)
    <3>1. CASE C.rd = -1
      BY <1>2, <1>4, <2>1, <3>1
    <3>2. CASE C.rd # -1
      <4>1. user_pipe' = [user_pipe EXCEPT ![C.rd][cur] = NoPair]
        BY <1>2, <2>1, <3>2
      <4> QED BY <1>1, <1>4, <3>2, <4>1
    <3> QED BY <3>1, <3>2
  <2> QED BY <1>6, <1>7, <2>1, <2>2
<1>8. CASE C.wr # -1
  <2>1. PICK a \in FreeFd, b \in FreeFd, q \in FreePipes :
          /\ DOMAIN ForkTab = DOMAIN tab \cup {a, b}
          /\ ForkTab[a] = <<q, "r">> /\ ForkTab[b] = <<q, "w">>
          /\ ForkUp = [user_pipe EXCEPT ![cur][C.wr] = <<a, b>>]
    BY <1>3, <1>8
  <2>2. \A c, d \in User : ForkUp[c][d] = IF c = cur /\ d = C.wr THEN <<a, b>> ELSE user_pipe[c][d]
    BY <1>1, <1>4, <1>8, <2>1
  <2>3. ForkUp \in [User -> [User -> {<<a, b>>} \cup Pair]]
    BY <1>1, <1>4, <1>8, <2>1
  <2>4. \A c, d \in User : user_pipe'[c][d] = IF c = C.rd /\ d = cur THEN NoPair ELSE ForkUp[c][d]
    <3>1. CASE C.rd = -1
      BY <1>2, <1>4, <3>1
    <3>2. CASE C.rd # -1
      <4>1. user_pipe' = [ForkUp EXCEPT ![C.rd][cur] = NoPair]
        BY <1>2, <3>2
      <4> QED BY <1>1, <2>3, <3>2, <4>1
    <3> QED BY <3>1, <3>2
  <2>5. ~(C.rd = cur /\ cur = C.wr)
    BY <1>1, <1>4
  <2>6. C.rd # -1 => ForkUp[C.rd][cur] = user_pipe[C.rd][cur]
    BY <1>1, <2>2, <2>5
  <2>7. user_pipe'[cur][C.wr] = <<a, b>> /\ ForkUp[cur][C.wr] = <<a, b>>
    BY <1>1, <1>8, <2>2, <2>4, <2>5
  <2>8. tab'[a] = <<q, "r">>
    <3>1. <<a, b>> # NoPair
      <4>1. a \in Nat
        BY FreeParts
      <4> QED BY <4>1 DEF NoPair
    <3>2. PICK d \in User : d = C.wr
      BY <1>1, <1>8
    <3>3. PICK c \in User : c = cur
      BY <1>1
    <3>4. user_pipe'[c][d] # NoPair /\ user_pipe'[c][d][1] = a
      <4>1. user_pipe'[c][d] = <<a, b>>
        BY <2>7, <3>2, <3>3, Zenon
      <4> QED BY <3>1, <4>1
    <3>5. a \in DOMAIN tab'
      BY <3>4 DEF PlaceInv, OpenPipes, ReadIn
    <3> QED BY <1>5, <2>1, <3>5
  <2>9. \A c, d \in User : user_pipe'[c][d] # NoPair =>
              \/ user_pipe'[c][d] = user_pipe[c][d] /\ ~(c = C.rd /\ d = cur) /\ ~(C.wr # -1 /\ c = cur /\ d = C.wr)
              \/ C.wr # -1 /\ c = cur /\ d = C.wr
    BY <1>8, <2>2, <2>4
  <2> QED BY <1>6, <1>8, <2>1, <2>6, <2>7, <2>8, <2>9
<1> QED BY <1>7, <1>8

(* The input of a stage is remembered: by the command before it, as a       *)
(* temporary pipe, or as the user pipe it reads.                            *)
LEMMA FromParts ==
  ASSUME Typed, PlaceInv, PlaceInv', FlowInv, StageForks, NEW f,
         f = IF C.type = "F_RED_PIPE" THEN my[i - 1].fd[1] ELSE From(ForkUp)
  PROVE  /\ \E n : Owns(n, f)
         /\ \A a, b \in User : user_pipe[a][b] # NoPair /\ ~(a = C.rd /\ b = cur) => f # user_pipe[a][b][1]
         /\ f # C.fd[2]
<1>1. /\ pc = "stage" /\ cur \in User /\ i \in 1..Len(my) /\ Len(my) \in Nat /\ DOMAIN my = 1..Len(my)
      /\ my = cmds[cur] /\ C = my[i] /\ temp_id + 1 \in DOMAIN temp
      /\ (C.rd # -1 => C.rd \in User /\ user_pipe[C.rd][cur] # NoPair)
  BY ForkCmds
<1>2. Distinct
  BY DEF PlaceInv
<1>3. CASE f = my[i - 1].fd[1] /\ i > 1
  <2>1. i - 1 \in DOMAIN cmds[cur] /\ i \in DOMAIN cmds[cur]
    BY <1>1, <1>3
  <2>2. \E n : Owns(n, f)
    BY <1>1, <1>3, <2>1, OwnsAll
  <2>3. \A a, b \in User : user_pipe[a][b] # NoPair => f # user_pipe[a][b][1]
    BY <1>1, <1>2, <1>3, <2>1, Separate
  <2>4. f # C.fd[2]
    <3>1. cmds[cur][i - 1].fd[1] # cmds[cur][i].fd[2]
      BY <1>1, <1>2, <2>1, Separate
    <3> QED BY <1>1, <1>3, <3>1
  <2> QED BY <2>2, <2>3, <2>4
<1>4. CASE f = temp[temp_id + 1][1]
  <2>1. \E n : Owns(n, f)
    BY <1>1, <1>4, OwnsAll
  <2>2. \A a, b \in User : user_pipe[a][b] # NoPair => f # user_pipe[a][b][1]
    BY <1>1, <1>2, <1>4, Separate
  <2>3. f # C.fd[2]
    BY <1>1, <1>2, <1>4, Separate
  <2> QED BY <2>1, <2>2, <2>3
<1>5. CASE C.rd # -1 /\ f = user_pipe[C.rd][cur][1]
  <2>1. \E n : Owns(n, f)
    BY <1>1, <1>5, OwnsAll
  <2>2. \A a, b \in User : user_pipe[a][b] # NoPair /\ ~(a = C.rd /\ b = cur) => f # user_pipe[a][b][1]
    BY <1>1, <1>2, <1>5, Separate
  <2>3. f # C.fd[2]
    BY <1>1, <1>2, <1>5, Separate
  <2> QED BY <2>1, <2>2, <2>3
<1>6. C.type = "F_RED_PIPE" => i > 1
  BY <1>1 DEF FlowInv, Before
<1>7. stop_pipe \in BOOLEAN
  BY DEF Typed, TypeInv
<1>8. CASE C.type # "F_RED_PIPE" /\ C.rd # -1
  <2>1. From(ForkUp) = ForkUp[C.rd][cur][1]
    BY <1>8 DEF From
  <2>2. ForkUp[C.rd][cur] = user_pipe[C.rd][cur]
    BY <1>8, ForkPipes
  <2> QED BY <1>5, <1>8, <2>1, <2>2
<1>9. CASE C.type # "F_RED_PIPE" /\ C.rd = -1 /\ stop_pipe = TRUE
  <2>1. From(ForkUp) = temp[temp_id + 1][1]
    BY <1>9, Zenon DEF From
  <2> QED BY <1>4, <1>9, <2>1
<1>10. CASE C.type # "F_RED_PIPE" /\ C.rd = -1 /\ stop_pipe = FALSE
  <2>1. From(ForkUp) = my[i - 1].fd[1]
    BY <1>10, Zenon DEF From
  <2>2. i > 1
    BY <1>1, <1>10 DEF FlowInv, Before
  <2> QED BY <1>3, <1>10, <2>1, <2>2
<1>11. CASE C.type = "F_RED_PIPE"
  BY <1>3, <1>6, <1>11
<1> QED BY <1>7, <1>8, <1>9, <1>10, <1>11

LEMMA OneLargest ==
  ASSUME NEW x \in Nat
  PROVE  Max({x}) = x
<1>1. Max({x}) \in {x}
  BY FS_Singleton, LargestOf
<1> QED BY <1>1

LEMMA MinOf ==
  ASSUME NEW S \in SUBSET Nat, S # {}
  PROVE  Min(S) \in S
<1>1. \E x \in S : \A y \in S : x <= y
  BY SmallestOf
<1> QED BY <1>1 DEF Min

(* Nothing a stage closes is its own output: the end of its number pipe, or *)
(* of the user pipe it makes.                                               *)
LEMMA ForkOut ==
  ASSUME Typed, PlaceInv, PlaceInv', FlowInv, StageForks,
         NEW x, C.wr # -1 => x = ForkUp[cur][C.wr][2],
         C.wr = -1 => C.type = "NUM_PIPE" /\ x = C.fd[2]
  PROVE  C.type # "F_RED_PIPE" /\ ForkChild.out = ForkTab[x]
<1>1. /\ pc = "stage" /\ cur \in User /\ i \in 1..Len(my) /\ Len(my) \in Nat /\ DOMAIN my = 1..Len(my)
      /\ my = cmds[cur] /\ C = my[i] /\ temp_id + 1 \in DOMAIN temp
  BY ForkCmds
<1>2. C.type # "F_RED_PIPE"
  BY <1>1 DEF FlowInv, Before
<1>3. PICK g : g = From(ForkUp)
  OBVIOUS
<1>4. (\E n : Owns(n, g)) /\ g # C.fd[2]
  BY <1>2, <1>3, FromParts
<1>5. To(ForkUp) = {x}
  <2>1. C.wr = -1 => C.type # "NO_PIPE"
    OBVIOUS
  <2> QED BY <2>1 DEF To
<1>6. x \in DOMAIN ForkTab /\ x \in Nat /\ x \notin Unused /\ x \notin Own
  <2>1. CASE C.wr = -1
    <3>1. ~C.piped
      BY <1>1 DEF PlaceInv, Unread
    <3>2. OpenIn(tab, C.fd)
      BY <1>1, <3>1 DEF PlaceInv, OpenCmds
    <3>3. x \in DOMAIN tab
      BY <2>1, <3>2 DEF OpenIn
    <3>4. DOMAIN tab \subseteq Nat
      <4>1. 0..MaxFd \subseteq Nat
        OBVIOUS
      <4> QED BY <4>1 DEF Typed, TypeInv, TabOK
    <3>5. AtStage /\ CanWrite
      BY StageForksNames
    <3>6. x \in DOMAIN ForkTab
      BY <2>1, <3>3, <3>5, ForkTabParts
    <3>7. \A j \in DOMAIN my : my[j].fd[1] # C.fd[2] /\ (j # i => my[j].fd[2] # C.fd[2])
      BY <1>1, Separate DEF PlaceInv
    <3>8. temp[temp_id + 1][1] # C.fd[2] /\ temp[temp_id + 1][2] # C.fd[2]
      BY <1>1, Separate DEF PlaceInv
    <3>9. x \notin Unused
      BY <2>1, <3>7 DEF Unused
    <3>10. x \notin Own
      BY <1>3, <1>4, <2>1, <3>8 DEF Own, Both
    <3> QED BY <3>3, <3>4, <3>6, <3>9, <3>10
  <2>2. CASE C.wr # -1
    <3>1. PICK b \in FreeFd : ForkUp[cur][C.wr][2] = b /\ b \in DOMAIN ForkTab
      <4>1. PICK a \in FreeFd, b \in FreeFd : ForkUp[cur][C.wr] = <<a, b>> /\ b \in DOMAIN ForkTab
        BY <2>2, ForkPipes
      <4> QED BY <4>1
    <3>2. x = b /\ x \in Nat /\ x \notin DOMAIN tab
      BY <2>2, <3>1, FreeParts DEF FreeFd
    <3>3. \A n, f : Owns(n, f) => f \in DOMAIN tab
      <4> SUFFICES ASSUME NEW n, NEW f, Owns(n, f) PROVE f \in DOMAIN tab
        OBVIOUS
      <4>1. i \in DOMAIN my /\ i >= i /\ my[i].wr # -1
        BY <1>1, <2>2
      <4> QED BY <1>1, <4>1, WholeOpen
    <3>4. \A j \in DOMAIN my : my[j].fd[1] \in DOMAIN tab /\ my[j].fd[2] \in DOMAIN tab
      BY <1>1, <3>3, OwnsAll
    <3>5. temp[temp_id + 1][1] \in DOMAIN tab /\ temp[temp_id + 1][2] \in DOMAIN tab
      BY <1>1, <3>3, OwnsAll
    <3>6. x \notin Unused
      BY <3>2, <3>4 DEF Unused
    <3>7. x \notin Own
      BY <1>3, <1>4, <3>2, <3>3, <3>5 DEF Own, Both
    <3> QED BY <3>1, <3>2, <3>6, <3>7
  <2> QED BY <2>1, <2>2
<1>7. ForkChild.out = At(Close(Close(ForkTab, Unused), Own), x)
  <2>1. Max({x}) = x
    BY <1>6, OneLargest
  <2>2. ForkChild.out = IF To(ForkUp) = {} THEN Other
                        ELSE At(Close(Close(ForkTab, Unused), Own), Max(To(ForkUp)))
    BY <1>2, ChildNames
  <2> QED BY <1>5, <2>1, <2>2
<1>8. At(Close(Close(ForkTab, Unused), Own), x) = ForkTab[x]
  <2>1. PICK U, F, s : U = Unused /\ F = Own /\ s = ForkTab
    OBVIOUS
  <2>2. x \in DOMAIN s /\ x \notin U /\ x \notin F
    BY <1>6, <2>1
  <2>3. DOMAIN Close(s, U) = DOMAIN s \ U /\ \A h \in DOMAIN s \ U : Close(s, U)[h] = s[h]
    BY CloseParts
  <2>4. PICK t : t = Close(s, U)
    OBVIOUS
  <2>5. DOMAIN Close(t, F) = DOMAIN t \ F /\ \A h \in DOMAIN t \ F : Close(t, F)[h] = t[h]
    BY CloseParts
  <2>6. x \in DOMAIN t /\ t[x] = s[x]
    BY <2>2, <2>3, <2>4
  <2>7. x \in DOMAIN Close(t, F) /\ Close(t, F)[x] = s[x]
    BY <2>2, <2>5, <2>6
  <2>8. At(Close(t, F), x) = s[x]
    BY <2>7 DEF At
  <2> QED BY <2>1, <2>4, <2>8
<1> QED BY <1>2, <1>7, <1>8

(* A stage reads no user pipe that is kept after the fork.                  *)
LEMMA ForkIn ==
  ASSUME Typed, PlaceInv, PlaceInv', FlowInv, StageForks,
         NEW a \in User, NEW b \in User, user_pipe'[a][b] # NoPair
  PROVE  ForkChild.in # tab'[user_pipe'[a][b][1]]
<1>1. PICK f : f = IF C.type = "F_RED_PIPE" THEN my[i - 1].fd[1] ELSE From(ForkUp)
  OBVIOUS
<1>2. /\ \E n : Owns(n, f)
      /\ user_pipe[a][b] # NoPair /\ ~(a = C.rd /\ b = cur) => f # user_pipe[a][b][1]
  BY <1>1, FromParts
<1>3. PICK t : /\ ForkChild.in = At(t, f)
               /\ \A g \in DOMAIN t : g \in DOMAIN ForkTab /\ t[g] = ForkTab[g]
  <2>0. ASSUME NEW s, NEW F
        PROVE  \A g \in DOMAIN Close(s, F) : g \in DOMAIN s /\ Close(s, F)[g] = s[g]
    <3>1. DOMAIN Close(s, F) = DOMAIN s \ F /\ \A g \in DOMAIN s \ F : Close(s, F)[g] = s[g]
      BY CloseParts
    <3> QED BY <3>1
  <2>9. PICK s, U : s = ForkTab /\ U = Unused
    OBVIOUS
  <2>1. ASSUME NEW F
        PROVE  \A g \in DOMAIN Close(Close(ForkTab, Unused), F) :
                 g \in DOMAIN ForkTab /\ Close(Close(ForkTab, Unused), F)[g] = ForkTab[g]
    <3>1. PICK t : t = Close(s, U)
      OBVIOUS
    <3>2. \A g \in DOMAIN t : g \in DOMAIN s /\ t[g] = s[g]
      BY <2>0, <3>1
    <3>3. \A g \in DOMAIN Close(t, F) : g \in DOMAIN t /\ Close(t, F)[g] = t[g]
      BY <2>0
    <3>4. \A g \in DOMAIN Close(t, F) : g \in DOMAIN s /\ Close(t, F)[g] = s[g]
      BY <3>2, <3>3
    <3>5. Close(Close(ForkTab, Unused), F) = Close(t, F)
      BY <2>9, <3>1
    <3> QED BY <2>9, <3>4, <3>5
  <2>2. \A g \in DOMAIN Close(ForkTab, Unused) :
          g \in DOMAIN ForkTab /\ Close(ForkTab, Unused)[g] = ForkTab[g]
    <3>1. \A g \in DOMAIN Close(s, U) : g \in DOMAIN s /\ Close(s, U)[g] = s[g]
      BY <2>0
    <3> QED BY <2>9, <3>1
  <2>3. CASE C.type = "F_RED_PIPE"
    <3>1. PICK F : ForkChild.in = At(Close(Close(ForkTab, Unused), F), my[i - 1].fd[1])
      BY <2>3, ChildNames
    <3> QED BY <1>1, <2>1, <2>3, <3>1
  <2>4. CASE C.type # "F_RED_PIPE"
    <3>1. ForkChild.in = At(Close(ForkTab, Unused), From(ForkUp))
      BY <2>4, ChildNames
    <3> QED BY <1>1, <2>2, <2>4, <3>1
  <2> QED BY <2>3, <2>4
<1>4. /\ pc = "stage" /\ i \in 1..Len(my) /\ DOMAIN my = 1..Len(my) /\ C = my[i] /\ Len(my) \in Nat
  BY ForkCmds
<1>5. AtStage /\ CanWrite /\ (C.wr # -1 => Room(2, 1))
  BY StageForksNames
<1>6. f \in DOMAIN ForkTab => f \in DOMAIN tab /\ ForkTab[f] = tab[f]
  <2>1. CASE C.wr = -1
    BY <1>5, <2>1, ForkTabParts
  <2>2. CASE C.wr # -1
    <3>1. i \in DOMAIN my /\ i >= i /\ my[i].wr # -1
      BY <1>4, <2>2
    <3>2. f \in DOMAIN tab
      BY <1>2, <1>4, <3>1, WholeOpen
    <3> QED BY <1>5, <3>2, ForkTabParts
  <2> QED BY <2>1, <2>2
<1>7. f \in DOMAIN t => f \in DOMAIN tab /\ t[f] = tab[f]
  BY <1>3, <1>6
<1>8. CASE user_pipe'[a][b] = user_pipe[a][b] /\ ~(a = C.rd /\ b = cur)
  <2>1. PICK q \in Pipes : user_pipe[a][b][1] \in DOMAIN tab /\ tab[user_pipe[a][b][1]] = <<q, "r">>
    BY <1>8 DEF PlaceInv, OpenPipes, ReadIn
  <2>2. user_pipe'[a][b][1] \in DOMAIN tab' /\ KeepsTab
    BY ForkPipes DEF PlaceInv, OpenPipes, ReadIn
  <2>3. tab'[user_pipe'[a][b][1]] = <<q, "r">>
    BY <1>8, <2>1, <2>2 DEF KeepsTab
  <2>4. f # user_pipe[a][b][1]
    BY <1>2, <1>8
  <2>5. f \in DOMAIN tab => tab[f] # <<q, "r">>
    <3>1. <<q, "r">> # Other
      BY BoundAssumption DEF Other
    <3> QED BY <2>1, <2>4, <3>1 DEF PlaceInv, OneEach
  <2>6. Other # <<q, "r">>
    BY BoundAssumption DEF Other
  <2> QED BY <1>3, <1>7, <2>3, <2>5, <2>6 DEF At
<1>9. CASE C.wr # -1 /\ a = cur /\ b = C.wr
  <2>1. PICK x \in FreeFd, q \in FreePipes : user_pipe'[a][b][1] = x /\ tab'[x] = <<q, "r">>
    <3>1. PICK x \in FreeFd, y \in FreeFd, q \in FreePipes : user_pipe'[cur][C.wr] = <<x, y>> /\ tab'[x] = <<q, "r">>
      BY <1>9, ForkPipes
    <3>2. user_pipe'[a][b] = <<x, y>>
      BY <1>9, <3>1
    <3> QED BY <3>1, <3>2
  <2>2. f \in DOMAIN tab => tab[f] # <<q, "r">>
    BY FreeUnheld
  <2>3. Other # <<q, "r">>
    <3>1. q \in Pipes
      BY FreeParts
    <3> QED BY <3>1, BoundAssumption DEF Other
  <2> QED BY <1>3, <1>7, <2>1, <2>2, <2>3 DEF At
<1> QED BY <1>8, <1>9, ForkPipes

LEMMA FlowForks ==
  ASSUME Typed, PlaceInv, PlaceInv', FlowInv, StageForks
  PROVE  FlowInv'
<1>1. /\ pc = "stage" /\ pc' = "stage" /\ cur' = cur /\ cur \in User /\ i' = i + 1 /\ i \in 1..Len(my)
      /\ DOMAIN my = 1..Len(my) /\ DOMAIN my' = DOMAIN my /\ Len(my) \in Nat /\ my = cmds[cur]
      /\ \A k \in DOMAIN my : Kept(my'[k], my[k])
      /\ C = my[i] /\ my' = cmds'[cur]
      /\ (C.wr # -1 => C.wr \in User)
  BY ForkCmds
<1>2. /\ \A v \in User : v # cur => cmds'[v] = cmds[v]
      /\ \A k \in 1..Len(my) : k # i => my'[k].exe = my[k].exe /\ my'[k].piped = my[k].piped
      /\ (my'[i].piped <=> C.type # "NUM_PIPE")
  BY StageForksCmds
<1>3. /\ procs' = procs \cup {Forked} /\ Forked \in procs'
      /\ data' = IF ForkPairs = << >> THEN data ELSE [data EXCEPT ![Min(FreePipes)] = {}]
      /\ made' = IF C.wr = -1 THEN made ELSE [made EXCEPT ![cur][C.wr] = C.job]
      /\ (C.wr # -1 => Room(2, 1)) /\ AtStage /\ CanWrite
  BY StageForksNames
<1>4. Forked.id = C.job /\ Forked.kind = "stage" /\ Forked.out = ForkChild.out /\ Forked.in = ForkChild.in
      /\ Forked.held = ForkChild.held
  BY DEF Forked
<1>5. KeepsTab
  BY ForkPipes
<1>6. KeepsData
  <2>1. CASE C.wr = -1
    <3>1. ForkPairs = << >>
      BY <2>1 DEF ForkPairs
    <3> QED BY <1>3, <3>1 DEF KeepsData
  <2>2. CASE C.wr # -1
    <3>1. FreePipes # {}
      <4>1. Cardinality(FreePipes) >= 1
        BY <1>3, <2>2 DEF Room
      <4>2. Cardinality({}) = 0
        BY FS_EmptySet
      <4> QED BY <4>1, <4>2
    <3>2. Min(FreePipes) \in FreePipes
      BY <3>1, FreeParts, MinOf
    <3>3. data \in [Pipes -> SUBSET Job]
      BY DEF Typed, TypeInv
    <3>4. \A q \in Pipes \ FreePipes : data'[q] = data[q]
      BY <1>3, <3>2, <3>3
    <3> QED BY <1>3, <3>4 DEF KeepsData
  <2> QED BY <2>1, <2>2
<1>7. KeepsCmds
  <2> SUFFICES ASSUME NEW v \in User, NEW k \in DOMAIN cmds'[v], cmds'[v][k].exe, ~cmds'[v][k].piped
               PROVE  \/ StillWaits(v, k)
                      \/ \E p \in procs' : Writes(p, tab'[cmds'[v][k].fd[1]][1], cmds'[v][k].job)
    BY DEF KeepsCmds
  <2>1. CASE v # cur
    BY <1>2, <2>1 DEF StillWaits
  <2>2. CASE v = cur /\ k # i
    <3>1. k \in 1..Len(my)
      BY <1>1, <2>2
    <3>2. Kept(my'[k], my[k]) /\ my[k].exe /\ ~my[k].piped
      BY <1>1, <1>2, <2>2, <3>1
    <3> QED BY <1>1, <2>2, <3>1, <3>2 DEF StillWaits, Kept
  <2>3. CASE v = cur /\ k = i
    <3>1. C.type = "NUM_PIPE" /\ my'[i].fd = C.fd /\ my'[i].job = C.job
      BY <1>1, <1>2, <2>3 DEF Kept
    <3>2. ~C.piped
      BY <1>1 DEF PlaceInv, Unread
    <3>3. PICK q \in Pipes : /\ C.fd[1] \in DOMAIN tab /\ tab[C.fd[1]] = <<q, "r">>
                             /\ C.fd[2] \in DOMAIN tab /\ tab[C.fd[2]] = <<q, "w">>
      BY <1>1, <3>2 DEF PlaceInv, OpenCmds, OpenIn
    <3>4. C.wr = -1
      <4> SUFFICES ASSUME C.wr # -1 PROVE FALSE
        OBVIOUS
      <4>1. i \in DOMAIN my /\ i >= i /\ my[i].wr # -1
        BY <1>1
      <4> QED BY <1>1, <3>1, <4>1 DEF PlaceInv, Whole
    <3>5. ForkChild.out = ForkTab[C.fd[2]]
      BY <3>1, <3>4, ForkOut
    <3>6. ForkTab[C.fd[2]] = <<q, "w">>
      BY <1>3, <3>3, ForkTabParts
    <3>7. C.fd[1] \in DOMAIN tab'
      <4>1. cmds'[v][k].fd[1] \in DOMAIN tab'
        BY DEF PlaceInv, OpenCmds, OpenIn
      <4> QED BY <1>1, <2>3, <3>1, <4>1
    <3>8. tab'[C.fd[1]] = <<q, "r">>
      BY <1>5, <3>3, <3>7 DEF KeepsTab
    <3>9. tab'[cmds'[v][k].fd[1]][1] = q /\ cmds'[v][k].job = C.job
      BY <1>1, <2>3, <3>1, <3>8
    <3>10. Writes(Forked, q, C.job)
      BY <1>4, <3>5, <3>6 DEF Writes
    <3> QED BY <1>3, <3>9, <3>10
  <2> QED BY <2>1, <2>2, <2>3
<1>8. KeepsPipes
  <2> SUFFICES ASSUME NEW a \in User, NEW b \in User, user_pipe'[a][b] # NoPair
               PROVE  \/ user_pipe[a][b] = user_pipe'[a][b] /\ made'[a][b] = made[a][b]
                      \/ /\ \E p \in procs' : Writes(p, tab'[user_pipe'[a][b][1]][1], made'[a][b])
                         /\ \A p \in procs : p.in # tab'[user_pipe'[a][b][1]]
    BY DEF KeepsPipes
  <2>1. made \in [User -> [User -> Job \cup {None}]]
    BY DEF Typed, TypeInv
  <2>2. CASE user_pipe'[a][b] = user_pipe[a][b] /\ ~(C.wr # -1 /\ a = cur /\ b = C.wr)
    <3>1. made'[a][b] = made[a][b]
      <4>1. CASE C.wr = -1
        BY <1>3, <4>1
      <4>2. CASE C.wr # -1
        <5>1. made' = [made EXCEPT ![cur][C.wr] = C.job]
          BY <1>3, <4>2
        <5> QED BY <1>1, <2>1, <2>2, <4>2, <5>1
      <4> QED BY <4>1, <4>2
    <3> QED BY <2>2, <3>1
  <2>3. CASE C.wr # -1 /\ a = cur /\ b = C.wr
    <3>1. PICK x \in FreeFd, y \in FreeFd, q \in FreePipes :
            /\ user_pipe'[cur][C.wr] = <<x, y>> /\ ForkUp[cur][C.wr] = <<x, y>>
            /\ ForkTab[y] = <<q, "w">> /\ tab'[x] = <<q, "r">>
      BY <2>3, ForkPipes
    <3>2. user_pipe'[a][b] = <<x, y>>
      BY <2>3, <3>1
    <3>3. tab'[user_pipe'[a][b][1]] = <<q, "r">>
      BY <3>1, <3>2
    <3>4. y = ForkUp[cur][C.wr][2]
      BY <3>1
    <3>5. ForkChild.out = ForkTab[y]
      BY <2>3, <3>4, ForkOut
    <3>6. made'[a][b] = C.job
      <4>1. made' = [made EXCEPT ![cur][C.wr] = C.job]
        BY <1>3, <2>3
      <4> QED BY <1>1, <2>1, <2>3, <4>1
    <3>7. Writes(Forked, q, C.job)
      BY <1>4, <3>1, <3>5 DEF Writes
    <3>8. \A p \in procs : p.in # <<q, "r">>
      <4>1. \A p \in procs : p.in \in p.held
        BY DEF FlowInv, InHeld
      <4> QED BY <4>1, FreeUnheld
    <3>9. tab'[user_pipe'[a][b][1]][1] = q
      BY <3>3
    <3> QED BY <1>3, <3>3, <3>6, <3>7, <3>8, <3>9
  <2> QED BY <2>2, <2>3, ForkPipes
<1>9. NewReaders
  <2>1. Forked.in \in Forked.held
    BY <1>4, ChildNames
  <2>2. \A a, b \in User : user_pipe'[a][b] # NoPair => Forked.in # tab'[user_pipe'[a][b][1]]
    BY <1>4, ForkIn
  <2> QED BY <1>3, <2>1, <2>2 DEF NewReaders
<1>10. Before'
  <2>1. \A k \in 1..Len(my) : my'[k].type = my[k].type /\ my'[k].wr = my[k].wr
    BY <1>1 DEF Kept
  <2>2. i' > 1
    BY <1>1
  <2> QED BY <1>1, <2>1, <2>2 DEF FlowInv, Before
<1> QED BY <1>5, <1>6, <1>7, <1>8, <1>9, <1>10, FlowServes

LEMMA FlowStep ==
  ASSUME ~Mixed, UnmixedLines, Typed, PlaceInv, FlowInv, [Next]_vars
  PROVE  FlowInv'
<1>1. \A u \in User : \A l \in Inputs[u] : GoodLine(l)
  BY InputAssumption DEF GoodLine
<1>2. PlaceInv'
  BY PlaceStep
<1>3. ASSUME NEW u \in User, NEW l \in Inputs[u], Start(u, l) PROVE FlowInv'
  BY <1>1, <1>2, <1>3, FlowStart
<1>4. CASE Collect
  BY <1>2, <1>4, FlowCollect
<1>5. CASE StageFails
  BY <1>2, <1>5, FlowStageFails
<1>6. CASE WaitPre
  <2>1. /\ UNCHANGED <<cmds, user_pipe, made, data, procs, tab, cur>>
        /\ pc = "waitpre" /\ pc' = "stage" /\ i' = i + 1
    BY <1>6 DEF WaitPre, NextStage, ghost
  <2>2. i \in Nat /\ i > 0
    BY <2>1 DEF Typed, TypeInv, Progress
  <2>3. i' > 1
    BY <2>1, <2>2
  <2>4. Before'
    BY <2>1, <2>3 DEF FlowInv, Before, my
  <2>5. KeepsTab
    BY <2>1 DEF KeepsTab
  <2> QED BY <1>2, <2>1, <2>4, <2>5, FlowSame
<1>7. CASE StageForks
  BY <1>2, <1>7, FlowForks
<1>8. CASE EndLine
  <2>1. /\ UNCHANGED <<cmds, user_pipe, made, data, procs, cur>>
        /\ pc = "stage" /\ pc' = "wait" /\ tab' = Close(tab, close_pipe \cup close_temp_pipe)
    BY <1>8 DEF EndLine, line, ghost
  <2>2. PICK F : F = close_pipe \cup close_temp_pipe
    OBVIOUS
  <2>3. DOMAIN Close(tab, F) = DOMAIN tab \ F /\ \A f \in DOMAIN tab \ F : Close(tab, F)[f] = tab[f]
    BY CloseParts
  <2>4. KeepsTab
    BY <2>1, <2>2, <2>3 DEF KeepsTab
  <2>5. Before'
    BY <2>1 DEF FlowInv, Before, my
  <2> QED BY <1>2, <2>1, <2>4, <2>5, FlowSame
<1>9. CASE Reap
  BY <1>2, <1>9, FlowReap
<1>10. ASSUME NEW p \in procs, Finish(p) PROVE FlowInv'
  BY <1>10, FlowFinish
<1>11. CASE UNCHANGED vars
  <2>1. UNCHANGED <<cmds, user_pipe, made, data, procs, tab, cur, pc, i, stop_pipe>>
    BY <1>11 DEF vars, line, ghost
  <2>2. KeepsTab /\ Before'
    BY <2>1 DEF KeepsTab, FlowInv, Before, my
  <2> QED BY <1>2, <2>1, <2>2, FlowSame
<1> QED BY <1>3, <1>4, <1>5, <1>6, <1>7, <1>8, <1>9, <1>10, <1>11 DEF Next, Server

(* What a command wrote is in the pipe that is kept for its reader, or the  *)
(* command still runs and will write there, and no child reads a user pipe  *)
(* before the command it was made for.                                      *)
LEMMA FlowAlways == ASSUME ~Mixed, UnmixedLines PROVE Spec => []FlowInv
<1>1. Init => FlowInv
  BY FlowInit
<1>2. Typed /\ PlaceInv /\ FlowInv /\ [Next]_vars => FlowInv'
  BY FlowStep
<1> QED BY <1>1, <1>2, TypedAlways, PlaceAlways, PTL DEF Spec

-------------------------------------------------------------------------------
(* Between two lines a number is remembered by a command, as one of the two *)
(* ends of its pipe, or by a user pipe; everything else that is open is     *)
(* Loose.                                                                   *)
LEMMA BetweenLines ==
  ASSUME Typed, PlaceInv, FlowInv, pc = "read"
  PROVE  /\ \A e \in Pending :
              Carries(cmds[e[1]][e[2]].fd[1], cmds[e[1]][e[2]].job)
              /\ cmds[e[1]][e[2]].fd[2] \in DOMAIN tab
         /\ PipedInto
<1>1. cur = None /\ temp = << >> /\ scratch = {}
  BY DEF Typed, Progress, PlaceInv
<1>2. None \notin User
  BY BoundAssumption
<1>3. ASSUME NEW f, NEW q \in Pipes, NEW j, f \in DOMAIN tab, tab[f] = <<q, "r">>, Flow(tab[f][1], j)
      PROVE  Carries(f, j)
  <2>1. At(tab, f) = <<q, "r">>
    BY <1>3 DEF At
  <2>2. <<q, "r">> # Other
    BY BoundAssumption DEF Other
  <2>3. j \in data[q] \/ Running(j)
    <3>1. Flow(q, j)
      BY <1>3
    <3> QED BY <3>1 DEF Flow, Writes, Running
  <2> QED BY <2>1, <2>2, <2>3 DEF Carries
<1>4. ASSUME NEW e \in Pending
      PROVE  /\ Carries(cmds[e[1]][e[2]].fd[1], cmds[e[1]][e[2]].job)
             /\ cmds[e[1]][e[2]].fd[2] \in DOMAIN tab
  <2>0. PICK u \in User : \E k \in DOMAIN cmds[u] : e = <<u, k>>
    BY DEF Pending
  <2>1. PICK k \in DOMAIN cmds[u] : e[1] = u /\ e[2] = k
    BY <2>0
  <2>2. u # cur
    BY <1>1, <1>2
  <2>3. ~cmds[u][k].piped /\ cmds[u][k].exe
    BY <2>2 DEF PlaceInv, OthersWait, Typed, Progress
  <2>4. PICK q \in Pipes : /\ cmds[u][k].fd[1] \in DOMAIN tab /\ tab[cmds[u][k].fd[1]] = <<q, "r">>
                           /\ cmds[u][k].fd[2] \in DOMAIN tab
    BY <2>3 DEF PlaceInv, OpenCmds, OpenIn
  <2>5. Flow(tab[cmds[u][k].fd[1]][1], cmds[u][k].job)
    BY <2>3 DEF FlowInv, FlowCmds
  <2>6. Carries(cmds[u][k].fd[1], cmds[u][k].job)
    BY <1>3, <2>4, <2>5
  <2> QED BY <2>1, <2>4, <2>6
<1>5. ASSUME NEW e \in PipesKept
      PROVE  Carries(user_pipe[e[1]][e[2]][1], made[e[1]][e[2]])
  <2>1. PICK a \in User, b \in User : e[1] = a /\ e[2] = b /\ user_pipe[a][b] # NoPair
    BY DEF PipesKept
  <2>2. PICK q \in Pipes : user_pipe[a][b][1] \in DOMAIN tab /\ tab[user_pipe[a][b][1]] = <<q, "r">>
    BY <2>1 DEF PlaceInv, OpenPipes, ReadIn
  <2>3. Flow(tab[user_pipe[a][b][1]][1], made[a][b])
    BY <2>1 DEF FlowInv, FlowPipes
  <2>4. Carries(user_pipe[a][b][1], made[a][b])
    BY <1>3, <2>2, <2>3
  <2> QED BY <2>1, <2>4
<1>6. PipedInto
  BY <1>5 DEF PipedInto
<1> QED BY <1>4, <1>6

LEMMA NumbersOfCommands ==
  ASSUME PlaceInv, pc = "read", cur = None, NEW T, T \subseteq DOMAIN tab, IsFiniteSet(T),
         \A f : f \in T <=> \E u \in User : \E k \in DOMAIN cmds[u] : \E d \in {1, 2} : f = cmds[u][k].fd[d]
  PROVE  IsFiniteSet(Pending) /\ Cardinality(T) = 2 * Cardinality(Pending)
<1> DEFINE number(e, d) == cmds[e[1]][e[2]].fd[d]
           one == [e \in Pending |-> number(e, 1)]
           all == [x \in Pending \X (1..2) |-> number(x[1], x[2])]
<1>1. ASSUME NEW e
      PROVE  e \in Pending <=> \E u \in User : \E k \in DOMAIN cmds[u] : e = <<u, k>>
  BY DEF Pending
<1>2. ASSUME NEW e \in Pending
      PROVE  e = <<e[1], e[2]>> /\ e[1] \in User /\ e[2] \in DOMAIN cmds[e[1]]
  <2>1. PICK u \in User : \E k \in DOMAIN cmds[u] : e = <<u, k>>
    BY <1>1
  <2>2. PICK k \in DOMAIN cmds[u] : e = <<u, k>>
    BY <2>1
  <2> QED BY <2>2
<1>3. ASSUME NEW e \in Pending, NEW d \in {1, 2} PROVE number(e, d) \in T
  BY <1>2
<1>4. ASSUME NEW e \in Pending, NEW g \in Pending, NEW d \in {1, 2}, NEW c \in {1, 2}, number(e, d) = number(g, c)
      PROVE  e = g /\ d = c
  <2>1. e[1] = g[1] /\ e[2] = g[2] /\ d = c
    <3>1. /\ e[1] \in User /\ e[2] \in DOMAIN cmds[e[1]]
          /\ g[1] \in User /\ g[2] \in DOMAIN cmds[g[1]]
          /\ cmds[e[1]][e[2]].fd[d] = cmds[g[1]][g[2]].fd[c]
      BY <1>2, <1>4
    <3>2. \A u, v \in User : \A k \in DOMAIN cmds[u], j \in DOMAIN cmds[v] : \A x, y \in {1, 2} :
            cmds[u][k].fd[x] = cmds[v][j].fd[y] => u = v /\ k = j /\ x = y
      BY Separate DEF PlaceInv
    <3> QED BY <3>1, <3>2
  <2> QED BY <1>2, <2>1
<1>5. ASSUME NEW f \in T PROVE \E e \in Pending : \E d \in {1, 2} : f = number(e, d)
  <2>1. PICK u \in User : \E k \in DOMAIN cmds[u] : \E d \in {1, 2} : f = cmds[u][k].fd[d]
    OBVIOUS
  <2>2. PICK k \in DOMAIN cmds[u] : \E d \in {1, 2} : f = cmds[u][k].fd[d]
    BY <2>1
  <2>3. <<u, k>> \in Pending
    BY <1>1
  <2>4. PICK e : e = <<u, k>>
    OBVIOUS
  <2>5. e \in Pending /\ \E d \in {1, 2} : f = number(e, d)
    BY <2>2, <2>3, <2>4
  <2> QED BY <2>5
<1> HIDE DEF number
<1>6. one \in Injection(Pending, T)
  <2>1. one \in [Pending -> T]
    BY <1>3
  <2>2. \A e, g \in Pending : one[e] = one[g] => e = g
    BY <1>4
  <2> QED BY <2>1, <2>2 DEF Injection, IsInjective
<1>7. IsFiniteSet(Pending)
  BY <1>6, FS_Injection
<1>8. 1..2 = {1, 2} /\ IsFiniteSet(1..2) /\ Cardinality(1..2) = 2
  <2>1. 1..2 = {1, 2}
    OBVIOUS
  <2>2. 1 \in Int /\ 2 \in Int /\ ~(1 > 2) /\ 2 - 1 + 1 = 2
    OBVIOUS
  <2> QED BY <2>1, <2>2, FS_Interval
<1>9. ASSUME NEW x \in Pending \X (1..2)
      PROVE  x[1] \in Pending /\ x[2] \in {1, 2} /\ all[x] = number(x[1], x[2]) /\ x = <<x[1], x[2]>>
  BY <1>8
<1>10. all \in [Pending \X (1..2) -> T]
  BY <1>3, <1>9
<1>11. all \in Injection(Pending \X (1..2), T)
  <2>1. ASSUME NEW x \in Pending \X (1..2), NEW y \in Pending \X (1..2), all[x] = all[y] PROVE x = y
    <3>1. x[1] = y[1] /\ x[2] = y[2]
      BY <1>4, <1>9, <2>1
    <3> QED BY <1>9, <3>1
  <2> QED BY <1>10, <2>1 DEF Injection, IsInjective
<1>12. all \in Surjection(Pending \X (1..2), T)
  <2>1. ASSUME NEW f \in T PROVE \E x \in Pending \X (1..2) : all[x] = f
    <3>1. PICK e \in Pending, d \in {1, 2} : f = number(e, d)
      BY <1>5
    <3>2. <<e, d>> \in Pending \X (1..2)
      BY <1>8
    <3>3. all[<<e, d>>] = number(e, d)
      BY <3>2
    <3> QED BY <3>1, <3>2, <3>3
  <2> QED BY <1>10, <2>1 DEF Surjection
<1> HIDE DEF one, all
<1>13. Cardinality(Pending \X (1..2)) = Cardinality(T)
  BY <1>11, <1>12, FS_Injection
<1>14. Cardinality(Pending \X (1..2)) = Cardinality(Pending) * Cardinality(1..2)
  BY <1>7, <1>8, FS_Product
<1>15. Cardinality(Pending) \in Nat
  BY <1>7, FS_CardinalityType
<1>16. Cardinality(Pending) * 2 = 2 * Cardinality(Pending)
  BY <1>15
<1> QED BY <1>7, <1>8, <1>13, <1>14, <1>16

LEMMA NumbersOfPipes ==
  ASSUME PlaceInv, NEW T, T \subseteq DOMAIN tab, IsFiniteSet(T),
         \A f : f \in T <=> \E a, b \in User : user_pipe[a][b] # NoPair /\ f = user_pipe[a][b][1]
  PROVE  IsFiniteSet(PipesKept) /\ Cardinality(T) = Cardinality(PipesKept)
<1> DEFINE number(e) == user_pipe[e[1]][e[2]][1]
           all == [e \in PipesKept |-> number(e)]
<1>1. ASSUME NEW e \in PipesKept
      PROVE  e = <<e[1], e[2]>> /\ e[1] \in User /\ e[2] \in User /\ user_pipe[e[1]][e[2]] # NoPair
  BY DEF PipesKept
<1>2. ASSUME NEW e \in PipesKept PROVE number(e) \in T
  BY <1>1
<1>3. ASSUME NEW e \in PipesKept, NEW g \in PipesKept, number(e) = number(g) PROVE e = g
  <2>1. e[1] = g[1] /\ e[2] = g[2]
    BY <1>1, <1>3, Separate DEF PlaceInv
  <2> QED BY <1>1, <2>1
<1>4. ASSUME NEW f \in T PROVE \E e \in PipesKept : f = number(e)
  <2>1. PICK a \in User, b \in User : user_pipe[a][b] # NoPair /\ f = user_pipe[a][b][1]
    OBVIOUS
  <2>2. PICK e : e = <<a, b>>
    OBVIOUS
  <2>3. e \in PipesKept /\ f = number(e)
    BY <2>1, <2>2 DEF PipesKept
  <2> QED BY <2>3
<1> HIDE DEF number
<1>5. all \in [PipesKept -> T]
  BY <1>2
<1>6. all \in Injection(PipesKept, T)
  <2>1. \A e, g \in PipesKept : all[e] = all[g] => e = g
    BY <1>3
  <2> QED BY <1>5, <2>1 DEF Injection, IsInjective
<1>7. all \in Surjection(PipesKept, T)
  <2>1. \A f \in T : \E e \in PipesKept : all[e] = f
    BY <1>4
  <2> QED BY <1>5, <2>1 DEF Surjection
<1> HIDE DEF all
<1> QED BY <1>6, <1>7, FS_Injection

(* The open descriptors are counted: one for each line and the first ones,  *)
(* two for each command that waits, and one for each user pipe.             *)
LEMMA OpenCounted ==
  ASSUME Typed, PlaceInv, pc = "read"
  PROVE  Cardinality(DOMAIN tab) = Cardinality(Base) + lines + 2 * Cardinality(Pending)
                                   + Cardinality(PipesKept)
<1> DEFINE OfCmd(f)  == \E u \in User : \E k \in DOMAIN cmds[u] : \E d \in {1, 2} : f = cmds[u][k].fd[d]
           OfPipe(f) == \E a, b \in User : user_pipe[a][b] # NoPair /\ f = user_pipe[a][b][1]
           A == {f \in DOMAIN tab : OfCmd(f)}
           B == {f \in DOMAIN tab : OfPipe(f)}
<1>1. cur = None /\ temp = << >> /\ scratch = {} /\ None \notin User
  BY BoundAssumption DEF Typed, Progress, PlaceInv
<1>2. ASSUME NEW f PROVE (\E n : Owns(n, f)) <=> OfCmd(f) \/ OfPipe(f)
  <2>1. DOMAIN temp = {}
    BY <1>1
  <2>2. (\E n : Owns(n, f)) => OfCmd(f) \/ OfPipe(f)
    BY <1>1, <2>1 DEF Owns
  <2>3. OfCmd(f) => \E n : Owns(n, f)
    BY OwnsAll
  <2>4. OfPipe(f) => \E n : Owns(n, f)
    BY OwnsAll
  <2> QED BY <2>2, <2>3, <2>4
<1>3. ASSUME NEW f, OfCmd(f) PROVE f \in DOMAIN tab
  <2>1. PICK u \in User : \E k \in DOMAIN cmds[u] : \E d \in {1, 2} : f = cmds[u][k].fd[d]
    BY <1>3
  <2>2. PICK k \in DOMAIN cmds[u] : \E d \in {1, 2} : f = cmds[u][k].fd[d]
    BY <2>1
  <2>3. u # cur
    BY <1>1
  <2>4. ~cmds[u][k].piped
    BY <2>3 DEF PlaceInv, OthersWait
  <2>5. OpenIn(tab, cmds[u][k].fd)
    BY <2>4 DEF PlaceInv, OpenCmds
  <2> QED BY <2>2, <2>5 DEF OpenIn
<1>4. ASSUME NEW f, OfPipe(f) PROVE f \in DOMAIN tab
  BY <1>4 DEF PlaceInv, OpenPipes, ReadIn
<1>5. ASSUME NEW f PROVE ~(OfCmd(f) /\ OfPipe(f))
  BY Separate DEF PlaceInv
<1>6. IsFiniteSet(DOMAIN tab)
  <2>1. DOMAIN tab \subseteq 0..MaxFd
    BY DEF Typed, TypeInv, TabOK
  <2>2. IsFiniteSet(0..MaxFd)
    <3>1. MaxFd \in Int /\ 0 \in Int
      BY BoundAssumption
    <3> QED BY <3>1, FS_Interval
  <2> QED BY <2>1, <2>2, FS_Subset
<1>7. A \subseteq DOMAIN tab /\ B \subseteq DOMAIN tab /\ Loose \subseteq DOMAIN tab
  BY DEF Loose
<1>8. IsFiniteSet(A) /\ IsFiniteSet(B) /\ IsFiniteSet(Loose)
  BY <1>6, <1>7, FS_Subset
<1>9. \A f : f \in A <=> OfCmd(f)
  BY <1>3
<1>10. \A f : f \in B <=> OfPipe(f)
  BY <1>4
<1>11. IsFiniteSet(Pending) /\ Cardinality(A) = 2 * Cardinality(Pending)
  BY <1>1, <1>7, <1>8, <1>9, NumbersOfCommands
<1>12. IsFiniteSet(PipesKept) /\ Cardinality(B) = Cardinality(PipesKept)
  BY <1>7, <1>8, <1>10, NumbersOfPipes
<1>13. \A f : f \in Loose <=> f \in DOMAIN tab /\ ~OfCmd(f) /\ ~OfPipe(f)
  <2>1. \A f : f \in Loose <=> f \in DOMAIN tab /\ ~\E n : Owns(n, f)
    BY DEF Loose
  <2> QED BY <1>2, <2>1
<1> HIDE DEF OfCmd, OfPipe
<1>14. DOMAIN tab = (Loose \cup A) \cup B /\ Loose \cap A = {} /\ (Loose \cup A) \cap B = {}
  BY <1>5, <1>13
<1> HIDE DEF A, B
<1>15. Cardinality({}) = 0
  BY FS_EmptySet
<1>16. /\ IsFiniteSet(Loose \cup A)
       /\ Cardinality(Loose \cup A) = Cardinality(Loose) + Cardinality(A) - Cardinality(Loose \cap A)
  BY <1>8, FS_Union
<1>17. Cardinality((Loose \cup A) \cup B) =
         Cardinality(Loose \cup A) + Cardinality(B) - Cardinality((Loose \cup A) \cap B)
  BY <1>8, <1>16, FS_Union
<1>18. /\ Cardinality(Loose) \in Nat /\ Cardinality(A) \in Nat /\ Cardinality(B) \in Nat
  BY <1>8, FS_CardinalityType
<1>19. PICK x, y, z, w, n : /\ x = Cardinality(Loose) /\ y = Cardinality(A) /\ z = Cardinality(B)
                            /\ w = Cardinality(Loose \cup A) /\ n = Cardinality(DOMAIN tab)
  OBVIOUS
<1>20. x \in Nat /\ y \in Nat /\ z \in Nat /\ w = x + y - 0 /\ n = w + z - 0
  BY <1>14, <1>15, <1>16, <1>17, <1>18, <1>19
<1>21. n = x + y + z
  BY <1>20
<1>22. x = Cardinality(Base) + lines
  BY <1>19 DEF PlaceInv
<1> QED BY <1>11, <1>12, <1>19, <1>21, <1>22

LEMMA InvRemembered ==
  ASSUME Typed, PlaceInv, FlowInv
  PROVE  Remembered
<1> SUFFICES ASSUME pc = "read" PROVE Remembered
  BY DEF Remembered
<1>1. /\ \A e \in Pending :
           Carries(cmds[e[1]][e[2]].fd[1], cmds[e[1]][e[2]].job)
           /\ cmds[e[1]][e[2]].fd[2] \in DOMAIN tab
      /\ PipedInto
  BY BetweenLines
<1>2. Cardinality(DOMAIN tab) = Cardinality(Base) + lines + 2 * Cardinality(Pending)
                                + Cardinality(PipesKept)
  BY OpenCounted
<1> QED BY <1>1, <1>2, Zenon DEF Remembered

(* Between two lines every descriptor the server remembers for a number     *)
(* pipe or a user pipe is open, on the pipe that holds its writer's output  *)
(* or will, and nothing else is open but one copy of standard output for    *)
(* each line served: close_pipe, close_temp_pipe and the two closes of user *)
(* pipes, which close by number, never close another pipe's number nor      *)
(* leave one open.                                                          *)
THEOREM RememberedAlways == ASSUME ~Mixed, UnmixedLines PROVE Spec => []Remembered
<1>1. Typed /\ PlaceInv /\ FlowInv => Remembered
  BY InvRemembered
<1> QED BY <1>1, TypedAlways, PlaceAlways, FlowAlways, PTL

-------------------------------------------------------------------------------
(* No wait is for ever: for lines in which a number pipe is not behind a    *)
(* command that reads, shares its line with no user pipe and runs down at   *)
(* once for a reader behind it, and in which no user pipe is behind a       *)
(* command that reads.                                                      *)
UsesPipe(c)   == c.rd # -1 \/ c.wr # -1
PromptLine(l) ==
  LET s == split_by_pipe(l)
  IN \A m \in DOMAIN s :
       /\ m < Len(s) /\ s[m].type = "NUM_PIPE" =>
            /\ \A k \in 1..m : ~Reads(s[k])
            /\ \A k \in DOMAIN s : ~UsesPipe(s[k])
            /\ Reads(s[m + 1]) => s[m].num <= 1
       /\ m > 1 /\ UsesPipe(s[m]) => \A k \in 1..(m - 1) : ~Reads(s[k])
PromptLines   == \A u \in User : \A l \in Inputs[u] : PromptLine(l)

(* The commands of the line that is served are behind those of earlier ones.*)
InLine      == pc \in {"stage", "waitpre"}
New(k)      == k \in DOMAIN my /\ my[k].job[1] = lines
JobsInOrder ==
  /\ \A u \in User : \A k \in DOMAIN cmds[u] : cmds[u][k].job[1] <= lines
  /\ InLine => \A k, n \in DOMAIN my : k < n /\ New(k) => New(n)

(* What PromptLine says, as the line is run.                                *)
PromptAt(m) ==
  /\ m < Len(my) => Follows(my[m], my[m + 1])
  /\ m < Len(my) /\ my[m].type = "NUM_PIPE" =>
       /\ \A k \in 1..m : New(k) => ~Reads(my[k])
       /\ \A k \in DOMAIN my : New(k) => ~UsesPipe(my[k])
       /\ Reads(my[m + 1]) => my[m].num <= 1 /\ (m < i => my[m].num = 0)
  /\ UsesPipe(my[m]) => \A k \in 1..(m - 1) : New(k) => ~Reads(my[k])
  /\ my[m].type = "F_RED_PIPE" => New(m - 1) /\ my[m - 1].type = "PIPE"
Prompt  == InLine => \A m \in DOMAIN my : New(m) => PromptAt(m)
Failing == pc = "waitpre" => UsesPipe(my[i])

(* Why the next stage reads a temporary pipe, or does not.                  *)
AllUse  == \A k \in 1..(i - 1) : New(k) => UsesPipe(my[k])
Stops   ==
  InLine /\ i <= Len(my) =>
    /\ stop_pipe /\ ~AllUse => New(i - 1) /\ my[i - 1].type = "NUM_PIPE" /\ (my[i - 1].piped => ~fresh)
    /\ ~stop_pipe => New(i - 1) /\ my[i - 1].type # "NUM_PIPE"
LineInv == JobsInOrder /\ Prompt /\ Failing /\ Stops

(* A step in the line: what is new stays new.                               *)
LEMMA NewKept ==
  ASSUME Typed, pc # "read", SameLine
  PROVE  /\ DOMAIN my = 1..Len(my) /\ DOMAIN my' = 1..Len(my) /\ Len(my) \in Nat /\ i \in Nat /\ i > 0
         /\ \A k : New(k)' <=> New(k)
         /\ \A k \in 1..Len(my) : /\ Reads(my'[k]) <=> Reads(my[k])
                                  /\ UsesPipe(my'[k]) <=> UsesPipe(my[k])
<1>1. DOMAIN my = 1..Len(my) /\ DOMAIN my' = 1..Len(my) /\ Len(my) \in Nat
  BY CurUser, LenProperties DEF Typed, SameLine
<1>2. i \in Nat /\ i > 0
  BY DEF Typed, TypeInv, Progress
<1>3. \A k : New(k)' <=> New(k)
  BY <1>1 DEF New, SameLine, Kept
<1>4. \A k \in 1..Len(my) : /\ Reads(my'[k]) <=> Reads(my[k])
                            /\ UsesPipe(my'[k]) <=> UsesPipe(my[k])
  <2> SUFFICES ASSUME NEW k \in 1..Len(my)
               PROVE  (Reads(my'[k]) <=> Reads(my[k])) /\ (UsesPipe(my'[k]) <=> UsesPipe(my[k]))
    OBVIOUS
  <2>1. /\ my'[k].type = my[k].type /\ my'[k].words = my[k].words
        /\ my'[k].rd = my[k].rd /\ my'[k].wr = my[k].wr
    BY DEF SameLine, Kept
  <2> QED BY <2>1 DEF Reads, UsesPipe
<1> QED BY <1>1, <1>2, <1>3, <1>4

LEMMA PromptKept ==
  ASSUME Typed, InLine, SameLine, Prompt, i' \in {i, i + 1},
         \A k \in 1..Len(my) : my'[k].num <= my[k].num /\ my'[k].num \in Nat /\ my[k].num \in Nat,
         i' = i + 1 /\ i < Len(my) /\ New(i) /\ my[i].type = "NUM_PIPE" /\ Reads(my[i + 1])
           => my'[i].num = 0
  PROVE  Prompt'
<1>1. /\ DOMAIN my = 1..Len(my) /\ DOMAIN my' = 1..Len(my) /\ Len(my) \in Nat /\ i \in Nat /\ i > 0
      /\ \A k : New(k)' <=> New(k)
      /\ \A k \in 1..Len(my) : /\ Reads(my'[k]) <=> Reads(my[k])
                               /\ UsesPipe(my'[k]) <=> UsesPipe(my[k])
  BY NewKept DEF InLine
<1> SUFFICES ASSUME NEW m \in 1..Len(my), New(m) PROVE PromptAt(m)'
  BY <1>1 DEF Prompt
<1>2. PromptAt(m)
  BY <1>1 DEF Prompt
<1>3. Len(my') = Len(my) /\ Kept(my'[m], my[m]) /\ \A k \in 1..m : k \in 1..Len(my)
  BY <1>1 DEF SameLine
<1>4. ASSUME m < Len(my) PROVE Follows(my'[m], my'[m + 1])
  <2>1. m + 1 \in 1..Len(my)
    BY <1>1, <1>4
  <2>2. Kept(my'[m + 1], my[m + 1]) /\ Follows(my[m], my[m + 1])
    BY <1>2, <1>4, <2>1 DEF SameLine, PromptAt
  <2> QED BY <1>3, <2>2 DEF Follows, Kept
<1>5. ASSUME m < Len(my), my'[m].type = "NUM_PIPE"
      PROVE  /\ \A k \in 1..m : New(k) => ~Reads(my'[k])
             /\ \A k \in 1..Len(my) : New(k) => ~UsesPipe(my'[k])
             /\ Reads(my'[m + 1]) => my'[m].num <= 1 /\ (m < i' => my'[m].num = 0)
  <2>1. m + 1 \in 1..Len(my) /\ my[m].type = "NUM_PIPE"
    BY <1>1, <1>3, <1>5 DEF Kept
  <2>2. /\ \A k \in 1..m : New(k) => ~Reads(my[k])
        /\ \A k \in 1..Len(my) : New(k) => ~UsesPipe(my[k])
        /\ Reads(my[m + 1]) => my[m].num <= 1 /\ (m < i => my[m].num = 0)
    BY <1>1, <1>2, <1>5, <2>1 DEF PromptAt
  <2>3. ASSUME Reads(my'[m + 1]) PROVE my'[m].num <= 1 /\ (m < i' => my'[m].num = 0)
    <3>1. Reads(my[m + 1])
      BY <1>1, <2>1, <2>3
    <3>2. my[m].num <= 1 /\ (m < i => my[m].num = 0) /\ my'[m].num <= my[m].num /\ my'[m].num \in Nat
          /\ my[m].num \in Nat
      BY <2>2, <3>1
    <3>3. my'[m].num <= 1
      BY <3>2
    <3>4. CASE m < i
      BY <3>2, <3>3, <3>4
    <3>5. CASE m = i /\ i' = i + 1
      <4>1. my'[i].num = 0
        BY <1>5, <2>1, <3>1, <3>5
      <4> QED BY <3>3, <3>5, <4>1
    <3>6. m < i' => m < i \/ (m = i /\ i' = i + 1)
      BY <1>1
    <3> QED BY <3>3, <3>4, <3>5, <3>6
  <2> QED BY <1>1, <1>3, <2>2, <2>3
<1>6. ASSUME UsesPipe(my'[m]) PROVE \A k \in 1..(m - 1) : New(k) => ~Reads(my'[k])
  <2>1. \A k \in 1..(m - 1) : k \in 1..Len(my) /\ (New(k) => ~Reads(my[k]))
    BY <1>1, <1>2, <1>6 DEF PromptAt
  <2> QED BY <1>1, <2>1
<1>7. ASSUME my'[m].type = "F_RED_PIPE" PROVE New(m - 1) /\ my'[m - 1].type = "PIPE"
  <2>1. New(m - 1) /\ my[m - 1].type = "PIPE"
    BY <1>2, <1>3, <1>7 DEF PromptAt, Kept
  <2>2. m - 1 \in 1..Len(my)
    BY <1>1, <2>1 DEF New
  <2> QED BY <2>1, <2>2 DEF SameLine, Kept
<1> QED BY <1>1, <1>3, <1>4, <1>5, <1>6, <1>7 DEF PromptAt

LEMMA LineStart ==
  ASSUME Typed, LineInv, NEW u \in User, NEW l, GoodLine(l), PromptLine(l), Start(u, l)
  PROVE  LineInv'
<1> DEFINE s == split_by_pipe(l)
           K == Len(cmds[u])
           N == Len(split_by_pipe(l))
<1>1. /\ K \in Nat /\ N \in Nat \ {0} /\ i' = K + 1 /\ cur' = u /\ Len(my') = K + N
      /\ \A k \in 1..K : my'[k] = cmds[u][k]
      /\ \A k \in 1..N : my'[K + k] = NewCmds(u, l)[k]
      /\ \A v \in User : v # u => cmds'[v] = cmds[v]
      /\ \A m \in 1..N : NewCmdOK(u, l, m)
      /\ my' \in Seq(Cmd) /\ DOMAIN cmds[u] = 1..K /\ my' = cmds'[u]
  BY StartCmds, LenProperties DEF my
<1>2. /\ lines' = lines + 1 /\ pc' = "stage" /\ stop_pipe' = TRUE /\ lines < MaxLines
      /\ Room(NeedsFds(l), TempPipes + N) /\ lines \in Nat
  <2>1. lines \in Nat
    BY BoundAssumption DEF Typed, TypeInv
  <2> QED BY <2>1, StartNames
<1>3. DOMAIN my' = 1..(K + N) /\ DOMAIN s = 1..N
  BY <1>1, SplitParts, LenProperties
<1>4. \A v \in User : \A k \in DOMAIN cmds[v] : cmds[v][k].job[1] <= lines /\ cmds[v][k].job[1] \in Nat
  <2>1. \A v \in User : \A k \in DOMAIN cmds[v] : cmds[v][k].job \in Job
    BY DEF Typed, Progress
  <2> QED BY <2>1, BoundAssumption DEF LineInv, JobsInOrder, Job
<1>5. \A m \in 1..N : /\ NewCmds(u, l)[m].job[1] = lines + 1
                      /\ NewCmds(u, l)[m].type = s[m].type /\ NewCmds(u, l)[m].num = s[m].num
                      /\ Reads(NewCmds(u, l)[m]) <=> Reads(s[m])
                      /\ UsesPipe(NewCmds(u, l)[m]) <=> UsesPipe(s[m])
  <2> SUFFICES ASSUME NEW m \in 1..N
               PROVE  /\ NewCmds(u, l)[m].job[1] = lines + 1
                      /\ NewCmds(u, l)[m].type = s[m].type /\ NewCmds(u, l)[m].num = s[m].num
                      /\ Reads(NewCmds(u, l)[m]) <=> Reads(s[m])
                      /\ UsesPipe(NewCmds(u, l)[m]) <=> UsesPipe(s[m])
    OBVIOUS
  <2>1. /\ NewCmds(u, l)[m].job = <<lines + 1, m>>
        /\ NewCmds(u, l)[m].type = s[m].type /\ NewCmds(u, l)[m].num = s[m].num
        /\ NewCmds(u, l)[m].words = s[m].words
        /\ NewCmds(u, l)[m].rd = s[m].rd /\ NewCmds(u, l)[m].wr = s[m].wr
    BY <1>1 DEF NewCmdOK
  <2> QED BY <2>1 DEF Reads, UsesPipe
<1>6. NewCmds(u, l)[1].first /\ \A m \in 1..(N - 1) : Follows(NewCmds(u, l)[m], NewCmds(u, l)[m + 1])
  BY <1>2, SegSteps
<1>7. \A m \in 1..N : s[m].type = "F_RED_PIPE" => m > 1 /\ s[m - 1].type = "PIPE"
  BY MadeFile, SplitParts
<1>8. \A m \in 1..N :
       /\ m < N /\ s[m].type = "NUM_PIPE" =>
            /\ \A k \in 1..m : ~Reads(s[k])
            /\ \A k \in 1..N : ~UsesPipe(s[k])
            /\ Reads(s[m + 1]) => s[m].num <= 1
       /\ m > 1 /\ UsesPipe(s[m]) => \A k \in 1..(m - 1) : ~Reads(s[k])
  BY <1>3 DEF PromptLine
<1> HIDE DEF s, K, N
<1>9. \A k \in 1..(K + N) : k \in 1..K \/ (k - K \in 1..N /\ my'[k] = NewCmds(u, l)[k - K])
  <2> SUFFICES ASSUME NEW k \in 1..(K + N), k \notin 1..K
               PROVE  k - K \in 1..N /\ my'[k] = NewCmds(u, l)[k - K]
    OBVIOUS
  <2>1. k - K \in 1..N /\ K + (k - K) = k
    BY <1>1
  <2> QED BY <1>1, <2>1
<1>10. \A k \in 1..K : my'[k].job[1] <= lines /\ my'[k].job[1] \in Nat
  BY <1>1, <1>4
<1>11. \A k : New(k)' <=> k \in 1..(K + N) /\ k \notin 1..K
  <2> SUFFICES ASSUME NEW k \in 1..(K + N) PROVE my'[k].job[1] = lines + 1 <=> k \notin 1..K
    BY <1>2, <1>3 DEF New
  <2>1. k \in 1..K => my'[k].job[1] # lines + 1
    BY <1>2, <1>10
  <2>2. k \notin 1..K => my'[k].job[1] = lines + 1
    BY <1>5, <1>9
  <2> QED BY <2>1, <2>2
<1>12. JobsInOrder'
  <2>1. ASSUME NEW v \in User, NEW k \in DOMAIN cmds'[v] PROVE cmds'[v][k].job[1] <= lines + 1
    <3>1. CASE v # u
      <4>1. k \in DOMAIN cmds[v] /\ cmds'[v][k].job[1] <= lines /\ cmds'[v][k].job[1] \in Nat
        BY <1>1, <1>4, <3>1
      <4> QED BY <1>2, <4>1
    <3>2. CASE v = u
      <4>1. k \in 1..(K + N) /\ cmds'[v][k] = my'[k]
        BY <1>1, <1>3, <3>2
      <4>2. CASE k \in 1..K
        <5>1. my'[k].job[1] <= lines /\ my'[k].job[1] \in Nat
          BY <1>10, <4>2
        <5> QED BY <1>2, <4>1, <5>1
      <4>3. CASE k \notin 1..K
        <5>1. my'[k].job[1] = lines + 1
          BY <1>5, <1>9, <4>1, <4>3
        <5> QED BY <1>2, <4>1, <5>1
      <4> QED BY <4>2, <4>3
    <3> QED BY <3>1, <3>2
  <2>2. ASSUME NEW k \in 1..(K + N), NEW n \in 1..(K + N), k < n, k \notin 1..K PROVE n \notin 1..K
    BY <1>1, <2>2
  <2> QED BY <1>2, <1>3, <1>11, <2>1, <2>2 DEF JobsInOrder
<1>13. Prompt'
  <2> SUFFICES ASSUME NEW k \in 1..(K + N), k \notin 1..K PROVE PromptAt(k)'
    BY <1>11 DEF Prompt
  <2>1. PICK m \in 1..N : m = k - K /\ k = K + m
    BY <1>1, <1>9
  <2>2. my'[k] = NewCmds(u, l)[m] /\ Len(my') = K + N /\ m \in Nat /\ k \in Nat
    BY <1>1, <2>1
  <2>3. \A j \in 1..(K + N) : New(j)' => j - K \in 1..N /\ /\ (Reads(my'[j]) <=> Reads(s[j - K]))
                                                            /\ (UsesPipe(my'[j]) <=> UsesPipe(s[j - K]))
    BY <1>5, <1>9, <1>11
  <2>4. ASSUME k < Len(my')
        PROVE  m < N /\ m \in 1..(N - 1) /\ m + 1 \in 1..N /\ my'[k + 1] = NewCmds(u, l)[m + 1]
    <3>1. m + 1 \in 1..N /\ K + (m + 1) = k + 1
      BY <1>1, <2>1, <2>2, <2>4
    <3>2. m < N /\ m \in 1..(N - 1)
      BY <1>1, <2>1, <2>2, <2>4
    <3> QED BY <1>1, <3>1, <3>2
  <2>5. ASSUME k < Len(my') PROVE Follows(my'[k], my'[k + 1])
    BY <1>6, <2>2, <2>4, <2>5
  <2>6. ASSUME k < Len(my'), my'[k].type = "NUM_PIPE"
        PROVE  /\ \A j \in 1..k : New(j)' => ~Reads(my'[j])
               /\ \A j \in DOMAIN my' : New(j)' => ~UsesPipe(my'[j])
               /\ Reads(my'[k + 1]) => my'[k].num <= 1 /\ (k < i' => my'[k].num = 0)
    <3>1. m < N /\ s[m].type = "NUM_PIPE"
      BY <1>5, <2>2, <2>4, <2>6
    <3>2. /\ \A j \in 1..m : ~Reads(s[j])
          /\ \A j \in 1..N : ~UsesPipe(s[j])
          /\ Reads(s[m + 1]) => s[m].num <= 1
      BY <1>8, <3>1
    <3>3. ASSUME NEW j \in 1..k, New(j)' PROVE ~Reads(my'[j])
      <4>1. j \in 1..(K + N)
        BY <1>1, <2>2
      <4>2. j - K \in 1..N /\ (Reads(my'[j]) <=> Reads(s[j - K]))
        BY <2>3, <3>3, <4>1
      <4>3. j - K \in 1..m
        BY <1>1, <2>1, <2>2, <4>2
      <4> QED BY <3>2, <4>2, <4>3
    <3>4. \A j \in DOMAIN my' : New(j)' => ~UsesPipe(my'[j])
      BY <1>3, <2>3, <3>2
    <3>5. Reads(my'[k + 1]) => my'[k].num <= 1
      BY <1>5, <2>2, <2>4, <2>6, <3>2
    <3>6. ~(k < i')
      BY <1>1, <2>1, <2>2
    <3> QED BY <3>3, <3>4, <3>5, <3>6
  <2>7. ASSUME UsesPipe(my'[k]), NEW j \in 1..(k - 1), New(j)' PROVE ~Reads(my'[j])
    <3>1. j \in 1..(K + N)
      BY <1>1, <2>2
    <3>2. j - K \in 1..N /\ (Reads(my'[j]) <=> Reads(s[j - K]))
      BY <2>3, <2>7, <3>1
    <3>3. m > 1 /\ j - K \in 1..(m - 1)
      <4>1. j \in Nat /\ j <= k - 1 /\ k = K + m /\ K \in Nat /\ m \in Nat /\ j - K >= 1
        BY <1>1, <2>1, <2>2, <3>1, <3>2
      <4> QED BY <4>1
    <3>4. UsesPipe(s[m])
      BY <1>5, <2>2, <2>7
    <3> QED BY <1>8, <3>2, <3>3, <3>4
  <2>8. ASSUME my'[k].type = "F_RED_PIPE" PROVE New(k - 1)' /\ my'[k - 1].type = "PIPE"
    <3>1. m > 1 /\ s[m - 1].type = "PIPE"
      BY <1>5, <1>7, <2>2, <2>8
    <3>2. m - 1 \in 1..N /\ K + (m - 1) = k - 1 /\ k - 1 \in 1..(K + N) /\ k - 1 \notin 1..K
      BY <1>1, <2>1, <2>2, <3>1
    <3>3. my'[k - 1] = NewCmds(u, l)[m - 1]
      BY <1>1, <3>2
    <3> QED BY <1>5, <1>11, <3>1, <3>2, <3>3
  <2> QED BY <2>5, <2>6, <2>7, <2>8 DEF PromptAt
<1>14. Failing'
  BY <1>2 DEF Failing
<1>15. Stops'
  <2>1. ASSUME NEW k \in 1..(i' - 1) PROVE ~New(k)'
    BY <1>1, <1>11
  <2>2. AllUse'
    BY <2>1 DEF AllUse
  <2> QED BY <1>2, <2>2 DEF Stops
<1> QED BY <1>12, <1>13, <1>14, <1>15 DEF LineInv

LEMMA JobsKept ==
  ASSUME Typed, pc # "read", JobsInOrder, SameLine, InLine' => InLine,
         \A v \in User : v # cur => cmds'[v] = cmds[v]
  PROVE  JobsInOrder'
<1>1. /\ DOMAIN my = 1..Len(my) /\ DOMAIN my' = 1..Len(my) /\ \A k : New(k)' <=> New(k)
  BY NewKept
<1>2. cur \in User /\ my = cmds[cur] /\ my' = cmds'[cur] /\ lines' = lines
  BY CurUser DEF Typed, SameLine, my
<1>3. ASSUME NEW v \in User, NEW k \in DOMAIN cmds'[v] PROVE cmds'[v][k].job[1] <= lines
  <2>1. CASE v = cur
    <3>1. k \in 1..Len(my) /\ my'[k].job = my[k].job
      BY <1>1, <1>2, <2>1 DEF SameLine, Kept
    <3> QED BY <1>1, <1>2, <2>1, <3>1 DEF JobsInOrder
  <2>2. CASE v # cur
    BY <2>2 DEF JobsInOrder
  <2> QED BY <2>1, <2>2
<1>4. InLine' => \A k, n \in DOMAIN my' : k < n /\ New(k)' => New(n)'
  BY <1>1 DEF JobsInOrder
<1> QED BY <1>2, <1>3, <1>4 DEF JobsInOrder

LEMMA LineCollect ==
  ASSUME Typed, LineInv, Collect
  PROVE  LineInv'
<1>1. /\ AtStage /\ pc = "stage" /\ pc # "read" /\ cur' = cur /\ i' = i /\ stop_pipe' = stop_pipe
      /\ fresh' = FALSE /\ lines' = lines
  BY CollectNames DEF AtStage, ghost
<1>2. PICK j \in 1..(i - 1) :
        \/ pc' = "killed" /\ UNCHANGED <<cmds, tab, procs>>
        \/ /\ pc' = pc
           /\ cmds' = [cmds EXCEPT ![cur] = [@ EXCEPT ![j].piped = TRUE]]
  BY CollectNames
<1>3. CASE pc' = "killed" /\ UNCHANGED <<cmds, tab, procs>>
  <2>1. ~InLine' /\ pc' # "waitpre"
    BY <1>3 DEF InLine
  <2> QED BY <1>1, <1>3, <2>1 DEF LineInv, JobsInOrder, Prompt, Failing, Stops
<1>4. CASE pc' = pc /\ cmds' = [cmds EXCEPT ![cur] = [@ EXCEPT ![j].piped = TRUE]]
  <2>1. /\ my' \in Seq(Cmd) /\ Len(my') = Len(my)
        /\ \A v \in User : v # cur => cmds'[v] = cmds[v]
        /\ \A k \in 1..Len(my) : my[k] \in Cmd /\ Kept(my'[k], my[k]) /\ my'[k].num = my[k].num
    BY <1>1, <1>4, CollectCmds
  <2>2. SameLine /\ InLine /\ i' \in {i, i + 1}
    BY <1>1, <2>1 DEF SameLine, InLine
  <2>3. /\ DOMAIN my = 1..Len(my) /\ DOMAIN my' = 1..Len(my) /\ Len(my) \in Nat /\ i \in Nat /\ i > 0
        /\ \A k : New(k)' <=> New(k)
        /\ \A k \in 1..Len(my) : (Reads(my'[k]) <=> Reads(my[k])) /\ (UsesPipe(my'[k]) <=> UsesPipe(my[k]))
    BY <1>1, <2>2, NewKept
  <2>4. JobsInOrder'
    BY <1>1, <2>1, <2>2, JobsKept DEF LineInv
  <2>5. \A k \in 1..Len(my) : my'[k].num <= my[k].num /\ my'[k].num \in Nat /\ my[k].num \in Nat
    <3> SUFFICES ASSUME NEW k \in 1..Len(my)
                 PROVE  my'[k].num <= my[k].num /\ my'[k].num \in Nat /\ my[k].num \in Nat
      OBVIOUS
    <3>1. my[k].num \in Nat /\ my'[k].num = my[k].num
      BY <2>1 DEF Cmd
    <3> QED BY <3>1
  <2>6. i' # i + 1
    BY <1>1, <2>3
  <2>7. Prompt'
    BY <2>2, <2>5, <2>6, PromptKept DEF LineInv
  <2>8. Failing'
    BY <1>1, <1>4 DEF Failing
  <2>9. AllUse' <=> AllUse
    <3>1. \A k \in 1..(i - 1) : New(k) => k \in 1..Len(my)
      BY <2>3 DEF New
    <3> QED BY <1>1, <2>3, <3>1 DEF AllUse
  <2>10. Stops'
    <3> SUFFICES ASSUME i <= Len(my)
                 PROVE  /\ stop_pipe /\ ~AllUse => New(i - 1) /\ my'[i - 1].type = "NUM_PIPE"
                        /\ ~stop_pipe => New(i - 1) /\ my'[i - 1].type # "NUM_PIPE"
      BY <1>1, <1>4, <2>1, <2>3, <2>9 DEF Stops
    <3>1. /\ stop_pipe /\ ~AllUse => New(i - 1) /\ my[i - 1].type = "NUM_PIPE"
          /\ ~stop_pipe => New(i - 1) /\ my[i - 1].type # "NUM_PIPE"
      BY <2>2 DEF LineInv, Stops
    <3>2. New(i - 1) => my'[i - 1].type = my[i - 1].type
      BY <2>1, <2>3 DEF New, Kept
    <3> QED BY <3>1, <3>2
  <2> QED BY <2>4, <2>7, <2>8, <2>10 DEF LineInv
<1> QED BY <1>2, <1>3, <1>4

LEMMA LineStageFails ==
  ASSUME Typed, LineInv, StageFails
  PROVE  LineInv'
<1>1. /\ AtStage /\ pc = "stage" /\ pc # "read" /\ cur' = cur /\ i' = i /\ stop_pipe' = stop_pipe
      /\ fresh' = fresh /\ lines' = lines /\ pc' = "waitpre" /\ ~(CanRead /\ CanWrite)
      /\ cmds' = [cmds EXCEPT ![cur] = Mark(reduce_num_pipes(my), i, TRUE)]
  BY StageFailsCmds DEF AtStage, ghost, line
<1>2. /\ my' \in Seq(Cmd) /\ Len(my') = Len(my) /\ i \in 1..Len(my)
      /\ \A v \in User : v # cur => cmds'[v] = cmds[v]
      /\ \A k \in 1..Len(my) : my[k] \in Cmd /\ Kept(my'[k], my[k])
  BY <1>1, StageCmds
<1>12. \A k \in 1..Len(my) : my'[k].num = my[k].num \/ my'[k].num = Down(my[k].num)
  BY <1>1, StageCmds
<1>13. \A k \in 1..Len(my) : k # i => my'[k].piped = my[k].piped
  BY <1>1, StageCmds
<1>3. SameLine /\ InLine /\ i' \in {i, i + 1}
  BY <1>1, <1>2 DEF SameLine, InLine
<1>4. /\ DOMAIN my = 1..Len(my) /\ DOMAIN my' = 1..Len(my) /\ Len(my) \in Nat /\ i \in Nat /\ i > 0
      /\ \A k : New(k)' <=> New(k)
      /\ \A k \in 1..Len(my) : (Reads(my'[k]) <=> Reads(my[k])) /\ (UsesPipe(my'[k]) <=> UsesPipe(my[k]))
  BY <1>1, <1>3, NewKept
<1>5. JobsInOrder'
  BY <1>1, <1>2, <1>3, JobsKept DEF LineInv
<1>6. \A k \in 1..Len(my) : my'[k].num <= my[k].num /\ my'[k].num \in Nat /\ my[k].num \in Nat
  <2> SUFFICES ASSUME NEW k \in 1..Len(my)
               PROVE  my'[k].num <= my[k].num /\ my'[k].num \in Nat /\ my[k].num \in Nat
    OBVIOUS
  <2>1. my[k].num \in Nat
    BY <1>2 DEF Cmd
  <2>2. Down(my[k].num) \in Nat /\ Down(my[k].num) <= my[k].num
    BY <2>1, DownType
  <2>3. my'[k].num = Down(my[k].num) \/ my'[k].num = my[k].num
    BY <1>12
  <2> QED BY <2>1, <2>2, <2>3
<1>7. i' # i + 1
  BY <1>1, <1>4
<1>8. Prompt'
  BY <1>3, <1>6, <1>7, PromptKept DEF LineInv
<1>9. Failing'
  <2>1. C = my[i] /\ (C.rd # -1 \/ C.wr # -1)
    BY <1>1 DEF C, CanRead, CanWrite
  <2>2. UsesPipe(my[i])
    BY <2>1 DEF UsesPipe
  <2> QED BY <1>1, <1>2, <1>4, <2>2 DEF Failing
<1>10. AllUse' <=> AllUse
  <2>1. \A k \in 1..(i - 1) : New(k) => k \in 1..Len(my)
    BY <1>4 DEF New
  <2> QED BY <1>1, <1>4, <2>1 DEF AllUse
<1>11. Stops'
  <2> SUFFICES ASSUME i <= Len(my)
               PROVE  /\ stop_pipe /\ ~AllUse => New(i - 1) /\ my'[i - 1].type = "NUM_PIPE"
                                                 /\ (my'[i - 1].piped => ~fresh)
                      /\ ~stop_pipe => New(i - 1) /\ my'[i - 1].type # "NUM_PIPE"
    BY <1>1, <1>2, <1>4, <1>10 DEF Stops
  <2>1. /\ stop_pipe /\ ~AllUse => New(i - 1) /\ my[i - 1].type = "NUM_PIPE" /\ (my[i - 1].piped => ~fresh)
        /\ ~stop_pipe => New(i - 1) /\ my[i - 1].type # "NUM_PIPE"
    BY <1>3 DEF LineInv, Stops
  <2>2. New(i - 1) => i - 1 \in 1..Len(my) /\ i - 1 # i
    BY <1>4 DEF New
  <2>3. New(i - 1) => my'[i - 1].type = my[i - 1].type
    BY <1>2, <2>2 DEF Kept
  <2>4. New(i - 1) => my'[i - 1].piped = my[i - 1].piped
    BY <1>13, <2>2
  <2> QED BY <2>1, <2>3, <2>4
<1> QED BY <1>5, <1>8, <1>9, <1>11 DEF LineInv

(* The command that is served is a new one.                                 *)
LEMMA ServedIsNew ==
  ASSUME Typed, PoolInv, InLine, i <= Len(my)
  PROVE  New(i) /\ i \in 1..Len(my)
<1>1. pc # "read" /\ Len(my) \in Nat /\ DOMAIN my = 1..Len(my)
  BY CurUser DEF Typed, InLine
<1>2. i \in 1..Len(my)
  BY <1>1 DEF Typed, TypeInv, Progress
<1>3. i >= i
  BY <1>1, <1>2
<1> QED BY <1>1, <1>2, <1>3 DEF PoolInv, Ahead, AheadOf, New

LEMMA LineWaitPre ==
  ASSUME Typed, PoolInv, LineInv, WaitPre
  PROVE  LineInv'
<1>1. /\ pc = "waitpre" /\ pc # "read" /\ pc' = "stage" /\ i' = i + 1
      /\ UNCHANGED <<cur, stop_pipe, cmds, lines>> /\ my' = my
  BY DEF WaitPre, NextStage, ghost, my
<1>2. /\ my \in Seq(Cmd) /\ i <= Len(my) /\ InLine /\ \A k \in 1..Len(my) : my[k] \in Cmd
  BY <1>1, CurUser DEF Typed, Progress, InLine
<1>3. SameLine
  BY <1>1, <1>2 DEF SameLine, Kept
<1>4. /\ DOMAIN my = 1..Len(my) /\ Len(my) \in Nat /\ i \in Nat /\ i > 0 /\ \A k : New(k)' <=> New(k)
  BY <1>1, <1>3, NewKept
<1>5. New(i) /\ i \in 1..Len(my) /\ UsesPipe(my[i])
  BY <1>1, <1>2, ServedIsNew DEF LineInv, Failing
<1>6. ASSUME NEW m \in 1..Len(my), New(m), m < Len(my), my[m].type = "NUM_PIPE" PROVE FALSE
  <2>1. PromptAt(m)
    BY <1>2, <1>4, <1>6 DEF LineInv, Prompt
  <2> QED BY <1>4, <1>5, <1>6, <2>1 DEF PromptAt
<1>7. \A k \in 1..Len(my) : my'[k].num <= my[k].num /\ my'[k].num \in Nat /\ my[k].num \in Nat
  <2> SUFFICES ASSUME NEW k \in 1..Len(my) PROVE my[k].num <= my[k].num /\ my[k].num \in Nat
    BY <1>1
  <2>1. my[k].num \in Nat
    BY <1>2 DEF Cmd
  <2> QED BY <2>1
<1>8. ~(i < Len(my) /\ my[i].type = "NUM_PIPE")
  BY <1>5, <1>6
<1>9. Prompt'
  BY <1>1, <1>2, <1>3, <1>7, <1>8, PromptKept DEF LineInv
<1>10. JobsInOrder' /\ Failing'
  BY <1>1, <1>2, <1>3, JobsKept DEF LineInv, Failing
<1>11. ASSUME i + 1 <= Len(my), stop_pipe PROVE AllUse'
  <2> SUFFICES ASSUME NEW k \in 1..i, New(k) PROVE UsesPipe(my[k])
    BY <1>1, <1>4 DEF AllUse
  <2>1. CASE k = i
    BY <1>5, <2>1
  <2>2. CASE k # i /\ AllUse
    <3>1. k \in 1..(i - 1)
      BY <1>4, <2>2
    <3> QED BY <2>2, <3>1 DEF AllUse
  <2>3. CASE ~AllUse
    <3>1. New(i - 1) /\ my[i - 1].type = "NUM_PIPE"
      BY <1>2, <1>11, <2>3 DEF LineInv, Stops
    <3>2. i - 1 \in 1..Len(my) /\ i - 1 < Len(my)
      BY <1>4, <1>5, <3>1 DEF New
    <3> QED BY <1>6, <3>1, <3>2
  <2> QED BY <2>1, <2>2, <2>3
<1>12. ASSUME i + 1 <= Len(my) PROVE my[i].type # "NUM_PIPE"
  BY <1>4, <1>8, <1>12
<1>13. i' - 1 = i
  BY <1>1, <1>4
<1>14. Stops'
  BY <1>1, <1>4, <1>5, <1>11, <1>12, <1>13 DEF Stops
<1> QED BY <1>9, <1>10, <1>14 DEF LineInv

LEMMA LineForks ==
  ASSUME Typed, PoolInv, LineInv, StageForks
  PROVE  LineInv'
<1>1. /\ AtStage /\ pc = "stage" /\ pc # "read" /\ pc' = "stage" /\ cur' = cur /\ i' = i + 1
      /\ lines' = lines /\ (stop_pipe' <=> C.type = "NUM_PIPE") /\ C = my[i]
  BY StageForksNames DEF AtStage, C
<1>2. /\ my' \in Seq(Cmd) /\ Len(my') = Len(my) /\ i \in 1..Len(my)
      /\ \A v \in User : v # cur => cmds'[v] = cmds[v]
      /\ \A k \in 1..Len(my) : my[k] \in Cmd /\ Kept(my'[k], my[k])
  BY StageForksCmds
<1>3. \A k \in 1..Len(my) : my'[k].num = my[k].num \/ my'[k].num = Down(my[k].num)
  BY StageForksCmds
<1>4. C.type = "NUM_PIPE" => my'[i].num = Down(my[i].num) /\ ~my'[i].piped
  <2>1. i \in 1..Len(my) /\ i <= i
    BY <1>2
  <2> QED BY <2>1, StageForksCmds
<1>5. SameLine /\ InLine /\ InLine' /\ i' \in {i, i + 1}
  BY <1>1, <1>2 DEF SameLine, InLine
<1>6. /\ DOMAIN my = 1..Len(my) /\ DOMAIN my' = 1..Len(my) /\ Len(my) \in Nat /\ i \in Nat /\ i > 0
      /\ \A k : New(k)' <=> New(k)
      /\ \A k \in 1..Len(my) : (Reads(my'[k]) <=> Reads(my[k])) /\ (UsesPipe(my'[k]) <=> UsesPipe(my[k]))
  BY <1>1, <1>5, NewKept
<1>7. New(i) /\ i' - 1 = i
  BY <1>1, <1>2, <1>5, <1>6, ServedIsNew
<1>8. \A k \in 1..Len(my) : my'[k].num <= my[k].num /\ my'[k].num \in Nat /\ my[k].num \in Nat
  <2> SUFFICES ASSUME NEW k \in 1..Len(my)
               PROVE  my'[k].num <= my[k].num /\ my'[k].num \in Nat /\ my[k].num \in Nat
    OBVIOUS
  <2>1. my[k].num \in Nat
    BY <1>2 DEF Cmd
  <2>2. Down(my[k].num) \in Nat /\ Down(my[k].num) <= my[k].num
    BY <2>1, DownType
  <2>3. my'[k].num = Down(my[k].num) \/ my'[k].num = my[k].num
    BY <1>3
  <2> QED BY <2>1, <2>2, <2>3
<1>9. ASSUME i < Len(my), my[i].type = "NUM_PIPE", Reads(my[i + 1]) PROVE my'[i].num = 0
  <2>1. my[i].num <= 1 /\ my[i].num \in Nat
    BY <1>2, <1>5, <1>6, <1>7, <1>8, <1>9 DEF LineInv, Prompt, PromptAt
  <2>2. my'[i].num = Down(my[i].num)
    BY <1>1, <1>4, <1>9
  <2> QED BY <2>1, <2>2 DEF Down
<1>10. Prompt'
  BY <1>5, <1>8, <1>9, PromptKept DEF LineInv
<1>11. JobsInOrder' /\ Failing'
  BY <1>1, <1>2, <1>5, JobsKept DEF LineInv, Failing
<1>12. Stops'
  <2>1. my'[i].type = my[i].type
    BY <1>2 DEF Kept
  <2> QED BY <1>1, <1>4, <1>6, <1>7, <2>1 DEF Stops
<1> QED BY <1>10, <1>11, <1>12 DEF LineInv

(* The other steps: the line ends, or is not concerned.                     *)
LEMMA LineEnds ==
  ASSUME Typed, LineInv, EndLine \/ Reap
  PROVE  LineInv'
<1>1. ~InLine' /\ pc' # "waitpre" /\ lines' = lines
  BY ReapNames DEF EndLine, InLine, ghost
<1>2. ASSUME NEW u \in User, NEW k \in DOMAIN cmds'[u] PROVE cmds'[u][k].job[1] <= lines
  <2>1. CASE EndLine
    BY <1>2, <2>1 DEF EndLine, LineInv, JobsInOrder
  <2>2. CASE Reap /\ u # cur
    <3>1. cmds'[u] = cmds[u]
      BY <2>2, ReapParts
    <3> QED BY <3>1 DEF LineInv, JobsInOrder
  <2>3. CASE Reap /\ u = cur
    <3>1. k \in 1..Cardinality(Remaining)
      BY <1>2, <2>3, ReapParts
    <3>2. PICK n \in 1..Len(my) : Kept(cmds'[cur][k], my[n])
      BY <2>3, <3>1, ReapParts
    <3>3. cur \in User /\ n \in DOMAIN cmds[cur] /\ my = cmds[cur]
      BY <2>3, ReapParts, LenProperties DEF my
    <3> QED BY <2>3, <3>2, <3>3 DEF LineInv, JobsInOrder, Kept
  <2> QED BY <2>1, <2>2, <2>3
<1> QED BY <1>1, <1>2 DEF LineInv, JobsInOrder, Prompt, Failing, Stops

LEMMA LineSame ==
  ASSUME LineInv, UNCHANGED <<pc, line, cmds, lines>>
  PROVE  LineInv'
<1>1. my' = my
  BY DEF line, my
<1>2. \A k : New(k)' <=> New(k)
  BY <1>1 DEF New
<1>3. \A m : PromptAt(m)' <=> PromptAt(m)
  BY <1>1, <1>2 DEF PromptAt, line
<1>4. AllUse' <=> AllUse
  BY <1>1, <1>2 DEF AllUse, line
<1> QED BY <1>1, <1>2, <1>3, <1>4 DEF LineInv, JobsInOrder, Prompt, Failing, Stops, InLine, line

LEMMA LineStep ==
  ASSUME PromptLines, Typed, PoolInv, LineInv, [Next]_vars
  PROVE  LineInv'
<1>1. ASSUME NEW u \in User, NEW l \in Inputs[u], Start(u, l) PROVE LineInv'
  <2>1. GoodLine(l) /\ PromptLine(l)
    BY InputAssumption DEF GoodLine, PromptLines
  <2> QED BY <1>1, <2>1, LineStart
<1>2. ASSUME NEW p \in procs, Finish(p) PROVE LineInv'
  BY <1>2, LineSame DEF Finish, ghost
<1>3. CASE UNCHANGED vars
  BY <1>3, LineSame DEF vars, ghost
<1> QED BY <1>1, <1>2, <1>3, LineCollect, LineStageFails, LineWaitPre, LineForks, LineEnds DEF Next, Server

-------------------------------------------------------------------------------
(* Which pipes of the line are open: the temporary pipes not taken yet, and *)
(* the pipes of its commands; and a write end is open only together with    *)
(* its read end.                                                            *)
Untaken   == temp_id = 0 \/ ~fresh \/ (stop_pipe /\ AllUse)
TempsOpen == InLine /\ i <= Len(my) =>
  \A m \in DOMAIN temp : m > temp_id + 1 \/ (m = temp_id + 1 /\ Untaken) => OpenIn(tab, temp[m])
MyOpen    == InLine => \A k \in DOMAIN my : my[k].type # "NUM_PIPE" => OpenIn(tab, my[k].fd)
EndsAt(fd, q, f) == fd[2] = f /\ fd[1] \in DOMAIN tab /\ tab[fd[1]] = <<q, "r">>
Paired    == \A q \in Pipes, f \in DOMAIN tab : tab[f] = <<q, "w">> =>
               \/ \E u \in User : \E k \in DOMAIN cmds[u] : EndsAt(cmds[u][k].fd, q, f)
               \/ \E m \in DOMAIN temp : EndsAt(temp[m], q, f)
OpenInv   == TempsOpen /\ MyOpen /\ Paired

(* What a step in the line closes: nothing of a pair but both.              *)
Closing ==
  /\ \A f \in DOMAIN tab' : \/ f \in DOMAIN tab /\ tab'[f] = tab[f]
                            \/ \A q : tab'[f] # <<q, "w">>
  /\ \A u \in User : \A k \in DOMAIN cmds[u] :
       cmds[u][k].fd[1] \in DOMAIN tab /\ cmds[u][k].fd[2] \in DOMAIN tab' =>
         cmds[u][k].fd[1] \in DOMAIN tab' /\ tab'[cmds[u][k].fd[1]] = tab[cmds[u][k].fd[1]]
  /\ \A m \in DOMAIN temp : temp[m][1] \in DOMAIN tab /\ temp[m][2] \in DOMAIN tab' =>
       temp[m][1] \in DOMAIN tab' /\ tab'[temp[m][1]] = tab[temp[m][1]]

LEMMA PairedKept ==
  ASSUME Paired, SameCmds, temp' = temp, Closing
  PROVE  Paired'
<1> SUFFICES ASSUME NEW q \in Pipes, NEW f \in DOMAIN tab', tab'[f] = <<q, "w">>
             PROVE  \/ \E u \in User : \E k \in DOMAIN cmds'[u] : EndsAt(cmds[u][k].fd, q, f)'
                    \/ \E m \in DOMAIN temp : EndsAt(temp[m], q, f)'
  BY DEF Paired
<1>1. f \in DOMAIN tab /\ tab[f] = <<q, "w">>
  BY DEF Closing
<1>2. CASE \E u \in User : \E k \in DOMAIN cmds[u] : EndsAt(cmds[u][k].fd, q, f)
  <2>1. PICK u \in User : \E k \in DOMAIN cmds[u] : EndsAt(cmds[u][k].fd, q, f)
    BY <1>2
  <2>2. PICK k \in DOMAIN cmds[u] : EndsAt(cmds[u][k].fd, q, f)
    BY <2>1
  <2>3. cmds'[u][k].fd = cmds[u][k].fd /\ k \in DOMAIN cmds'[u]
    BY DEF SameCmds, Kept
  <2>4. cmds[u][k].fd[1] \in DOMAIN tab' /\ tab'[cmds[u][k].fd[1]] = <<q, "r">>
    BY <2>2 DEF EndsAt, Closing
  <2>5. EndsAt(cmds[u][k].fd, q, f)'
    BY <2>2, <2>3, <2>4 DEF EndsAt
  <2> QED BY <2>3, <2>5
<1>3. CASE \E m \in DOMAIN temp : EndsAt(temp[m], q, f)
  <2>1. PICK m \in DOMAIN temp : EndsAt(temp[m], q, f)
    BY <1>3
  <2>2. temp[m][1] \in DOMAIN tab' /\ tab'[temp[m][1]] = <<q, "r">>
    BY <2>1 DEF EndsAt, Closing
  <2>3. EndsAt(temp[m], q, f)'
    BY <2>1, <2>2 DEF EndsAt
  <2> QED BY <2>3
<1> QED BY <1>1, <1>2, <1>3 DEF Paired

(* A pipe that is not closed stays open.                                    *)
LEMMA OpenKept ==
  ASSUME NEW fd, OpenIn(tab, fd), \A f \in {fd[1], fd[2]} : f \in DOMAIN tab' /\ tab'[f] = tab[f]
  PROVE  OpenIn(tab', fd)
BY DEF OpenIn

(* What the server closes after a fork.                                     *)
LEMMA ForkCloses ==
  ASSUME Typed, PlaceInv, PlaceInv', StageForks
  PROVE  /\ \A f \in DOMAIN tab :
              /\ f \in DOMAIN tab' <=> /\ ~(temp_id # 0 /\ f \in Both(temp[temp_id + 1]))
                                       /\ ~(C.rd # -1 /\ f = user_pipe[C.rd][cur][1])
              /\ f \in DOMAIN tab' => tab'[f] = tab[f]
         /\ \A f \in DOMAIN tab' : f \notin DOMAIN tab => \E q \in FreePipes : tab'[f] = <<q, "r">>
         /\ \A f \in DOMAIN ForkTab : f \notin DOMAIN tab => \E q \in FreePipes, x \in {"r", "w"} : ForkTab[f] = <<q, x>>
<1> DEFINE F == ParentCloses(ForkUp)
<1>1. tab' = Close(ForkTab, F)
  BY StageForksNames
<1>2. DOMAIN tab' = DOMAIN ForkTab \ F /\ \A f \in DOMAIN tab' : tab'[f] = ForkTab[f]
  <2> HIDE DEF F
  <2> QED BY <1>1, CloseParts
<1>3. \A f \in DOMAIN tab : f \in DOMAIN ForkTab /\ ForkTab[f] = tab[f]
  BY StageForksNames, ForkTabParts
<1>4. C.rd # -1 => ForkUp[C.rd][cur] = user_pipe[C.rd][cur]
  BY ForkPipes
<1>5. \A f : f \in F <=> \/ temp_id # 0 /\ f \in Both(temp[temp_id + 1])
                         \/ C.rd # -1 /\ f = user_pipe[C.rd][cur][1]
                         \/ C.wr # -1 /\ f = ForkUp[cur][C.wr][2]
  BY <1>4 DEF ParentCloses
<1> HIDE DEF F
<1>6. CASE C.wr = -1
  <2>1. DOMAIN ForkTab = DOMAIN tab
    BY <1>6, StageForksNames, ForkTabParts
  <2> QED BY <1>2, <1>3, <1>5, <1>6, <2>1
<1>7. CASE C.wr # -1
  <2>1. PICK a \in FreeFd, b \in FreeFd, q \in FreePipes :
          /\ a # b /\ DOMAIN ForkTab = DOMAIN tab \cup {a, b}
          /\ ForkTab[a] = <<q, "r">> /\ ForkTab[b] = <<q, "w">>
          /\ ForkUp = [user_pipe EXCEPT ![cur][C.wr] = <<a, b>>]
    BY <1>7, StageForksNames, ForkTabParts
  <2>2. a \notin DOMAIN tab /\ b \notin DOMAIN tab
    BY DEF FreeFd
  <2>3. ForkUp[cur][C.wr] = <<a, b>>
    <3>1. cur \in User /\ C.wr \in User
      BY <1>7, ForkCmds
    <3>2. user_pipe \in [User -> [User -> Pair]]
      BY DEF Typed, TypeInv
    <3> QED BY <2>1, <3>1, <3>2
  <2>4. ForkUp[cur][C.wr][2] = b
    BY <2>3
  <2>5. \A f \in DOMAIN tab : f # b
    BY <2>2
  <2>6. \A f \in DOMAIN tab' : f \notin DOMAIN tab => f = a
    BY <1>2, <1>5, <1>7, <2>1, <2>4
  <2>7. \A f \in DOMAIN ForkTab : f \notin DOMAIN tab => f = a \/ f = b
    BY <2>1
  <2> QED BY <1>2, <1>3, <1>5, <1>7, <2>1, <2>4, <2>5, <2>6, <2>7
<1> QED BY <1>6, <1>7

LEMMA OpenStart ==
  ASSUME Typed, PlaceInv, OpenInv, NEW u \in User, NEW l, GoodLine(l), Start(u, l),
         NEW n, n = TempPipes + Len(split_by_pipe(l)), NEW K, K = Len(cmds[u]), NEW P, P = NewPairs(l),
         NEW F, F = NewFds(l), NEW id, id = LowSeq(FreePipes, n), NEW M, M = Len(split_by_pipe(l))
  PROVE  OpenInv'
<1>1. /\ pc = "read" /\ cur = None /\ temp = << >> /\ pc' = "stage" /\ cur' = u /\ temp_id' = 0
      /\ Room(NeedsFds(l), TempPipes + Len(split_by_pipe(l)))
  BY StartNames DEF PlaceInv, Typed, Progress
<1>2. /\ cmds[u] \in Seq(Cmd) /\ K \in Nat /\ M \in Nat
      /\ \A k \in 1..K : cmds'[u][k] = cmds[u][k]
      /\ \A k \in 1..M : cmds'[u][K + k].fd = P[TempPipes + k]
      /\ \A v \in User : v # u => cmds'[v] = cmds[v]
      /\ n = TempPipes + M /\ n \in Nat /\ TempPipes \in Nat
      /\ DOMAIN cmds[u] = 1..K /\ DOMAIN cmds'[u] = 1..(K + M)
      /\ DOMAIN temp' = 1..TempPipes /\ \A m \in 1..TempPipes : temp'[m] = P[m]
  <2>1. /\ cmds[u] \in Seq(Cmd) /\ K \in Nat /\ M \in Nat /\ Given(u, K, M, P)
        /\ \A k \in 1..K : cmds'[u][k] = cmds[u][k]
        /\ \A v \in User : v # u => cmds'[v] = cmds[v]
        /\ n = TempPipes + M /\ n \in Nat /\ TempPipes \in Nat
        /\ DOMAIN cmds[u] = 1..K /\ DOMAIN cmds'[u] = 1..(K + M)
        /\ DOMAIN temp' = 1..TempPipes /\ \A m \in 1..TempPipes : temp'[m] = P[m]
    BY StartFds
  <2> QED BY <2>1 DEF Given
<1>3. /\ \A f : f \in DOMAIN tab' <=> \/ f \in DOMAIN tab \/ \E a \in 1..3 : f = F[a]
                                      \/ \E m \in 1..n : \E e \in {1, 2} : f = P[m][e]
      /\ \A f \in DOMAIN tab : tab'[f] = tab[f]
      /\ \A a \in 1..3 : tab'[F[a]] = Other
      /\ \A m \in 1..n : /\ id[m] \in FreePipes
                         /\ tab'[P[m][1]] = <<id[m], "r">> /\ tab'[P[m][2]] = <<id[m], "w">>
  BY StartTab
<1>4. \A m \in 1..n : /\ P[m][1] \in DOMAIN tab' /\ P[m][2] \in DOMAIN tab' /\ OpenIn(tab', P[m])
                      /\ id[m] \in Pipes
  <2> SUFFICES ASSUME NEW m \in 1..n
               PROVE  /\ P[m][1] \in DOMAIN tab' /\ P[m][2] \in DOMAIN tab' /\ OpenIn(tab', P[m])
                      /\ id[m] \in Pipes
    OBVIOUS
  <2>1. P[m][1] \in DOMAIN tab' /\ P[m][2] \in DOMAIN tab'
    BY <1>3
  <2>2. id[m] \in Pipes
    BY <1>3 DEF FreePipes
  <2> QED BY <1>3, <2>1, <2>2 DEF OpenIn
<1>5. \A m \in 1..TempPipes : m \in 1..n
  BY <1>2
<1>6. \A k \in 1..M : TempPipes + k \in 1..n
  BY <1>2
<1>7. my' = cmds'[u]
  BY <1>1 DEF my
<1>8. \A k \in 1..(K + M) : k \in 1..K \/ (k - K \in 1..M /\ cmds'[u][k].fd = P[TempPipes + (k - K)])
  <2> SUFFICES ASSUME NEW k \in 1..(K + M), k \notin 1..K
               PROVE  k - K \in 1..M /\ cmds'[u][k].fd = P[TempPipes + (k - K)]
    OBVIOUS
  <2>1. k - K \in 1..M /\ K + (k - K) = k
    BY <1>2
  <2> QED BY <1>2, <2>1
<1>9. TempsOpen'
  BY <1>2, <1>4, <1>5 DEF TempsOpen
<1>10. MyOpen'
  <2> SUFFICES ASSUME NEW k \in 1..(K + M), cmds'[u][k].type # "NUM_PIPE" PROVE OpenIn(tab', cmds'[u][k].fd)
    BY <1>2, <1>7 DEF MyOpen
  <2>1. k \notin 1..K
    <3>1. u # cur
      BY <1>1, BoundAssumption
    <3>2. \A m \in DOMAIN cmds[u] : cmds[u][m].type = "NUM_PIPE"
      BY <3>1 DEF Typed, Progress
    <3> QED BY <1>2, <3>2
  <2> QED BY <1>4, <1>6, <1>8, <2>1
<1>11. Paired'
  <2> SUFFICES ASSUME NEW q \in Pipes, NEW f \in DOMAIN tab', tab'[f] = <<q, "w">>
               PROVE  \/ \E v \in User : \E k \in DOMAIN cmds'[v] : EndsAt(cmds[v][k].fd, q, f)'
                      \/ \E m \in DOMAIN temp' : EndsAt(temp[m], q, f)'
    BY DEF Paired
  <2>1. <<q, "w">> # Other
    BY BoundAssumption DEF Other
  <2>2. CASE f \in DOMAIN tab
    <3>1. DOMAIN temp = {} /\ tab[f] = <<q, "w">>
      BY <1>1, <1>3, <2>2
    <3>2. PICK v \in User : \E k \in DOMAIN cmds[v] : EndsAt(cmds[v][k].fd, q, f)
      BY <2>2, <3>1 DEF OpenInv, Paired
    <3>3. PICK k \in DOMAIN cmds[v] : EndsAt(cmds[v][k].fd, q, f)
      BY <3>2
    <3>4. k \in DOMAIN cmds'[v] /\ cmds'[v][k] = cmds[v][k]
      <4>1. CASE v = u
        <5>1. k \in 1..K /\ k \in 1..(K + M)
          BY <1>2, <4>1
        <5> QED BY <1>2, <4>1, <5>1
      <4> QED BY <1>2, <4>1
    <3>5. EndsAt(cmds[v][k].fd, q, f)'
      BY <1>3, <3>3, <3>4 DEF EndsAt
    <3> QED BY <3>4, <3>5
  <2>3. CASE f \notin DOMAIN tab
    <3>1. PICK m \in 1..n, e \in {1, 2} : f = P[m][e]
      BY <1>3, <2>1, <2>3
    <3>2. f = P[m][2] /\ q = id[m]
      BY <1>3, <3>1
    <3>3. P[m][1] \in DOMAIN tab' /\ tab'[P[m][1]] = <<q, "r">>
      BY <1>3, <1>4, <3>2
    <3>4. CASE m \in 1..TempPipes
      <4>1. EndsAt(temp[m], q, f)'
        BY <1>2, <3>2, <3>3, <3>4 DEF EndsAt
      <4> QED BY <1>2, <3>4, <4>1
    <3>5. CASE m \notin 1..TempPipes
      <4>1. PICK k \in 1..M : m = TempPipes + k
        <5>1. m - TempPipes \in 1..M /\ m = TempPipes + (m - TempPipes)
          BY <1>2, <3>5
        <5> QED BY <5>1
      <4>2. K + k \in DOMAIN cmds'[u] /\ cmds'[u][K + k].fd = P[m]
        BY <1>2, <4>1
      <4>3. EndsAt(cmds[u][K + k].fd, q, f)'
        BY <3>2, <3>3, <4>2 DEF EndsAt
      <4> QED BY <4>2, <4>3
    <3> QED BY <3>4, <3>5
  <2> QED BY <2>2, <2>3
<1> QED BY <1>9, <1>10, <1>11 DEF OpenInv

(* What a collector leaves.                                                 *)
LEMMA CollectParts ==
  ASSUME Typed, PlaceInv, Collect, pc' # "killed"
  PROVE  /\ AtStage /\ pc = "stage" /\ pc' = "stage" /\ UNCHANGED <<cur, i, temp, stop_pipe, lines>>
         /\ temp_id' = NextTemp /\ fresh' = FALSE /\ NextTemp < TempPipes
         /\ cur \in User /\ DOMAIN my' = DOMAIN my /\ my = cmds[cur] /\ my' = cmds'[cur]
         /\ SameCmds /\ SameLine
         /\ \E j \in 1..(i - 1) :
              /\ j \in DOMAIN my /\ my[j].type = "NUM_PIPE" /\ ~my[j].piped /\ Due(cur, j)
              /\ procs' = procs \cup {Collector(j)}
              /\ DOMAIN tab' = DOMAIN tab \ Both(my[j].fd) /\ \A f \in DOMAIN tab' : tab'[f] = tab[f]
<1>1. /\ AtStage /\ pc = "stage" /\ pc # "read" /\ UNCHANGED <<cur, i, temp, stop_pipe, lines>>
      /\ temp_id' = NextTemp /\ fresh' = FALSE
  BY CollectNames DEF AtStage, ghost
<1>2. PICK j \in 1..(i - 1) :
        /\ Due(cur, j) /\ NextTemp < TempPipes /\ pc' = pc
        /\ procs' = procs \cup {Collector(j)}
        /\ cmds' = [cmds EXCEPT ![cur] = [@ EXCEPT ![j].piped = TRUE]]
        /\ tab' = Close(tab, Both(my[j].fd))
  BY CollectNames
<1>3. /\ cur \in User /\ i \in 1..Len(my) /\ Len(my) \in Nat /\ DOMAIN my = 1..Len(my)
      /\ my' = cmds'[cur] /\ my = cmds[cur]
  BY <1>1, CurUser DEF Typed, my
<1>4. /\ my' \in Seq(Cmd) /\ Len(my') = Len(my)
      /\ \A v \in User : v # cur => cmds'[v] = cmds[v]
      /\ \A k \in 1..Len(my) : Kept(my'[k], my[k]) /\ (k # j => my'[k] = my[k])
      /\ my'[j].piped
  BY <1>1, <1>2, CollectCmds
<1>5. DOMAIN my' = 1..Len(my) /\ j \in DOMAIN my
  BY <1>3, <1>4, LenProperties
<1>6. SameCmds
  <2>1. \A u \in User : DOMAIN cmds'[u] = DOMAIN cmds[u]
    BY <1>3, <1>4, <1>5
  <2>2. ASSUME NEW u \in User, NEW k \in DOMAIN cmds[u], u # cur
        PROVE  cmds'[u][k] = cmds[u][k]
    BY <1>4, <2>2
  <2>3. ASSUME NEW k \in DOMAIN my
        PROVE  Kept(my'[k], my[k]) /\ (my[k].piped => my'[k].piped)
    BY <1>3, <1>4
  <2> QED BY <1>3, <2>1, <2>2, <2>3 DEF SameCmds, Kept
<1> DEFINE F == Both(my[j].fd)
<1>7. DOMAIN tab' = DOMAIN tab \ F /\ \A f \in DOMAIN tab' : tab'[f] = tab[f]
  <2>1. tab' = Close(tab, F)
    BY <1>2
  <2> HIDE DEF F
  <2>2. DOMAIN Close(tab, F) = DOMAIN tab \ F /\ \A f \in DOMAIN tab \ F : Close(tab, F)[f] = tab[f]
    BY CloseParts
  <2> QED BY <2>1, <2>2
<1>8. my[j].type = "NUM_PIPE" /\ ~my[j].piped
  BY <1>2 DEF Due, my
<1>9. SameLine
  BY <1>1, <1>3, <1>4 DEF SameLine
<1> QED BY <1>1, <1>2, <1>3, <1>5, <1>6, <1>7, <1>8, <1>9

LEMMA OpenCollect ==
  ASSUME Typed, PlaceInv, OpenInv, Collect
  PROVE  OpenInv'
<1>1. CASE pc' = "killed"
  <2>1. UNCHANGED <<cmds, tab, temp>> /\ ~InLine'
    BY <1>1, CollectNames DEF InLine, AtStage
  <2> QED BY <2>1 DEF OpenInv, TempsOpen, MyOpen, Paired, EndsAt
<1>2. CASE pc' # "killed"
  <2>1. /\ AtStage /\ pc = "stage" /\ pc' = "stage" /\ UNCHANGED <<cur, i, temp, stop_pipe, lines>>
        /\ temp_id' = NextTemp /\ fresh' = FALSE
        /\ cur \in User /\ DOMAIN my' = DOMAIN my /\ my = cmds[cur] /\ my' = cmds'[cur] /\ SameCmds
    BY <1>2, CollectParts
  <2>2. PICK j \in DOMAIN my :
          /\ my[j].type = "NUM_PIPE"
          /\ DOMAIN tab' = DOMAIN tab \ Both(my[j].fd) /\ \A f \in DOMAIN tab' : tab'[f] = tab[f]
    BY <1>2, CollectParts
  <2>3. Distinct /\ \A f : f \in Both(my[j].fd) <=> f = my[j].fd[1] \/ f = my[j].fd[2]
    BY DEF PlaceInv, Both
  <2>4. \A m \in DOMAIN temp : \A e \in {1, 2} : temp[m][e] \notin Both(my[j].fd)
    BY <2>1, <2>3, Separate
  <2>5. \A v \in User : \A k \in DOMAIN cmds[v] : \A e \in {1, 2} :
          cmds[v][k].fd[e] \in Both(my[j].fd) => v = cur /\ k = j
    BY <2>1, <2>3, Separate
  <2>6. InLine /\ i <= Len(my) /\ Len(my) \in Nat /\ temp_id \in Nat /\ Len(my') = Len(my)
    <3>1. pc # "read" /\ my' \in Seq(Cmd)
      BY <2>1, CollectCmds, CollectParts, <1>2 DEF SameLine
    <3>2. my \in Seq(Cmd) /\ Len(my) \in Nat /\ temp_id \in Nat
      BY <3>1, CurUser DEF Typed, TypeInv
    <3> QED BY <2>1, <3>1, <3>2, <1>2, CollectParts DEF AtStage, InLine, SameLine
  <2>7. TempsOpen'
    <3> SUFFICES ASSUME NEW m \in DOMAIN temp, m > NextTemp + 1 \/ m = NextTemp + 1 PROVE OpenIn(tab', temp[m])
      BY <2>1 DEF TempsOpen
    <3>1. m > temp_id + 1 \/ (m = temp_id + 1 /\ Untaken)
      <4>1. CASE fresh
        <5>1. NextTemp = temp_id + 1
          BY <4>1 DEF NextTemp
        <5>2. m \in Nat
          BY LenProperties DEF Typed, TypeInv
        <5> QED BY <2>6, <5>1, <5>2
      <4>2. CASE ~fresh
        <5>1. NextTemp = temp_id
          BY <4>2 DEF NextTemp
        <5> QED BY <4>2, <5>1 DEF Untaken
      <4> QED BY <4>1, <4>2
    <3>2. OpenIn(tab, temp[m])
      BY <2>6, <3>1 DEF OpenInv, TempsOpen
    <3>3. temp[m][1] \in DOMAIN tab /\ temp[m][2] \in DOMAIN tab
      BY <3>2 DEF OpenIn
    <3>4. temp[m][1] \in DOMAIN tab' /\ temp[m][2] \in DOMAIN tab'
      BY <2>2, <2>4, <3>3
    <3> QED BY <2>2, <3>2, <3>4, OpenKept
  <2>8. MyOpen'
    <3> SUFFICES ASSUME NEW k \in DOMAIN my, my'[k].type # "NUM_PIPE" PROVE OpenIn(tab', my'[k].fd)
      BY <2>1 DEF MyOpen
    <3>1. my'[k].type = my[k].type /\ my'[k].fd = my[k].fd
      BY <2>1 DEF SameCmds, Kept
    <3>2. OpenIn(tab, my[k].fd) /\ k # j
      BY <2>2, <2>6, <3>1 DEF OpenInv, MyOpen
    <3>3. my[k].fd[1] \in DOMAIN tab' /\ my[k].fd[2] \in DOMAIN tab'
      <4>1. my[k].fd[1] \in DOMAIN tab /\ my[k].fd[2] \in DOMAIN tab
        BY <3>2 DEF OpenIn
      <4>2. my[k].fd[1] \notin Both(my[j].fd) /\ my[k].fd[2] \notin Both(my[j].fd)
        BY <2>1, <2>5, <3>2
      <4> QED BY <2>2, <4>1, <4>2
    <3> QED BY <2>2, <3>1, <3>2, <3>3, OpenKept
  <2>9. Closing
    <3>1. ASSUME NEW v \in User, NEW k \in DOMAIN cmds[v],
                 cmds[v][k].fd[1] \in DOMAIN tab, cmds[v][k].fd[2] \in DOMAIN tab'
          PROVE  cmds[v][k].fd[1] \in DOMAIN tab'
      <4>1. cmds[v][k].fd[1] \notin Both(my[j].fd)
        <5> SUFFICES ASSUME cmds[v][k].fd[1] \in Both(my[j].fd) PROVE FALSE
          OBVIOUS
        <5>1. v = cur /\ k = j
          BY <2>5
        <5> QED BY <2>1, <2>2, <2>3, <3>1, <5>1
      <4> QED BY <2>2, <3>1, <4>1
    <3>2. \A m \in DOMAIN temp : temp[m][1] \in DOMAIN tab => temp[m][1] \in DOMAIN tab'
      BY <2>2, <2>4
    <3>3. \A f \in DOMAIN tab' : f \in DOMAIN tab
      BY <2>2
    <3> QED BY <2>2, <3>1, <3>2, <3>3 DEF Closing
  <2>10. Paired'
    BY <2>1, <2>9, PairedKept DEF OpenInv
  <2> QED BY <2>7, <2>8, <2>10 DEF OpenInv
<1> QED BY <1>1, <1>2

(* Steps that close nothing.                                                *)
LEMMA OpenSame ==
  ASSUME OpenInv, InLine, UNCHANGED <<tab, temp, temp_id, cur>>, cur \in User, SameCmds, pc # "killed",
         i' <= Len(my') => i <= Len(my) /\ (Untaken' => Untaken)
  PROVE  OpenInv'
<1>1. my = cmds[cur] /\ my' = cmds'[cur]
  BY DEF my
<1>2. DOMAIN my' = DOMAIN my /\ \A k \in DOMAIN my : my'[k].type = my[k].type /\ my'[k].fd = my[k].fd
  BY <1>1 DEF SameCmds, Kept
<1>3. TempsOpen'
  <2> SUFFICES ASSUME i' <= Len(my'), NEW m \in DOMAIN temp,
                      m > temp_id + 1 \/ (m = temp_id + 1 /\ Untaken')
               PROVE  OpenIn(tab, temp[m])
    BY DEF TempsOpen
  <2>1. i <= Len(my) /\ (Untaken' => Untaken)
    OBVIOUS
  <2>2. m > temp_id + 1 \/ (m = temp_id + 1 /\ Untaken)
    BY <2>1
  <2> QED BY <2>1, <2>2 DEF OpenInv, TempsOpen
<1>4. MyOpen'
  BY <1>2 DEF OpenInv, MyOpen
<1>5. Closing
  BY DEF Closing
<1>6. Paired'
  BY <1>5, PairedKept DEF OpenInv
<1> QED BY <1>3, <1>4, <1>6 DEF OpenInv

LEMMA OpenStageFails ==
  ASSUME Typed, OpenInv, StageFails
  PROVE  OpenInv'
<1>1. /\ AtStage /\ pc = "stage" /\ pc # "read" /\ InLine /\ UNCHANGED <<tab, line, lines>>
      /\ cmds' = [cmds EXCEPT ![cur] = Mark(reduce_num_pipes(my), i, TRUE)]
  BY StageFailsCmds DEF AtStage, InLine, ghost
<1>2. UNCHANGED <<cur, i, temp, temp_id, fresh, stop_pipe>> /\ i <= Len(my)
  BY <1>1 DEF line, AtStage
<1>3. /\ cur \in User /\ i \in 1..Len(my) /\ Len(my) \in Nat /\ my' \in Seq(Cmd) /\ Len(my') = Len(my)
      /\ \A v \in User : v # cur => cmds'[v] = cmds[v]
      /\ \A k \in 1..Len(my) : /\ Kept(my'[k], my[k]) /\ (k # i => my'[k].piped = my[k].piped)
      /\ my'[i].piped
  BY <1>1, <1>2, StageCmds
<1>4. DOMAIN my = 1..Len(my) /\ DOMAIN my' = 1..Len(my) /\ my' = cmds'[cur] /\ my = cmds[cur]
  BY <1>1, <1>2, <1>3, CurUser, LenProperties DEF Typed, my
<1>5. SameCmds
  <2>1. \A u \in User : DOMAIN cmds'[u] = DOMAIN cmds[u]
    BY <1>3, <1>4
  <2>2. ASSUME NEW u \in User, NEW k \in DOMAIN cmds[u], u # cur
        PROVE  cmds'[u][k] = cmds[u][k]
    BY <1>3, <2>2
  <2>3. ASSUME NEW k \in DOMAIN my
        PROVE  Kept(my'[k], my[k]) /\ (my[k].piped => my'[k].piped)
    BY <1>3, <1>4
  <2> QED BY <1>4, <2>1, <2>2, <2>3 DEF SameCmds, Kept
<1>6. SameLine
  BY <1>1, <1>2, <1>3 DEF SameLine
<1>7. /\ \A k : New(k)' <=> New(k)
      /\ \A k \in 1..Len(my) : UsesPipe(my'[k]) <=> UsesPipe(my[k])
  BY <1>1, <1>6, NewKept
<1>8. AllUse' <=> AllUse
  <2>1. \A k \in 1..(i - 1) : New(k) => k \in 1..Len(my)
    BY <1>4 DEF New
  <2> QED BY <1>2, <1>7, <2>1 DEF AllUse
<1>9. Untaken' <=> Untaken
  BY <1>2, <1>8 DEF Untaken
<1> QED BY <1>1, <1>2, <1>3, <1>5, <1>9, OpenSame

LEMMA OpenWaitPre ==
  ASSUME Typed, OpenInv, WaitPre
  PROVE  OpenInv'
<1>1. /\ pc = "waitpre" /\ pc # "read" /\ pc # "killed" /\ InLine /\ i' = i + 1 /\ fresh' = TRUE
      /\ UNCHANGED <<cur, temp, temp_id, stop_pipe, cmds, tab, lines>> /\ my' = my
  BY DEF WaitPre, NextStage, ghost, my, InLine
<1>2. cur \in User /\ i \in Nat /\ i <= Len(my)
  BY <1>1, CurUser DEF Typed, TypeInv, Progress
<1>3. SameCmds
  BY <1>1 DEF SameCmds, Kept
<1>4. AllUse' => AllUse
  <2>1. \A k \in 1..(i - 1) : k \in 1..((i + 1) - 1)
    BY <1>2
  <2> QED BY <1>1, <2>1 DEF AllUse, New
<1>5. Untaken' => Untaken
  BY <1>1, <1>4 DEF Untaken
<1> QED BY <1>1, <1>2, <1>3, <1>5, OpenSame

LEMMA OpenEndLine ==
  ASSUME Typed, PlaceInv, OpenInv, EndLine
  PROVE  OpenInv'
<1> DEFINE F == close_pipe \cup close_temp_pipe
<1>1. /\ pc = "stage" /\ pc' = "wait" /\ tab' = Close(tab, F) /\ UNCHANGED <<cur, temp, cmds>>
  BY DEF EndLine, line
<1>2. cur \in User /\ my = cmds[cur]
  BY <1>1, CurUser DEF Typed, my
<1> DEFINE S == {k \in DOMAIN my : my[k].type = "NUM_PIPE" => my[k].piped}
<1>3. /\ S \subseteq DOMAIN my
      /\ \A f : f \in F <=> \/ \E k \in S : f = my[k].fd[1] \/ f = my[k].fd[2]
                            \/ \E m \in DOMAIN temp : f = temp[m][1] \/ f = temp[m][2]
  BY DEF close_pipe, close_temp_pipe, Both
<1>4. DOMAIN tab' = DOMAIN tab \ F /\ \A f \in DOMAIN tab' : tab'[f] = tab[f]
  <2> HIDE DEF F
  <2>1. DOMAIN Close(tab, F) = DOMAIN tab \ F /\ \A f \in DOMAIN tab \ F : Close(tab, F)[f] = tab[f]
    BY CloseParts
  <2> QED BY <1>1, <2>1
<1>5. Distinct /\ SameCmds
  BY <1>1 DEF PlaceInv, SameCmds, Kept
<1> HIDE DEF F, S
<1>6. ASSUME NEW v \in User, NEW k \in DOMAIN cmds[v], cmds[v][k].fd[1] \in F
      PROVE  cmds[v][k].fd[2] \in F
  <2>1. \A m \in DOMAIN temp : cmds[v][k].fd[1] # temp[m][1] /\ cmds[v][k].fd[1] # temp[m][2]
    BY <1>5, Separate
  <2>2. PICK j \in S : cmds[v][k].fd[1] = my[j].fd[1] \/ cmds[v][k].fd[1] = my[j].fd[2]
    BY <1>3, <1>6, <2>1
  <2>3. j \in DOMAIN cmds[cur] /\ (cmds[v][k].fd[1] = cmds[cur][j].fd[1] \/ cmds[v][k].fd[1] = cmds[cur][j].fd[2])
    BY <1>2, <1>3, <2>2
  <2>4. v = cur /\ k = j
    BY <1>2, <1>5, <2>3, Separate
  <2> QED BY <1>2, <1>3, <2>4
<1>7. Closing
  <2>1. \A f \in DOMAIN tab' : f \in DOMAIN tab
    BY <1>4
  <2>2. \A m \in DOMAIN temp : temp[m][2] \in F
    BY <1>3
  <2> QED BY <1>4, <1>6, <2>1, <2>2 DEF Closing
<1>8. Paired'
  BY <1>1, <1>5, <1>7, PairedKept DEF OpenInv
<1>9. ~InLine'
  BY <1>1 DEF InLine
<1> QED BY <1>8, <1>9 DEF OpenInv, TempsOpen, MyOpen

LEMMA OpenReap ==
  ASSUME Typed, PlaceInv, OpenInv, Reap
  PROVE  OpenInv'
<1> DEFINE g == InOrder(Remaining)
           N == Cardinality(Remaining)
<1>1. pc = "wait" /\ tab' = Close(tab, scratch) /\ pc' = "read"
  BY ReapNames
<1>2. PICK v \in User : v = cur
  BY ReapParts
<1>3. /\ my = cmds[v] /\ DOMAIN my = 1..Len(my) /\ Len(my) \in Nat
      /\ \A u \in User : u # v => cmds'[u] = cmds[u]
      /\ Remaining \in SUBSET Nat /\ IsFiniteSet(Remaining) /\ Remaining = {k \in 1..Len(my) : ~my[k].piped}
      /\ DOMAIN cmds'[v] = 1..N /\ N \in Nat
      /\ \A n \in 1..N : cmds'[v][n].fd = my[g[n]].fd
  <2>1. my \in Seq(Cmd) /\ my = cmds[v]
    BY <1>2, ReapParts DEF my
  <2>2. DOMAIN my = 1..Len(my) /\ Len(my) \in Nat
    BY <2>1, LenProperties
  <2>3. IsFiniteSet(1..Len(my)) /\ 1..Len(my) \subseteq Nat
    BY <2>2, FS_Interval
  <2>4. Remaining \in SUBSET Nat /\ IsFiniteSet(Remaining) /\ Remaining = {k \in 1..Len(my) : ~my[k].piped}
    BY <2>3, ReapParts, FS_Subset
  <2>5. ASSUME NEW n \in 1..N
        PROVE  cmds'[v][n].fd = my[g[n]].fd
    BY <1>2, <2>2, ReapParts DEF Kept
  <2>6. DOMAIN cmds'[v] = 1..N /\ N \in Nat /\ \A u \in User : u # v => cmds'[u] = cmds[u]
    BY <1>2, ReapParts
  <2> HIDE DEF g, N
  <2> QED BY <2>1, <2>2, <2>4, <2>5, <2>6
<1>4. \A k \in Remaining : \E n \in 1..N : g[n] = k
  BY <1>3, InOrderLists
<1> HIDE DEF g, N
<1>5. /\ Distinct
      /\ \A k \in DOMAIN my : my[k].piped => my[k].fd[1] \notin DOMAIN tab /\ my[k].fd[2] \notin DOMAIN tab
      /\ \A m \in DOMAIN temp : temp[m][1] \notin DOMAIN tab /\ temp[m][2] \notin DOMAIN tab
  BY <1>1 DEF PlaceInv, AllClosed
<1>6. DOMAIN tab' = DOMAIN tab \ scratch /\ \A f \in DOMAIN tab' : tab'[f] = tab[f]
  <2>1. PICK F : F = scratch
    OBVIOUS
  <2>2. DOMAIN Close(tab, F) = DOMAIN tab \ F /\ \A f \in DOMAIN tab \ F : Close(tab, F)[f] = tab[f]
    BY CloseParts
  <2> QED BY <1>1, <2>1, <2>2
<1>7. Paired'
  <2> SUFFICES ASSUME NEW q \in Pipes, NEW f \in DOMAIN tab', tab'[f] = <<q, "w">>
               PROVE  \E u \in User : \E k \in DOMAIN cmds'[u] : EndsAt(cmds[u][k].fd, q, f)'
    BY DEF Paired
  <2>1. f \in DOMAIN tab /\ tab[f] = <<q, "w">>
    BY <1>6
  <2>2. \A m \in DOMAIN temp : ~EndsAt(temp[m], q, f)
    BY <1>5, <2>1 DEF EndsAt
  <2>3. PICK u \in User : \E k \in DOMAIN cmds[u] : EndsAt(cmds[u][k].fd, q, f)
    BY <2>1, <2>2 DEF OpenInv, Paired
  <2>4. PICK k \in DOMAIN cmds[u] : EndsAt(cmds[u][k].fd, q, f)
    BY <2>3
  <2>5. cmds[u][k].fd[1] \notin scratch
    BY <1>5, Separate
  <2>6. cmds[u][k].fd[2] = f /\ cmds[u][k].fd[1] \in DOMAIN tab' /\ tab'[cmds[u][k].fd[1]] = <<q, "r">>
    BY <1>6, <2>4, <2>5 DEF EndsAt
  <2>7. \E n \in DOMAIN cmds'[u] : cmds'[u][n].fd = cmds[u][k].fd
    <3>1. CASE u # v
      BY <1>3, <3>1
    <3>2. CASE u = v
      <4>1. k \in DOMAIN my /\ my[k].fd[2] = f /\ cmds[u][k] = my[k]
        BY <1>3, <2>6, <3>2
      <4>2. ~my[k].piped
        BY <1>5, <2>1, <4>1
      <4>3. k \in Remaining
        BY <1>3, <4>1, <4>2
      <4>4. PICK n \in 1..N : g[n] = k
        BY <1>4, <4>3
      <4>5. n \in DOMAIN cmds'[u] /\ cmds'[u][n].fd = my[k].fd
        BY <1>3, <3>2, <4>4
      <4> QED BY <4>1, <4>5
    <3> QED BY <3>1, <3>2
  <2>8. PICK n \in DOMAIN cmds'[u] : cmds'[u][n].fd = cmds[u][k].fd
    BY <2>7
  <2>9. EndsAt(cmds[u][n].fd, q, f)'
    BY <2>6, <2>8 DEF EndsAt
  <2> QED BY <2>8, <2>9
<1>8. ~InLine'
  BY <1>1 DEF InLine
<1> QED BY <1>7, <1>8 DEF OpenInv, TempsOpen, MyOpen

LEMMA OpenForks ==
  ASSUME Typed, PlaceInv, PlaceInv', PoolInv, LineInv, OpenInv, StageForks
  PROVE  OpenInv'
<1>1. /\ pc = "stage" /\ pc # "read" /\ pc' = "stage" /\ cur' = cur /\ cur \in User /\ i' = i + 1
      /\ UNCHANGED <<temp, temp_id, lines>> /\ SameCmds
      /\ C.rd # -1 => C.rd \in User /\ user_pipe[C.rd][cur] # NoPair
      /\ i \in 1..Len(my) /\ DOMAIN my = 1..Len(my) /\ DOMAIN my' = DOMAIN my /\ Len(my) \in Nat
      /\ temp_id + 1 \in DOMAIN temp /\ C = my[i] /\ my = cmds[cur] /\ my' = cmds'[cur]
  BY ForkCmds
<1>2. /\ my' \in Seq(Cmd) /\ Len(my') = Len(my)
      /\ \A k \in 1..Len(my) : Kept(my'[k], my[k])
  BY StageForksCmds
<1>3. fresh' = TRUE /\ (stop_pipe' <=> C.type = "NUM_PIPE") /\ InLine /\ InLine'
  BY <1>1, StageForksNames DEF InLine
<1>4. /\ \A k : New(k)' <=> New(k)
      /\ \A k \in 1..Len(my) : UsesPipe(my'[k]) <=> UsesPipe(my[k])
  BY <1>1, <1>2, NewKept DEF SameLine
<1>5. New(i)
  BY <1>1, <1>3, ServedIsNew
<1>6. ASSUME i + 1 <= Len(my), Untaken' PROVE temp_id = 0
  <2> SUFFICES ASSUME C.type = "NUM_PIPE", AllUse' PROVE FALSE
    BY <1>1, <1>3, <1>6 DEF Untaken
  <2>1. i \in 1..(i' - 1) /\ i < Len(my)
    BY <1>1, <1>6
  <2>2. UsesPipe(my[i])
    BY <1>1, <1>4, <1>5, <2>1 DEF AllUse
  <2>3. PromptAt(i)
    BY <1>1, <1>3, <1>5 DEF LineInv, Prompt
  <2> QED BY <1>1, <1>5, <2>1, <2>2, <2>3 DEF PromptAt
<1>7. /\ \A f \in DOMAIN tab :
           /\ f \in DOMAIN tab' <=> /\ ~(temp_id # 0 /\ f \in Both(temp[temp_id + 1]))
                                    /\ ~(C.rd # -1 /\ f = user_pipe[C.rd][cur][1])
           /\ f \in DOMAIN tab' => tab'[f] = tab[f]
      /\ \A f \in DOMAIN tab' : f \notin DOMAIN tab => \E q \in FreePipes : tab'[f] = <<q, "r">>
  BY ForkCloses
<1>8. Distinct
  BY DEF PlaceInv
<1>9. \A f : f \in Both(temp[temp_id + 1]) <=> f = temp[temp_id + 1][1] \/ f = temp[temp_id + 1][2]
  BY DEF Both
<1>10. \A m \in DOMAIN temp : \A e \in {1, 2} :
         /\ C.rd # -1 => temp[m][e] # user_pipe[C.rd][cur][1]
         /\ temp[m][e] \in Both(temp[temp_id + 1]) => m = temp_id + 1
  <2> SUFFICES ASSUME NEW m \in DOMAIN temp, NEW e \in {1, 2}
               PROVE  /\ C.rd # -1 => temp[m][e] # user_pipe[C.rd][cur][1]
                      /\ temp[m][e] \in Both(temp[temp_id + 1]) => m = temp_id + 1
    OBVIOUS
  <2>1. C.rd # -1 => temp[m][e] # user_pipe[C.rd][cur][1]
    BY <1>1, <1>8, Separate
  <2>2. ASSUME NEW d \in {1, 2}, temp[m][e] = temp[temp_id + 1][d] PROVE m = temp_id + 1
    <3>1. Owns(<<"temp", m, 0, e>>, temp[m][e]) /\ Owns(<<"temp", temp_id + 1, 0, d>>, temp[temp_id + 1][d])
      BY <1>1, OwnsAll
    <3>2. <<"temp", m, 0, e>> = <<"temp", temp_id + 1, 0, d>>
      BY <1>8, <2>2, <3>1 DEF Distinct
    <3> QED BY <3>2
  <2> QED BY <1>9, <2>1, <2>2
<1>11. \A v \in User : \A k \in DOMAIN cmds[v] : \A e \in {1, 2} :
         /\ C.rd # -1 => cmds[v][k].fd[e] # user_pipe[C.rd][cur][1]
         /\ cmds[v][k].fd[e] \notin Both(temp[temp_id + 1])
  <2> SUFFICES ASSUME NEW v \in User, NEW k \in DOMAIN cmds[v], NEW e \in {1, 2}
               PROVE  /\ C.rd # -1 => cmds[v][k].fd[e] # user_pipe[C.rd][cur][1]
                      /\ cmds[v][k].fd[e] \notin Both(temp[temp_id + 1])
    OBVIOUS
  <2>1. C.rd # -1 => cmds[v][k].fd[e] # user_pipe[C.rd][cur][1]
    BY <1>1, <1>8, Separate
  <2>2. cmds[v][k].fd[e] # temp[temp_id + 1][1] /\ cmds[v][k].fd[e] # temp[temp_id + 1][2]
    BY <1>1, <1>8, Separate
  <2> QED BY <1>9, <2>1, <2>2
<1>12. TempsOpen'
  <2> SUFFICES ASSUME i + 1 <= Len(my), NEW m \in DOMAIN temp,
                      m > temp_id + 1 \/ (m = temp_id + 1 /\ Untaken')
               PROVE  OpenIn(tab', temp[m])
    BY <1>1, <1>2 DEF TempsOpen
  <2>1. i <= Len(my) /\ m \in Nat /\ temp_id \in Nat
    BY <1>1, LenProperties DEF Typed, TypeInv
  <2>2. temp_id = 0 \/ m # temp_id + 1
    BY <1>6, <2>1
  <2>3. OpenIn(tab, temp[m])
    <3>1. CASE m > temp_id + 1
      BY <1>3, <2>1, <3>1 DEF OpenInv, TempsOpen
    <3>2. CASE m = temp_id + 1 /\ Untaken'
      <4>1. Untaken
        BY <1>6, <3>2 DEF Untaken
      <4> QED BY <1>3, <2>1, <3>2, <4>1 DEF OpenInv, TempsOpen
    <3> QED BY <3>1, <3>2
  <2>4. temp[m][1] \in DOMAIN tab /\ temp[m][2] \in DOMAIN tab
    BY <2>3 DEF OpenIn
  <2>5. temp[m][1] \in DOMAIN tab' /\ temp[m][2] \in DOMAIN tab'
    BY <1>7, <1>10, <2>2, <2>4
  <2> QED BY <1>7, <2>3, <2>4, <2>5, OpenKept
<1>13. MyOpen'
  <2> SUFFICES ASSUME NEW k \in DOMAIN my, my'[k].type # "NUM_PIPE" PROVE OpenIn(tab', my'[k].fd)
    BY <1>1 DEF MyOpen
  <2>1. my'[k].type = my[k].type /\ my'[k].fd = my[k].fd
    BY <1>1, <1>2 DEF Kept
  <2>2. OpenIn(tab, my[k].fd)
    BY <1>3, <2>1 DEF OpenInv, MyOpen
  <2>3. my[k].fd[1] \in DOMAIN tab /\ my[k].fd[2] \in DOMAIN tab
    BY <2>2 DEF OpenIn
  <2>4. my[k].fd[1] \in DOMAIN tab' /\ my[k].fd[2] \in DOMAIN tab'
    BY <1>1, <1>7, <1>11, <2>3
  <2> QED BY <1>7, <2>1, <2>2, <2>3, <2>4, OpenKept
<1>14. Closing
  <2>1. \A f \in DOMAIN tab' : (f \in DOMAIN tab /\ tab'[f] = tab[f]) \/ \A q : tab'[f] # <<q, "w">>
    <3> SUFFICES ASSUME NEW f \in DOMAIN tab', f \notin DOMAIN tab PROVE \A q : tab'[f] # <<q, "w">>
      BY <1>7
    <3>1. PICK q \in FreePipes : tab'[f] = <<q, "r">>
      BY <1>7
    <3> QED BY <3>1
  <2>2. \A u \in User : \A k \in DOMAIN cmds[u] : cmds[u][k].fd[1] \in DOMAIN tab =>
          cmds[u][k].fd[1] \in DOMAIN tab' /\ tab'[cmds[u][k].fd[1]] = tab[cmds[u][k].fd[1]]
    BY <1>7, <1>11
  <2>3. ASSUME NEW m \in DOMAIN temp, temp[m][1] \in DOMAIN tab, temp[m][2] \in DOMAIN tab'
        PROVE  temp[m][1] \in DOMAIN tab' /\ tab'[temp[m][1]] = tab[temp[m][1]]
    <3>1. temp_id # 0 => m # temp_id + 1
      <4> SUFFICES ASSUME temp_id # 0, m = temp_id + 1 PROVE FALSE
        OBVIOUS
      <4>1. temp[m][2] \in Both(temp[temp_id + 1])
        BY <1>9
      <4>2. temp[m][2] \notin DOMAIN tab
        BY <1>7, <2>3, <4>1
      <4>3. C.wr = -1
        <5>1. i \in DOMAIN my /\ i >= i
          BY <1>1
        <5> QED BY <1>1, <1>3, <5>1 DEF PlaceInv, Whole, InLine
      <4>4. DOMAIN ForkTab = DOMAIN tab
        BY <4>3, StageForksNames, ForkTabParts
      <4>5. DOMAIN tab' \subseteq DOMAIN ForkTab
        <5>1. PICK t, F : t = ForkTab /\ F = ParentCloses(ForkUp)
          OBVIOUS
        <5>2. DOMAIN Close(t, F) = DOMAIN t \ F
          BY CloseParts
        <5> QED BY <5>1, <5>2, StageForksNames
      <4> QED BY <2>3, <4>2, <4>4, <4>5
    <3> QED BY <1>7, <1>10, <2>3, <3>1
  <2> QED BY <2>1, <2>2, <2>3 DEF Closing
<1>15. Paired'
  BY <1>1, <1>14, PairedKept DEF OpenInv
<1> QED BY <1>12, <1>13, <1>15 DEF OpenInv

LEMMA OpenStep ==
  ASSUME Typed, PlaceInv, PlaceInv', PoolInv, LineInv, OpenInv, [Next]_vars
  PROVE  OpenInv'
<1>1. ASSUME NEW u \in User, NEW l \in Inputs[u], Start(u, l) PROVE OpenInv'
  <2>1. GoodLine(l)
    BY InputAssumption DEF GoodLine
  <2>2. PICK n, K, P, F, M : /\ n = TempPipes + Len(split_by_pipe(l)) /\ K = Len(cmds[u])
                             /\ P = NewPairs(l) /\ F = NewFds(l) /\ M = Len(split_by_pipe(l))
    OBVIOUS
  <2>3. PICK id : id = LowSeq(FreePipes, n)
    OBVIOUS
  <2> QED BY <1>1, <2>1, <2>2, <2>3, OpenStart
<1>2. ASSUME UNCHANGED <<pc, line, cmds, tab, lines>> PROVE OpenInv'
  <2>1. my' = my
    BY <1>2 DEF line, my
  <2>2. AllUse' <=> AllUse
    BY <1>2, <2>1 DEF AllUse, New, line
  <2>3. Untaken' <=> Untaken
    BY <1>2, <2>2 DEF Untaken, line
  <2>4. TempsOpen' /\ MyOpen'
    BY <1>2, <2>1, <2>3 DEF OpenInv, TempsOpen, MyOpen, InLine, line
  <2>5. Paired'
    BY <1>2 DEF OpenInv, Paired, EndsAt, line
  <2> QED BY <2>4, <2>5 DEF OpenInv
<1>3. ASSUME NEW p \in procs, Finish(p) PROVE OpenInv'
  BY <1>2, <1>3 DEF Finish, ghost
<1>4. CASE UNCHANGED vars
  BY <1>2, <1>4 DEF vars, ghost
<1> QED BY <1>1, <1>3, <1>4, OpenCollect, OpenStageFails, OpenWaitPre, OpenForks, OpenEndLine, OpenReap
        DEF Next, Server

-------------------------------------------------------------------------------
(* Who keeps a reader from its end of file: the server only while the line  *)
(* goes on, with the pipe of a command that was served or the first         *)
(* temporary pipe; and no children that read keep each other in a circle.   *)
ReadsPipe   == \A p \in procs : p.reads => \E q \in Pipes : p.in = <<q, "r">>
Behind      == \E k \in 1..(i - 1) : New(k) /\ Reads(my[k])
Served(f)   == \/ \E k \in 1..(i - 1) : New(k) /\ f = my[k].fd[2] /\ my[k].type # "NUM_PIPE"
               \/ temp_id = 0 /\ f = temp[1][2]
WritersOpen == pc # "killed" =>
  \A p \in procs : \A f \in DOMAIN tab :
    p.reads /\ tab[f] = <<p.in[1], "w">> => InLine /\ Behind /\ Served(f)
Blocks(q, p) == p.reads /\ <<p.in[1], "w">> \in q.held
NoCircle    == \A S \in SUBSET procs : S # {} => \E p \in S : \A q \in S : ~Blocks(q, p)
HoldInv     == ReadsPipe /\ WritersOpen /\ NoCircle

(* A new child is in no circle if it holds no write end of a reader's pipe. *)
LEMMA NoCircleAdd ==
  ASSUME NoCircle, NEW c, procs' = procs \cup {c}, \A p \in procs \cup {c} : ~Blocks(c, p)
  PROVE  NoCircle'
<1> SUFFICES ASSUME NEW S \in SUBSET (procs \cup {c}), S # {}
             PROVE  \E p \in S : \A q \in S : ~Blocks(q, p)
  BY DEF NoCircle, Blocks
<1>1. CASE S \ {c} = {}
  <2>1. c \in S /\ \A q \in S : q = c
    BY <1>1
  <2> QED BY <2>1
<1>2. CASE S \ {c} # {}
  <2>1. S \ {c} \in SUBSET procs
    OBVIOUS
  <2>2. PICK p \in S \ {c} : \A q \in S \ {c} : ~Blocks(q, p)
    BY <1>2, <2>1 DEF NoCircle
  <2>3. p \in procs \cup {c} /\ p \in S
    OBVIOUS
  <2> QED BY <2>2, <2>3
<1> QED BY <1>1, <1>2

LEMMA NoCircleLess ==
  ASSUME NoCircle, procs' \subseteq procs
  PROVE  NoCircle'
<1> SUFFICES ASSUME NEW S \in SUBSET procs', S # {}
             PROVE  \E p \in S : \A q \in S : ~Blocks(q, p)
  BY DEF NoCircle, Blocks
<1>1. S \in SUBSET procs
  OBVIOUS
<1> QED BY <1>1 DEF NoCircle

(* Steps without a new child, that open no write end of a reader's pipe.    *)
LEMMA HoldSame ==
  ASSUME HoldInv, procs' \subseteq procs,
         pc' # "killed" => pc # "killed",
         \A f \in DOMAIN tab', p \in procs :
           pc' # "killed" /\ p.reads /\ tab'[f] = <<p.in[1], "w">> =>
             /\ f \in DOMAIN tab /\ tab[f] = tab'[f]
             /\ InLine /\ Behind /\ Served(f) => InLine' /\ Behind' /\ Served(f)'
  PROVE  HoldInv'
<1>1. ReadsPipe' /\ NoCircle'
  BY NoCircleLess DEF HoldInv, ReadsPipe
<1>2. WritersOpen'
  <2> SUFFICES ASSUME pc' # "killed", NEW p \in procs', NEW f \in DOMAIN tab', p.reads, tab'[f] = <<p.in[1], "w">>
               PROVE  InLine' /\ Behind' /\ Served(f)'
    BY DEF WritersOpen
  <2>1. p \in procs /\ pc # "killed"
    OBVIOUS
  <2>2. f \in DOMAIN tab /\ tab[f] = <<p.in[1], "w">> /\ (InLine /\ Behind /\ Served(f) => InLine' /\ Behind' /\ Served(f)')
    BY <2>1
  <2>3. InLine /\ Behind /\ Served(f)
    BY <2>1, <2>2 DEF HoldInv, WritersOpen
  <2> QED BY <2>2, <2>3
<1> QED BY <1>1, <1>2 DEF HoldInv

LEMMA HoldStart ==
  ASSUME Typed, FlowInv, HoldInv, NEW u \in User, NEW l, GoodLine(l), Start(u, l)
  PROVE  HoldInv'
<1>1. pc = "read" /\ pc # "killed" /\ procs' = procs /\ ~InLine
  BY StartNames DEF InLine
<1>2. PICK n, P, F, id : /\ n = TempPipes + Len(split_by_pipe(l))
                         /\ P = NewPairs(l) /\ F = NewFds(l) /\ id = LowSeq(FreePipes, n)
  OBVIOUS
<1>3. /\ \A f : f \in DOMAIN tab' <=> \/ f \in DOMAIN tab \/ \E a \in 1..3 : f = F[a]
                                      \/ \E m \in 1..n : \E e \in {1, 2} : f = P[m][e]
      /\ \A f \in DOMAIN tab : tab'[f] = tab[f]
      /\ \A a \in 1..3 : tab'[F[a]] = Other
      /\ \A m \in 1..n : /\ id[m] \in FreePipes
                         /\ tab'[P[m][1]] = <<id[m], "r">> /\ tab'[P[m][2]] = <<id[m], "w">>
  BY <1>2, StartTab
<1>4. ASSUME NEW f \in DOMAIN tab', NEW p \in procs, p.reads, tab'[f] = <<p.in[1], "w">>
      PROVE  f \in DOMAIN tab /\ tab[f] = tab'[f]
  <2>1. PICK q \in Pipes : p.in = <<q, "r">>
    BY <1>4 DEF HoldInv, ReadsPipe
  <2>2. <<q, "r">> \in p.held /\ p.in[1] = q
    BY <2>1 DEF FlowInv, InHeld
  <2>3. q \notin FreePipes
    BY <2>2, FreeUnheld
  <2>4. <<q, "w">> # Other
    BY BoundAssumption DEF Other
  <2>5. ASSUME NEW m \in 1..n, NEW e \in {1, 2}, f = P[m][e] PROVE FALSE
    <3>1. tab'[f] = <<id[m], "r">> \/ tab'[f] = <<id[m], "w">>
      BY <1>3, <2>5
    <3>2. id[m] = q
      BY <1>4, <2>2, <3>1
    <3> QED BY <1>3, <2>3, <3>2
  <2>6. f \in DOMAIN tab
    BY <1>3, <1>4, <2>2, <2>4, <2>5
  <2> QED BY <1>3, <2>6
<1> QED BY <1>1, <1>4, HoldSame

LEMMA HoldStageFails ==
  ASSUME Typed, HoldInv, StageFails
  PROVE  HoldInv'
<1>1. /\ AtStage /\ pc = "stage" /\ pc # "read" /\ pc' = "waitpre" /\ UNCHANGED <<tab, line, lines, procs>>
      /\ cmds' = [cmds EXCEPT ![cur] = Mark(reduce_num_pipes(my), i, TRUE)]
  BY StageFailsCmds DEF AtStage, ghost
<1>2. UNCHANGED <<cur, i, temp, temp_id>> /\ i <= Len(my)
  BY <1>1 DEF line, AtStage
<1>3. /\ i \in 1..Len(my) /\ Len(my) \in Nat /\ my' \in Seq(Cmd) /\ Len(my') = Len(my)
      /\ \A k \in 1..Len(my) : Kept(my'[k], my[k])
  BY <1>1, <1>2, StageCmds
<1>4. SameLine
  BY <1>1, <1>2, <1>3 DEF SameLine
<1>5. /\ \A k : New(k)' <=> New(k)
      /\ \A k \in 1..Len(my) : Reads(my'[k]) <=> Reads(my[k])
  BY <1>1, <1>4, NewKept
<1>6. \A k \in 1..(i - 1) : /\ k \in 1..Len(my) /\ my'[k].fd = my[k].fd /\ my'[k].type = my[k].type
  <2>1. \A k \in 1..(i - 1) : k \in 1..Len(my)
    BY <1>3
  <2> QED BY <1>3, <2>1 DEF Kept
<1>7. Behind => Behind'
  BY <1>2, <1>5, <1>6 DEF Behind
<1>8. \A f : Served(f) => Served(f)'
  BY <1>2, <1>5, <1>6 DEF Served
<1>9. InLine'
  BY <1>1 DEF InLine
<1> QED BY <1>1, <1>7, <1>8, <1>9, HoldSame

LEMMA HoldWaitPre ==
  ASSUME Typed, HoldInv, WaitPre
  PROVE  HoldInv'
<1>1. /\ pc = "waitpre" /\ pc # "read" /\ pc' = "stage" /\ i' = i + 1
      /\ UNCHANGED <<cur, temp, temp_id, cmds, tab, lines, procs>> /\ my' = my
  BY DEF WaitPre, NextStage, ghost, my
<1>2. i \in Nat
  BY DEF Typed, TypeInv
<1>3. \A k \in 1..(i - 1) : k \in 1..(i' - 1)
  BY <1>1, <1>2
<1>4. \A k : New(k)' <=> New(k)
  BY <1>1 DEF New
<1>5. (Behind => Behind') /\ \A f : Served(f) => Served(f)'
  BY <1>1, <1>3, <1>4 DEF Behind, Served
<1>6. InLine'
  BY <1>1 DEF InLine
<1> QED BY <1>1, <1>5, <1>6, HoldSame

(* The line is over: its pipes and the temporary ones are closed.           *)
LEMMA HoldEndLine ==
  ASSUME Typed, HoldInv, EndLine
  PROVE  HoldInv'
<1> DEFINE F == close_pipe \cup close_temp_pipe
<1>1. /\ pc = "stage" /\ pc # "read" /\ pc # "killed" /\ pc' = "wait" /\ tab' = Close(tab, F) /\ procs' = procs
  BY DEF EndLine
<1>2. Len(temp) = TempPipes /\ TempPipes > 0 /\ TempPipes \in Nat /\ DOMAIN temp = 1..Len(temp)
  BY <1>1, BoundAssumption, LenProperties DEF Typed, TypeInv, Progress
<1>3. 1 \in DOMAIN temp
  BY <1>2
<1>4. \A f : Served(f) => f \in F
  BY <1>3 DEF Served, New, close_pipe, close_temp_pipe, Both
<1>5. DOMAIN tab' = DOMAIN tab \ F /\ \A f \in DOMAIN tab' : tab'[f] = tab[f]
  <2> HIDE DEF F
  <2>1. DOMAIN Close(tab, F) = DOMAIN tab \ F /\ \A f \in DOMAIN tab \ F : Close(tab, F)[f] = tab[f]
    BY CloseParts
  <2> QED BY <1>1, <2>1
<1> HIDE DEF F
<1>6. \A f \in DOMAIN tab' : f \in DOMAIN tab /\ tab[f] = tab'[f] /\ ~Served(f)
  BY <1>4, <1>5
<1> QED BY <1>1, <1>6, HoldSame

LEMMA HoldReap ==
  ASSUME HoldInv, Reap
  PROVE  HoldInv'
<1>1. pc = "wait" /\ pc # "killed" /\ tab' = Close(tab, scratch) /\ procs' = procs /\ ~InLine
  BY ReapNames DEF InLine
<1>2. DOMAIN tab' = DOMAIN tab \ scratch /\ \A f \in DOMAIN tab' : tab'[f] = tab[f]
  <2>1. PICK F : F = scratch
    OBVIOUS
  <2>2. DOMAIN Close(tab, F) = DOMAIN tab \ F /\ \A f \in DOMAIN tab \ F : Close(tab, F)[f] = tab[f]
    BY CloseParts
  <2> QED BY <1>1, <2>1, <2>2
<1> QED BY <1>1, <1>2, HoldSame

LEMMA HoldIdle ==
  ASSUME HoldInv, UNCHANGED <<pc, line, cmds, tab, lines>>, procs' \subseteq procs
  PROVE  HoldInv'
<1>1. my' = my
  BY DEF line, my
<1>2. (InLine => InLine') /\ (Behind => Behind') /\ \A f : Served(f) => Served(f)'
  BY <1>1 DEF InLine, Behind, Served, New, line
<1> QED BY <1>2, HoldSame

(* A number pipe is collected only by the first command behind another one, *)
(* and then nothing in the line has read yet.                               *)
LEMMA CollectFirst ==
  ASSUME Typed, PoolInv, LineInv, AtStage, NEW j \in 1..(i - 1), Due(cur, j)
  PROVE  ~Behind
<1>1. pc = "stage" /\ i <= Len(my) /\ pc # "killed" /\ InLine
  BY DEF AtStage, InLine
<1>2. /\ i \in 1..Len(my) /\ Len(my) \in Nat /\ DOMAIN my = 1..Len(my)
  BY <1>1, CurUser DEF Typed
<1>3. my[i].first
  <2>1. PICK b \in Nat : Taken(b)
    BY <1>1 DEF PoolInv, TakenInv
  <2>2. ~NoneDue(i - 1)
    BY DEF NoneDue
  <2> QED BY <1>1, <2>1, <2>2 DEF Taken
<1> SUFFICES ASSUME NEW k \in 1..(i - 1), New(k), Reads(my[k]) PROVE FALSE
  BY DEF Behind
<1>4. /\ i - 1 \in DOMAIN my /\ k \in DOMAIN my /\ (k < i - 1 \/ k = i - 1) /\ i - 1 < Len(my)
      /\ (i - 1) + 1 = i
  BY <1>2
<1>5. New(i - 1)
  BY <1>1, <1>4 DEF LineInv, JobsInOrder
<1>6. PromptAt(i - 1)
  BY <1>1, <1>4, <1>5 DEF LineInv, Prompt
<1>7. Follows(my[i - 1], my[i])
  BY <1>4, <1>6 DEF PromptAt
<1>8. my[i - 1].type = "NUM_PIPE"
  BY <1>3, <1>7 DEF Follows
<1>9. k \in 1..(i - 1)
  OBVIOUS
<1> QED BY <1>4, <1>6, <1>8, <1>9 DEF PromptAt

(* What a collector holds: everything but the write end of what it reads.   *)
LEMMA CollectorHolds ==
  ASSUME Typed, PlaceInv, Collect, pc' # "killed", NEW j \in DOMAIN my, ~my[j].piped, NextTemp < TempPipes
  PROVE  \E q \in Pipes :
           /\ Collector(j).in = <<q, "r">> /\ <<q, "w">> \notin Collector(j).held
           /\ \A f \in DOMAIN tab : tab[f] = <<q, "w">> => f = my[j].fd[2]
           /\ \A x \in Collector(j).held : x = Other \/ \E f \in DOMAIN tab : x = tab[f]
<1> DEFINE b == temp[NextTemp + 1]
           K == Close(tab, Both(my[j].fd) \cup Both(b))
           o == At(tab, b[2])
<1>1. cur \in User /\ my = cmds[cur] /\ pc # "read"
  BY CollectParts
<1>2. OpenIn(tab, my[j].fd) /\ Distinct /\ OneEach
  BY <1>1 DEF PlaceInv, OpenCmds
<1>3. PICK q \in Pipes : /\ my[j].fd[1] \in DOMAIN tab /\ tab[my[j].fd[1]] = <<q, "r">>
                         /\ my[j].fd[2] \in DOMAIN tab /\ tab[my[j].fd[2]] = <<q, "w">>
  BY <1>2 DEF OpenIn
<1>4. <<q, "r">> # Other /\ <<q, "w">> # Other
  BY BoundAssumption DEF Other
<1>5. \A f \in DOMAIN tab : tab[f] = <<q, "w">> => f = my[j].fd[2]
  BY <1>2, <1>3, <1>4 DEF OneEach
<1>6. NextTemp + 1 \in DOMAIN temp
  <2>1. Len(temp) = TempPipes /\ temp \in Seq(Pair) /\ temp_id \in Nat /\ TempPipes \in Nat
    BY <1>1, BoundAssumption DEF Typed, TypeInv, Progress
  <2>2. DOMAIN temp = 1..TempPipes
    BY <2>1, LenProperties
  <2>3. NextTemp \in Nat
    BY <2>1 DEF NextTemp
  <2> QED BY <2>1, <2>2, <2>3
<1>7. b[2] # my[j].fd[2]
  BY <1>1, <1>2, <1>6, Separate
<1>8. /\ Collector(j).in = At(tab, my[j].fd[1]) /\ Collector(j).held = Range(K) \cup {At(tab, my[j].fd[1]), o}
  BY DEF Collector
<1>9. At(tab, my[j].fd[1]) = <<q, "r">>
  BY <1>3 DEF At
<1>10. o = Other \/ \E f \in DOMAIN tab : f # my[j].fd[2] /\ o = tab[f]
  <2> HIDE DEF b
  <2> QED BY <1>7 DEF At
<1>11. \A x \in Range(K) : \E f \in DOMAIN tab : f # my[j].fd[2] /\ x = tab[f]
  <2>1. my[j].fd[2] \in Both(my[j].fd) \cup Both(b)
    BY DEF Both
  <2>2. PICK F : F = Both(my[j].fd) \cup Both(b)
    OBVIOUS
  <2>3. DOMAIN Close(tab, F) = DOMAIN tab \ F /\ \A f \in DOMAIN tab \ F : Close(tab, F)[f] = tab[f]
    BY CloseParts
  <2>4. K = Close(tab, F)
    BY <2>2
  <2> HIDE DEF K
  <2> QED BY <2>1, <2>2, <2>3, <2>4 DEF Range
<1> HIDE DEF b, K, o
<1>12. \A x \in Collector(j).held :
         x = <<q, "r">> \/ x = Other \/ \E f \in DOMAIN tab : f # my[j].fd[2] /\ x = tab[f]
  BY <1>8, <1>9, <1>10, <1>11
<1>13. <<q, "w">> \notin Collector(j).held
  BY <1>4, <1>5, <1>12
<1>14. \A x \in Collector(j).held : x = Other \/ \E f \in DOMAIN tab : x = tab[f]
  BY <1>3, <1>12
<1> QED BY <1>5, <1>8, <1>9, <1>13, <1>14

LEMMA HoldCollect ==
  ASSUME Typed, PlaceInv, PoolInv, LineInv, HoldInv, Collect
  PROVE  HoldInv'
<1>1. CASE pc' = "killed"
  <2>1. procs' = procs
    BY <1>1, CollectNames DEF AtStage
  <2> QED BY <1>1, <2>1, HoldSame
<1>2. CASE pc' # "killed"
  <2>1. AtStage /\ pc = "stage" /\ pc # "killed" /\ cur \in User /\ my = cmds[cur] /\ NextTemp < TempPipes
    BY <1>2, CollectParts
  <2>2. PICK j \in 1..(i - 1) :
          /\ j \in DOMAIN my /\ ~my[j].piped /\ Due(cur, j) /\ procs' = procs \cup {Collector(j)}
          /\ DOMAIN tab' = DOMAIN tab \ Both(my[j].fd) /\ \A f \in DOMAIN tab' : tab'[f] = tab[f]
    BY <1>2, CollectParts
  <2>3. PICK q \in Pipes :
          /\ Collector(j).in = <<q, "r">> /\ <<q, "w">> \notin Collector(j).held
          /\ \A f \in DOMAIN tab : tab[f] = <<q, "w">> => f = my[j].fd[2]
          /\ \A x \in Collector(j).held : x = Other \/ \E f \in DOMAIN tab : x = tab[f]
    BY <1>2, <2>1, <2>2, CollectorHolds
  <2>4. ~Behind
    BY <2>1, <2>2, CollectFirst
  <2>5. \A p \in procs : \A f \in DOMAIN tab : p.reads => tab[f] # <<p.in[1], "w">>
    BY <2>1, <2>4 DEF HoldInv, WritersOpen
  <2>6. PICK c : c = Collector(j)
    OBVIOUS
  <2>7. c.in = <<q, "r">> /\ c.in[1] = q
    BY <2>3, <2>6
  <2>8. ASSUME NEW p \in procs \cup {c} PROVE ~Blocks(c, p)
    <3>1. CASE p = c
      BY <2>3, <2>6, <2>7, <3>1 DEF Blocks
    <3>2. CASE p \in procs
      <4> SUFFICES ASSUME p.reads, <<p.in[1], "w">> \in c.held PROVE FALSE
        BY DEF Blocks
      <4>1. <<p.in[1], "w">> # Other
        BY DEF Other
      <4> QED BY <2>3, <2>5, <2>6, <3>2, <4>1
    <3> QED BY <3>1, <3>2
  <2>9. procs' = procs \cup {c}
    BY <2>2, <2>6
  <2>10. NoCircle'
    BY <2>8, <2>9, NoCircleAdd DEF HoldInv
  <2>11. ReadsPipe'
    BY <2>7, <2>9 DEF HoldInv, ReadsPipe
  <2>12. WritersOpen'
    <3> SUFFICES ASSUME NEW p \in procs \cup {c}, NEW f \in DOMAIN tab', p.reads, tab'[f] = <<p.in[1], "w">>
                 PROVE  FALSE
      BY <2>9 DEF WritersOpen
    <3>1. f \in DOMAIN tab /\ tab[f] = <<p.in[1], "w">> /\ f # my[j].fd[2]
      BY <2>2 DEF Both
    <3> QED BY <2>3, <2>5, <2>7, <3>1
  <2> QED BY <2>10, <2>11, <2>12 DEF HoldInv
<1> QED BY <1>1, <1>2

(* What a forked stage holds: what it takes its input from, and nothing that*)
(* it closes.                                                               *)
Source == IF C.type = "F_RED_PIPE" THEN my[i - 1].fd[1] ELSE From(ForkUp)

LEMMA ChildHolds ==
  ASSUME Source \notin Unused,
         C.type = "F_RED_PIPE" => Source \notin Both(temp[temp_id + 1]) /\ Source \notin Both(C.fd)
  PROVE  /\ ForkChild.in = At(ForkTab, Source)
         /\ \A x \in ForkChild.held :
              \/ x = Other
              \/ \E f \in DOMAIN ForkTab :
                   x = ForkTab[f] /\ (f = Source \/ (f \notin Unused /\ f \notin Both(temp[temp_id + 1])))
<1> DEFINE t0 == close_unused_pipe_in_child(ForkTab)
           B  == Both(temp[temp_id + 1])
<1>1. t0 = Close(ForkTab, Unused)
  BY DEF close_unused_pipe_in_child, Unused
<1>2. ForkChild = IF C.type = "F_RED_PIPE" THEN exe_f_red(t0) ELSE exe_command(t0, ForkUp)
  BY DEF ForkChild, Child
<1>3. PICK T, U : T = ForkTab /\ U = Unused
  OBVIOUS
<1>4. t0 = Close(T, U)
  BY <1>1, <1>3
<1> HIDE DEF t0
<1>5. DOMAIN t0 = DOMAIN T \ U /\ \A f \in DOMAIN t0 : t0[f] = T[f]
  <2>1. DOMAIN Close(T, U) = DOMAIN T \ U /\ \A f \in DOMAIN T \ U : Close(T, U)[f] = T[f]
    BY CloseParts
  <2> QED BY <1>4, <2>1
<1>6. \A F : /\ DOMAIN Close(t0, F) = (DOMAIN T \ U) \ F
             /\ \A f \in DOMAIN Close(t0, F) : Close(t0, F)[f] = T[f]
  <2> SUFFICES ASSUME NEW F
               PROVE  /\ DOMAIN Close(t0, F) = (DOMAIN T \ U) \ F
                      /\ \A f \in DOMAIN Close(t0, F) : Close(t0, F)[f] = T[f]
    OBVIOUS
  <2>1. PICK t : t = t0
    OBVIOUS
  <2>2. DOMAIN Close(t, F) = DOMAIN t \ F /\ \A f \in DOMAIN t \ F : Close(t, F)[f] = t[f]
    BY CloseParts
  <2> QED BY <1>5, <2>1, <2>2
<1>7. CASE C.type = "F_RED_PIPE"
  <2>1. PICK F : F = B \cup Both(C.fd)
    OBVIOUS
  <2>2. PICK G : G = F \cup {my[i - 1].fd[1]}
    OBVIOUS
  <2>3. Source = my[i - 1].fd[1]
    BY <1>7 DEF Source
  <2>4. /\ exe_f_red(t0).in = At(Close(t0, F), Source)
        /\ exe_f_red(t0).held = Range(Close(t0, G)) \cup {At(Close(t0, F), Source)}
    BY <2>1, <2>2, <2>3 DEF exe_f_red
  <2>5. At(Close(t0, F), Source) = At(T, Source)
    <3>1. Source \in DOMAIN T <=> Source \in (DOMAIN T \ U) \ F
      BY <1>3, <1>7, <2>1
    <3>2. /\ Source \in DOMAIN Close(t0, F) <=> Source \in DOMAIN T
          /\ Source \in DOMAIN Close(t0, F) => Close(t0, F)[Source] = T[Source]
      BY <1>6, <3>1
    <3> QED BY <3>2 DEF At
  <2>6. \A x \in Range(Close(t0, G)) : \E f \in DOMAIN T : x = T[f] /\ f \notin U /\ f \notin B
    <3>1. \A f \in DOMAIN Close(t0, G) : f \in DOMAIN T /\ f \notin U /\ f \notin B /\ Close(t0, G)[f] = T[f]
      <4>1. DOMAIN Close(t0, G) = (DOMAIN T \ U) \ G
        BY <1>6
      <4>2. B \subseteq G
        BY <2>1, <2>2
      <4> QED BY <1>6, <4>1, <4>2
    <3> QED BY <3>1 DEF Range
  <2>7. ForkChild.in = At(T, Source) /\ ForkChild.held = Range(Close(t0, G)) \cup {At(T, Source)}
    BY <1>2, <1>7, <2>4, <2>5
  <2>8. At(T, Source) = Other \/ (Source \in DOMAIN T /\ At(T, Source) = T[Source])
    BY DEF At
  <2> QED BY <1>3, <2>6, <2>7, <2>8
<1>8. CASE C.type # "F_RED_PIPE"
  <2>1. PICK G : G = {Source} \cup B
    OBVIOUS
  <2>2. PICK to : to = To(ForkUp)
    OBVIOUS
  <2>3. PICK H : H = G \cup to
    OBVIOUS
  <2>4. Source = From(ForkUp)
    BY <1>8 DEF Source
  <2>5. PICK t1 : t1 = Close(t0, G)
    OBVIOUS
  <2>6. /\ exe_command(t0, ForkUp).in = At(t0, Source)
        /\ exe_command(t0, ForkUp).held =
             Range(Close(t1, to)) \cup {At(t0, Source), IF to = {} THEN Other ELSE At(t1, Max(to))}
    BY <2>1, <2>2, <2>4, <2>5 DEF exe_command, From, To
  <2>7. At(t0, Source) = At(T, Source)
    BY <1>3, <1>5 DEF At
  <2>8. \A f \in DOMAIN t1 : f \in DOMAIN T /\ f \notin U /\ f \notin B /\ t1[f] = T[f]
    <3>1. DOMAIN t1 = (DOMAIN T \ U) \ G /\ \A f \in DOMAIN t1 : t1[f] = T[f]
      BY <1>6, <2>5
    <3> QED BY <2>1, <3>1
  <2>9. \A f \in DOMAIN Close(t1, to) : f \in DOMAIN t1 /\ Close(t1, to)[f] = t1[f]
    <3>1. DOMAIN Close(t1, to) = DOMAIN t1 \ to /\ \A f \in DOMAIN t1 \ to : Close(t1, to)[f] = t1[f]
      BY CloseParts
    <3> QED BY <3>1
  <2>10. \A x \in Range(Close(t1, to)) : \E f \in DOMAIN T : x = T[f] /\ f \notin U /\ f \notin B
    BY <2>8, <2>9 DEF Range
  <2>11. PICK o : o = IF to = {} THEN Other ELSE At(t1, Max(to))
    OBVIOUS
  <2>12. o = Other \/ \E f \in DOMAIN T : o = T[f] /\ f \notin U /\ f \notin B
    BY <2>8, <2>11 DEF At
  <2>13. ForkChild.in = At(T, Source) /\ ForkChild.held = Range(Close(t1, to)) \cup {At(T, Source), o}
    BY <1>2, <1>8, <2>6, <2>7, <2>11
  <2>14. At(T, Source) = Other \/ (Source \in DOMAIN T /\ At(T, Source) = T[Source])
    BY DEF At
  <2> QED BY <1>3, <2>10, <2>12, <2>13, <2>14
<1> QED BY <1>7, <1>8

(* The number a stage takes its input from: it is the read end of a user    *)
(* pipe, of the next temporary pipe or of the command before it, and none   *)
(* that the stage closes.                                                   *)
FromUser == C.type # "F_RED_PIPE" /\ C.rd # -1 /\ Source = user_pipe[C.rd][cur][1]
FromTemp == C.type # "F_RED_PIPE" /\ C.rd = -1 /\ stop_pipe /\ Source = temp[temp_id + 1][1]
FromLast == /\ C.type = "F_RED_PIPE" \/ (C.type # "F_RED_PIPE" /\ C.rd = -1 /\ ~stop_pipe)
            /\ i - 1 \in DOMAIN my /\ Source = my[i - 1].fd[1]

LEMMA SourceNames ==
  ASSUME Typed, PlaceInv, PlaceInv', FlowInv, StageForks
  PROVE  FromUser \/ FromTemp \/ FromLast
<1>1. pc = "stage" /\ i \in 1..Len(my) /\ Len(my) \in Nat /\ DOMAIN my = 1..Len(my) /\ C = my[i]
  BY ForkCmds
<1>2. C.type = "F_RED_PIPE" => i > 1
  BY <1>1 DEF FlowInv, Before
<1>3. i > 1 => i - 1 \in DOMAIN my
  BY <1>1
<1>4. CASE C.type # "F_RED_PIPE" /\ C.rd # -1
  <2>1. From(ForkUp) = ForkUp[C.rd][cur][1]
    BY <1>4 DEF From
  <2>2. ForkUp[C.rd][cur] = user_pipe[C.rd][cur]
    BY <1>4, ForkPipes
  <2>3. Source = user_pipe[C.rd][cur][1]
    BY <1>4, <2>1, <2>2 DEF Source
  <2> QED BY <1>4, <2>3 DEF FromUser
<1>5. CASE C.type # "F_RED_PIPE" /\ C.rd = -1 /\ stop_pipe
  <2>1. From(ForkUp) = temp[temp_id + 1][1]
    BY <1>5, Zenon DEF From
  <2>2. Source = temp[temp_id + 1][1]
    BY <1>5, <2>1 DEF Source
  <2> QED BY <1>5, <2>2 DEF FromTemp
<1>6. CASE C.type # "F_RED_PIPE" /\ C.rd = -1 /\ ~stop_pipe
  <2>1. From(ForkUp) = my[i - 1].fd[1]
    BY <1>6, Zenon DEF From
  <2>2. Source = my[i - 1].fd[1]
    BY <1>6, <2>1 DEF Source
  <2>3. i - 1 \in DOMAIN my
    BY <1>1, <1>3, <1>6 DEF FlowInv, Before
  <2> QED BY <1>6, <2>2, <2>3 DEF FromLast
<1>7. CASE C.type = "F_RED_PIPE"
  <2>1. Source = my[i - 1].fd[1]
    BY <1>7 DEF Source
  <2> QED BY <1>2, <1>3, <1>7, <2>1 DEF FromLast
<1> QED BY <1>4, <1>5, <1>6, <1>7

LEMMA SourceApart ==
  ASSUME Typed, PlaceInv, PlaceInv', FlowInv, StageForks
  PROVE  /\ \A k \in DOMAIN my : Source # my[k].fd[2] /\ (k # i - 1 => Source # my[k].fd[1])
         /\ \A m \in DOMAIN temp : Source # temp[m][2]
         /\ Source \notin Unused
         /\ C.type = "F_RED_PIPE" => Source \notin Both(temp[temp_id + 1]) /\ Source \notin Both(C.fd)
<1>1. /\ cur \in User /\ i \in 1..Len(my) /\ Len(my) \in Nat /\ DOMAIN my = 1..Len(my)
      /\ my = cmds[cur] /\ C = my[i] /\ temp_id + 1 \in DOMAIN temp
      /\ (C.rd # -1 => C.rd \in User /\ user_pipe[C.rd][cur] # NoPair)
  BY ForkCmds
<1>2. Distinct
  BY DEF PlaceInv
<1>3. CASE FromUser
  <2>1. \A k \in DOMAIN my : Source # my[k].fd[2] /\ Source # my[k].fd[1]
    BY <1>1, <1>2, <1>3, Separate DEF FromUser
  <2>2. \A m \in DOMAIN temp : Source # temp[m][2]
    BY <1>1, <1>2, <1>3, Separate DEF FromUser
  <2>3. C.type # "F_RED_PIPE"
    BY <1>3 DEF FromUser
  <2> QED BY <2>1, <2>2, <2>3 DEF Unused
<1>4. CASE FromTemp
  <2>1. \A k \in DOMAIN my : Source # my[k].fd[2] /\ Source # my[k].fd[1]
    BY <1>1, <1>2, <1>4, Separate DEF FromTemp
  <2>2. ASSUME NEW m \in DOMAIN temp, Source = temp[m][2] PROVE FALSE
    <3>1. Owns(<<"temp", m, 0, 2>>, temp[m][2]) /\ Owns(<<"temp", temp_id + 1, 0, 1>>, temp[temp_id + 1][1])
      BY <1>1, OwnsAll
    <3>2. <<"temp", m, 0, 2>> = <<"temp", temp_id + 1, 0, 1>>
      BY <1>2, <1>4, <2>2, <3>1 DEF Distinct, FromTemp
    <3> QED BY <3>2
  <2>3. C.type # "F_RED_PIPE"
    BY <1>4 DEF FromTemp
  <2> QED BY <2>1, <2>2, <2>3 DEF Unused
<1>5. CASE FromLast
  <2>1. i - 1 \in DOMAIN cmds[cur] /\ i \in DOMAIN cmds[cur] /\ i - 1 # i /\ Source = cmds[cur][i - 1].fd[1]
    BY <1>1, <1>5 DEF FromLast
  <2>2. \A k \in DOMAIN cmds[cur] : Source # cmds[cur][k].fd[2] /\ (k # i - 1 => Source # cmds[cur][k].fd[1])
    BY <1>1, <1>2, <2>1, Separate
  <2>3. \A m \in DOMAIN temp : Source # temp[m][1] /\ Source # temp[m][2]
    BY <1>1, <1>2, <2>1, Separate
  <2>4. Source \notin Unused
    BY <1>1, <2>2 DEF Unused
  <2>5. Source \notin Both(temp[temp_id + 1])
    BY <1>1, <2>3 DEF Both
  <2>6. Source \notin Both(C.fd)
    BY <1>1, <2>1, <2>2 DEF Both
  <2> QED BY <1>1, <2>2, <2>3, <2>4, <2>5, <2>6
<1> QED BY <1>3, <1>4, <1>5, SourceNames

(* A stage that reads finds its input open, and the server holds its write  *)
(* end, if at all, for the temporary pipe or for the command before it.     *)
LEMMA SourceOpen ==
  ASSUME Typed, PlaceInv, PlaceInv', PoolInv, LineInv, FlowInv, OpenInv, StageForks, Reads(C)
  PROVE  \E q \in Pipes :
           /\ Source \in DOMAIN tab /\ tab[Source] = <<q, "r">>
           /\ \A f \in DOMAIN tab : tab[f] = <<q, "w">> =>
                \/ f = temp[temp_id + 1][2]
                \/ New(i - 1) /\ my[i - 1].type # "NUM_PIPE" /\ f = my[i - 1].fd[2]
<1>1. /\ pc = "stage" /\ cur \in User /\ i \in 1..Len(my) /\ Len(my) \in Nat /\ DOMAIN my = 1..Len(my)
      /\ my = cmds[cur] /\ C = my[i] /\ temp_id + 1 \in DOMAIN temp
      /\ (C.rd # -1 => C.rd \in User /\ user_pipe[C.rd][cur] # NoPair)
  BY ForkCmds
<1>2. Distinct /\ OneEach /\ InLine /\ i <= Len(my)
  BY <1>1 DEF PlaceInv, InLine
<1>3. New(i)
  BY <1>1, <1>2, ServedIsNew
<1>4. PromptAt(i)
  BY <1>1, <1>2, <1>3 DEF LineInv, Prompt
<1>5. \A q \in Pipes : <<q, "r">> # Other /\ <<q, "w">> # Other
  BY BoundAssumption DEF Other
<1>6. CASE FromUser
  <2>1. PICK q \in Pipes : Source \in DOMAIN tab /\ tab[Source] = <<q, "r">>
    BY <1>1, <1>6 DEF FromUser, PlaceInv, OpenPipes, ReadIn
  <2>2. ASSUME NEW f \in DOMAIN tab, tab[f] = <<q, "w">> PROVE FALSE
    <3>1. CASE \E v \in User : \E k \in DOMAIN cmds[v] : EndsAt(cmds[v][k].fd, q, f)
      <4>1. PICK v \in User : \E k \in DOMAIN cmds[v] : EndsAt(cmds[v][k].fd, q, f)
        BY <3>1
      <4>2. PICK k \in DOMAIN cmds[v] : EndsAt(cmds[v][k].fd, q, f)
        BY <4>1
      <4>3. cmds[v][k].fd[1] = Source
        BY <1>2, <1>5, <2>1, <4>2 DEF EndsAt, OneEach
      <4>4. cmds[v][k].fd[1] # user_pipe[C.rd][cur][1]
        BY <1>1, <1>2, <1>6, Separate DEF FromUser
      <4> QED BY <1>6, <4>3, <4>4 DEF FromUser
    <3>2. CASE \E m \in DOMAIN temp : EndsAt(temp[m], q, f)
      <4>1. PICK m \in DOMAIN temp : EndsAt(temp[m], q, f)
        BY <3>2
      <4>2. temp[m][1] = Source
        BY <1>2, <1>5, <2>1, <4>1 DEF EndsAt, OneEach
      <4>3. temp[m][1] # user_pipe[C.rd][cur][1]
        BY <1>1, <1>2, <1>6, Separate DEF FromUser
      <4> QED BY <1>6, <4>2, <4>3 DEF FromUser
    <3> QED BY <2>2, <3>1, <3>2 DEF OpenInv, Paired
  <2> QED BY <2>1, <2>2
<1>7. CASE FromTemp
  <2>1. Untaken
    <3> SUFFICES ASSUME temp_id # 0, fresh, ~AllUse PROVE FALSE
      BY <1>7 DEF Untaken, FromTemp
    <3>1. New(i - 1) /\ my[i - 1].type = "NUM_PIPE" /\ ~my[i - 1].piped
      BY <1>2, <1>7 DEF LineInv, Stops, FromTemp
    <3>2. i - 1 \in 1..(i - 1) /\ i - 1 < Len(my) /\ (i - 1) + 1 = i /\ i - 1 < i
      BY <1>1, <3>1 DEF New
    <3>3. PromptAt(i - 1)
      BY <1>2, <3>1 DEF LineInv, Prompt, New
    <3>4. my[i - 1].num = 0
      BY <1>1, <3>1, <3>2, <3>3 DEF PromptAt
    <3>5. ~Due(cur, i - 1)
      BY <3>2, StageForksNames
    <3> QED BY <1>1, <3>1, <3>4, <3>5 DEF Due
  <2>2. OpenIn(tab, temp[temp_id + 1])
    BY <1>1, <1>2, <2>1 DEF OpenInv, TempsOpen
  <2>3. PICK q \in Pipes : /\ temp[temp_id + 1][1] \in DOMAIN tab /\ tab[temp[temp_id + 1][1]] = <<q, "r">>
                           /\ temp[temp_id + 1][2] \in DOMAIN tab /\ tab[temp[temp_id + 1][2]] = <<q, "w">>
    BY <2>2 DEF OpenIn
  <2>4. \A f \in DOMAIN tab : tab[f] = <<q, "w">> => f = temp[temp_id + 1][2]
    BY <1>2, <1>5, <2>3 DEF OneEach
  <2> QED BY <1>7, <2>3, <2>4 DEF FromTemp
<1>8. CASE FromLast
  <2>1. New(i - 1) /\ my[i - 1].type # "NUM_PIPE"
    <3>1. CASE C.type = "F_RED_PIPE"
      BY <1>1, <1>4, <3>1 DEF PromptAt
    <3>2. CASE ~stop_pipe
      BY <1>2, <3>2 DEF LineInv, Stops
    <3> QED BY <1>8, <3>1, <3>2 DEF FromLast
  <2>2. OpenIn(tab, my[i - 1].fd)
    BY <1>2, <2>1 DEF OpenInv, MyOpen, New
  <2>3. PICK q \in Pipes : /\ my[i - 1].fd[1] \in DOMAIN tab /\ tab[my[i - 1].fd[1]] = <<q, "r">>
                           /\ my[i - 1].fd[2] \in DOMAIN tab /\ tab[my[i - 1].fd[2]] = <<q, "w">>
    BY <2>2 DEF OpenIn
  <2>4. \A f \in DOMAIN tab : tab[f] = <<q, "w">> => f = my[i - 1].fd[2]
    BY <1>2, <1>5, <2>3 DEF OneEach
  <2> QED BY <1>8, <2>1, <2>3, <2>4 DEF FromLast
<1> QED BY <1>6, <1>7, <1>8, SourceNames

(* No stage inherits the write end of a pipe that a running child reads:    *)
(* the server holds it only as an end the stage closes.                     *)
LEMMA ForkBlocksNone ==
  ASSUME Typed, PlaceInv, PlaceInv', FlowInv, HoldInv, StageForks, NEW p \in procs
  PROVE  ~(p.reads /\ <<p.in[1], "w">> \in ForkChild.held)
<1> SUFFICES ASSUME p.reads, <<p.in[1], "w">> \in ForkChild.held PROVE FALSE
  OBVIOUS
<1>1. /\ pc = "stage" /\ i \in 1..Len(my) /\ Len(my) \in Nat /\ DOMAIN my = 1..Len(my)
      /\ temp_id + 1 \in DOMAIN temp
  BY ForkCmds
<1>2. PICK q \in Pipes : p.in = <<q, "r">>
  BY DEF HoldInv, ReadsPipe
<1>3. q \notin FreePipes /\ p.in[1] = q
  <2>1. <<q, "r">> \in p.held
    BY <1>2 DEF FlowInv, InHeld
  <2> QED BY <1>2, <2>1, FreeUnheld
<1>4. <<q, "w">> # Other
  BY BoundAssumption DEF Other
<1>5. /\ \A k \in DOMAIN my : Source # my[k].fd[2]
      /\ \A m \in DOMAIN temp : Source # temp[m][2]
      /\ Source \notin Unused
      /\ C.type = "F_RED_PIPE" => Source \notin Both(temp[temp_id + 1]) /\ Source \notin Both(C.fd)
  BY SourceApart
<1>6. PICK f \in DOMAIN ForkTab :
        <<q, "w">> = ForkTab[f] /\ (f = Source \/ (f \notin Unused /\ f \notin Both(temp[temp_id + 1])))
  BY <1>3, <1>4, <1>5, ChildHolds
<1>7. f \in DOMAIN tab
  <2> SUFFICES ASSUME f \notin DOMAIN tab PROVE FALSE
    OBVIOUS
  <2>1. PICK r \in FreePipes, x \in {"r", "w"} : ForkTab[f] = <<r, x>>
    BY ForkCloses
  <2> QED BY <1>3, <1>6, <2>1
<1>8. tab[f] = <<q, "w">>
  <2>1. ForkTab[f] = tab[f]
    BY <1>7, StageForksNames, ForkTabParts
  <2> QED BY <1>6, <2>1
<1>9. Served(f)
  BY <1>1, <1>3, <1>7, <1>8 DEF HoldInv, WritersOpen
<1>10. CASE \E k \in 1..(i - 1) : New(k) /\ f = my[k].fd[2] /\ my[k].type # "NUM_PIPE"
  <2>1. PICK k \in 1..(i - 1) : New(k) /\ f = my[k].fd[2]
    BY <1>10
  <2>2. k \in DOMAIN my \ {i}
    BY <1>1, <2>1
  <2> QED BY <1>5, <1>6, <2>1, <2>2 DEF Unused
<1>11. CASE temp_id = 0 /\ f = temp[1][2]
  <2>1. temp_id + 1 = 1
    BY <1>11
  <2> QED BY <1>1, <1>5, <1>6, <1>11, <2>1 DEF Both
<1> QED BY <1>9, <1>10, <1>11 DEF Served

(* And it does not hold the write end of what it reads itself.              *)
LEMMA ForkReads ==
  ASSUME Typed, PlaceInv, PlaceInv', PoolInv, LineInv, FlowInv, OpenInv, StageForks, Reads(C)
  PROVE  \E q \in Pipes :
           /\ ForkChild.in = <<q, "r">> /\ <<q, "w">> \notin ForkChild.held
           /\ \A f \in DOMAIN tab' : tab'[f] = <<q, "w">> =>
                \/ temp_id = 0 /\ f = temp[1][2]
                \/ New(i - 1) /\ my[i - 1].type # "NUM_PIPE" /\ f = my[i - 1].fd[2]
<1>1. /\ pc = "stage" /\ i \in 1..Len(my) /\ Len(my) \in Nat /\ DOMAIN my = 1..Len(my)
      /\ temp_id + 1 \in DOMAIN temp
  BY ForkCmds
<1>2. PICK q \in Pipes :
        /\ Source \in DOMAIN tab /\ tab[Source] = <<q, "r">>
        /\ \A f \in DOMAIN tab : tab[f] = <<q, "w">> =>
             \/ f = temp[temp_id + 1][2]
             \/ New(i - 1) /\ my[i - 1].type # "NUM_PIPE" /\ f = my[i - 1].fd[2]
  BY SourceOpen
<1>3. q \notin FreePipes
  BY <1>2, FreeUnheld
<1>4. <<q, "w">> # Other
  BY BoundAssumption DEF Other
<1>5. /\ \A k \in DOMAIN my : Source # my[k].fd[2]
      /\ \A m \in DOMAIN temp : Source # temp[m][2]
      /\ Source \notin Unused
      /\ C.type = "F_RED_PIPE" => Source \notin Both(temp[temp_id + 1]) /\ Source \notin Both(C.fd)
  BY SourceApart
<1>6. \A f \in DOMAIN tab : f \in DOMAIN ForkTab /\ ForkTab[f] = tab[f]
  BY StageForksNames, ForkTabParts
<1>7. ForkChild.in = <<q, "r">>
  <2>1. ForkChild.in = At(ForkTab, Source)
    BY <1>5, ChildHolds
  <2>2. Source \in DOMAIN ForkTab /\ ForkTab[Source] = <<q, "r">>
    BY <1>2, <1>6
  <2> QED BY <2>1, <2>2 DEF At
<1>8. <<q, "w">> \notin ForkChild.held
  <2> SUFFICES ASSUME <<q, "w">> \in ForkChild.held PROVE FALSE
    OBVIOUS
  <2>1. PICK f \in DOMAIN ForkTab :
          <<q, "w">> = ForkTab[f] /\ (f = Source \/ (f \notin Unused /\ f \notin Both(temp[temp_id + 1])))
    BY <1>4, <1>5, ChildHolds
  <2>2. f \in DOMAIN tab
    <3> SUFFICES ASSUME f \notin DOMAIN tab PROVE FALSE
      OBVIOUS
    <3>1. PICK r \in FreePipes, x \in {"r", "w"} : ForkTab[f] = <<r, x>>
      BY ForkCloses
    <3> QED BY <1>3, <2>1, <3>1
  <2>3. tab[f] = <<q, "w">>
    BY <1>6, <2>1, <2>2
  <2>4. f # Source
    BY <1>2, <2>3
  <2>5. f # temp[temp_id + 1][2]
    BY <2>1, <2>4 DEF Both
  <2>6. New(i - 1) /\ f = my[i - 1].fd[2]
    BY <1>2, <2>2, <2>3, <2>5
  <2>7. i - 1 \in DOMAIN my \ {i}
    BY <1>1, <2>6 DEF New
  <2> QED BY <2>1, <2>4, <2>6, <2>7 DEF Unused
<1>9. ASSUME NEW f \in DOMAIN tab', tab'[f] = <<q, "w">>
      PROVE  \/ temp_id = 0 /\ f = temp[1][2]
             \/ New(i - 1) /\ my[i - 1].type # "NUM_PIPE" /\ f = my[i - 1].fd[2]
  <2>1. f \in DOMAIN tab
    <3> SUFFICES ASSUME f \notin DOMAIN tab PROVE FALSE
      OBVIOUS
    <3>1. PICK r \in FreePipes : tab'[f] = <<r, "r">>
      BY <1>9, ForkCloses
    <3> QED BY <1>9, <3>1
  <2>2. tab[f] = <<q, "w">> /\ ~(temp_id # 0 /\ f \in Both(temp[temp_id + 1]))
    BY <1>9, <2>1, ForkCloses
  <2>3. CASE f = temp[temp_id + 1][2]
    <3>1. temp_id = 0
      BY <2>2, <2>3 DEF Both
    <3>2. temp_id + 1 = 1
      BY <3>1
    <3> QED BY <2>3, <3>1, <3>2
  <2> QED BY <1>2, <2>1, <2>2, <2>3
<1> QED BY <1>7, <1>8, <1>9

LEMMA HoldForks ==
  ASSUME Typed, PlaceInv, PlaceInv', PoolInv, LineInv, FlowInv, OpenInv, HoldInv, StageForks
  PROVE  HoldInv'
<1>1. /\ pc = "stage" /\ pc # "read" /\ pc # "killed" /\ pc' = "stage" /\ cur' = cur /\ i' = i + 1
      /\ UNCHANGED <<temp, temp_id, lines>>
      /\ i \in 1..Len(my) /\ DOMAIN my = 1..Len(my) /\ DOMAIN my' = DOMAIN my /\ Len(my) \in Nat
      /\ C = my[i]
  BY ForkCmds
<1>2. /\ my' \in Seq(Cmd) /\ Len(my') = Len(my)
      /\ \A k \in 1..Len(my) : Kept(my'[k], my[k])
  BY StageForksCmds
<1>3. InLine /\ InLine' /\ New(i)
  BY <1>1, ServedIsNew DEF InLine
<1>4. /\ \A k : New(k)' <=> New(k)
      /\ \A k \in 1..Len(my) : Reads(my'[k]) <=> Reads(my[k])
  BY <1>1, <1>2, NewKept DEF SameLine
<1>5. \A k \in 1..Len(my) : my'[k].fd = my[k].fd /\ my'[k].type = my[k].type
  BY <1>2 DEF Kept
<1>6. \A k \in 1..(i - 1) : k \in 1..(i' - 1) /\ k \in 1..Len(my)
  BY <1>1
<1>7. Behind => Behind'
  BY <1>4, <1>6 DEF Behind
<1>8. \A f : Served(f) => Served(f)'
  BY <1>1, <1>4, <1>5, <1>6 DEF Served
<1>9. PICK c : c = Forked
  OBVIOUS
<1>10. /\ procs' = procs \cup {c} /\ c.in = ForkChild.in /\ c.held = ForkChild.held
       /\ c.reads <=> Reads(C)
  BY <1>9, StageForksNames DEF Forked
<1>11. ASSUME c.reads
       PROVE  \E q \in Pipes :
                /\ c.in = <<q, "r">> /\ <<q, "w">> \notin c.held
                /\ \A f \in DOMAIN tab' : tab'[f] = <<q, "w">> =>
                     \/ temp_id = 0 /\ f = temp[1][2]
                     \/ New(i - 1) /\ my[i - 1].type # "NUM_PIPE" /\ f = my[i - 1].fd[2]
  BY <1>10, <1>11, ForkReads
<1>12. ReadsPipe'
  BY <1>10, <1>11 DEF HoldInv, ReadsPipe
<1>13. NoCircle'
  <2>1. ASSUME NEW p \in procs \cup {c} PROVE ~Blocks(c, p)
    <3>1. CASE p = c
      <4> SUFFICES ASSUME c.reads PROVE <<c.in[1], "w">> \notin c.held
        BY <3>1 DEF Blocks
      <4>1. PICK q \in Pipes : c.in = <<q, "r">> /\ <<q, "w">> \notin c.held
        BY <1>11
      <4> QED BY <4>1
    <3>2. CASE p \in procs
      BY <1>10, <3>2, ForkBlocksNone DEF Blocks
    <3> QED BY <3>1, <3>2
  <2> QED BY <1>10, <2>1, NoCircleAdd DEF HoldInv
<1>14. WritersOpen'
  <2> SUFFICES ASSUME NEW p \in procs \cup {c}, NEW f \in DOMAIN tab', p.reads, tab'[f] = <<p.in[1], "w">>
               PROVE  Behind' /\ Served(f)'
    BY <1>3, <1>10 DEF WritersOpen
  <2>1. CASE p \in procs
    <3>1. f \in DOMAIN tab
      <4> SUFFICES ASSUME f \notin DOMAIN tab PROVE FALSE
        OBVIOUS
      <4>1. PICK r \in FreePipes : tab'[f] = <<r, "r">>
        BY ForkCloses
      <4> QED BY <4>1
    <3>2. tab[f] = <<p.in[1], "w">>
      BY <3>1, ForkCloses
    <3>3. Behind /\ Served(f)
      BY <1>1, <2>1, <3>1, <3>2 DEF HoldInv, WritersOpen
    <3> QED BY <1>7, <1>8, <3>3
  <2>2. CASE p = c
    <3>1. PICK q \in Pipes :
            /\ c.in = <<q, "r">>
            /\ \A g \in DOMAIN tab' : tab'[g] = <<q, "w">> =>
                 \/ temp_id = 0 /\ g = temp[1][2]
                 \/ New(i - 1) /\ my[i - 1].type # "NUM_PIPE" /\ g = my[i - 1].fd[2]
      BY <1>11, <2>2
    <3>2. Reads(my[i]) /\ i \in 1..(i' - 1)
      BY <1>1, <1>10, <2>2
    <3>3. Behind'
      BY <1>1, <1>3, <1>4, <3>2 DEF Behind
    <3>4. tab'[f] = <<q, "w">>
      BY <2>2, <3>1
    <3>5. CASE temp_id = 0 /\ f = temp[1][2]
      BY <1>1, <3>3, <3>5 DEF Served
    <3>6. CASE New(i - 1) /\ my[i - 1].type # "NUM_PIPE" /\ f = my[i - 1].fd[2]
      <4>1. PICK k : k = i - 1
        OBVIOUS
      <4>2. New(k) /\ my[k].type # "NUM_PIPE" /\ f = my[k].fd[2] /\ k \in 1..Len(my) /\ k \in 1..(i' - 1)
        BY <1>1, <3>6, <4>1 DEF New
      <4>3. New(k)' /\ my'[k].type # "NUM_PIPE" /\ f = my'[k].fd[2]
        BY <1>4, <1>5, <4>2
      <4>4. Served(f)'
        BY <4>2, <4>3 DEF Served
      <4> QED BY <3>3, <4>4
    <3> QED BY <3>1, <3>4, <3>5, <3>6
  <2> QED BY <2>1, <2>2
<1> QED BY <1>12, <1>13, <1>14 DEF HoldInv

LEMMA HoldStep ==
  ASSUME Typed, PlaceInv, PlaceInv', PoolInv, FlowInv, LineInv, OpenInv, HoldInv, [Next]_vars
  PROVE  HoldInv'
<1>1. ASSUME NEW u \in User, NEW l \in Inputs[u], Start(u, l) PROVE HoldInv'
  <2>1. GoodLine(l)
    BY InputAssumption DEF GoodLine
  <2> QED BY <1>1, <2>1, HoldStart
<1>2. ASSUME NEW p \in procs, Finish(p) PROVE HoldInv'
  <2>1. UNCHANGED <<pc, line, cmds, tab, lines>> /\ procs' \subseteq procs
    BY <1>2 DEF Finish, ghost
  <2> QED BY <2>1, HoldIdle
<1>3. CASE UNCHANGED vars
  <2>1. UNCHANGED <<pc, line, cmds, tab, lines>> /\ procs' \subseteq procs
    BY <1>3 DEF vars, ghost
  <2> QED BY <2>1, HoldIdle
<1> QED BY <1>1, <1>2, <1>3, HoldCollect, HoldStageFails, HoldWaitPre, HoldForks, HoldEndLine, HoldReap
        DEF Next, Server

LEMMA WaitInit ==
  ASSUME Init
  PROVE  LineInv /\ OpenInv /\ HoldInv
<1>1. /\ pc = "read" /\ ~InLine /\ procs = {} /\ temp = << >> /\ lines = 0
      /\ \A u \in User : DOMAIN cmds[u] = {}
      /\ \A f \in DOMAIN tab : tab[f] = Other
  BY DEF Init, InLine
<1>2. LineInv
  BY <1>1 DEF LineInv, JobsInOrder, Prompt, Failing, Stops
<1>3. OpenInv
  <2>1. \A q \in Pipes : <<q, "w">> # Other
    BY BoundAssumption DEF Other
  <2> QED BY <1>1, <2>1 DEF OpenInv, TempsOpen, MyOpen, Paired
<1>4. HoldInv
  BY <1>1 DEF HoldInv, ReadsPipe, WritersOpen, NoCircle
<1> QED BY <1>2, <1>3, <1>4

(* At a wait nothing of the line has read, or the line is over: the server  *)
(* holds no write end of a reader's pipe, and one child is blocked by none. *)
LEMMA WaitHolds ==
  ASSUME Typed, PoolInv, LineInv, HoldInv
  PROVE  WaitEnds
<1> SUFFICES ASSUME pc \in {"waitpre", "wait", "read"}, procs # {} PROVE \E p \in procs : CanEnd(p)
  BY DEF WaitEnds
<1>1. \A p \in procs : \A f \in DOMAIN tab : p.reads => tab[f] # <<p.in[1], "w">>
  <2> SUFFICES ASSUME InLine, Behind PROVE FALSE
    BY DEF HoldInv, WritersOpen
  <2>1. pc = "waitpre" /\ pc # "read"
    BY DEF InLine
  <2>2. i <= Len(my) /\ UsesPipe(my[i]) /\ DOMAIN my = 1..Len(my)
    BY <2>1, CurUser DEF Typed, Progress, LineInv, Failing
  <2>3. New(i) /\ i \in 1..Len(my)
    BY <2>2, ServedIsNew
  <2>4. PromptAt(i)
    BY <2>2, <2>3 DEF LineInv, Prompt
  <2> QED BY <2>2, <2>4 DEF PromptAt, Behind
<1>2. procs \in SUBSET procs
  OBVIOUS
<1>3. PICK p \in procs : \A q \in procs : ~Blocks(q, p)
  BY <1>2 DEF HoldInv, NoCircle
<1>4. ASSUME p.reads PROVE p.in # Other /\ <<p.in[1], "w">> \notin Held
  <2>1. p.in # Other
    <3>1. PICK q \in Pipes : p.in = <<q, "r">>
      BY <1>4 DEF HoldInv, ReadsPipe
    <3> QED BY <3>1, BoundAssumption DEF Other
  <2>2. \A q \in procs : <<p.in[1], "w">> \notin q.held
    BY <1>3, <1>4 DEF Blocks
  <2>3. <<p.in[1], "w">> \notin Range(tab)
    BY <1>1, <1>4 DEF Range
  <2> QED BY <2>1, <2>2, <2>3 DEF Held
<1> QED BY <1>4 DEF CanEnd

(* Whenever the server waits for a child, or for the next line, some child  *)
(* can go on: exe_bin never waits for a command whose end of file it holds  *)
(* back itself, and no children hold each other's back, because what a      *)
(* child inherits is closed (close_unused_pipe_in_child) but for the pipes  *)
(* of the line that nobody has begun to read.  It is so for lines in which  *)
(* no command before a user pipe or a number pipe of more lines reads.      *)
THEOREM WaitEndsAlways == ASSUME ~Mixed, UnmixedLines, PromptLines PROVE Spec => []WaitEnds
<1> DEFINE All == PoolInv /\ LineInv /\ OpenInv /\ HoldInv
<1>1. Init => All
  <2>1. Init => PoolInv
    BY DEF Init, PoolInv, Ahead, TakenInv
  <2> QED BY <2>1, WaitInit
<1>2. Typed /\ PlaceInv /\ PlaceInv' /\ FlowInv /\ All /\ [Next]_vars => All'
  <2> SUFFICES ASSUME Typed, PlaceInv, PlaceInv', FlowInv, All, [Next]_vars PROVE All'
    OBVIOUS
  <2>1. PoolInv'
    BY PoolStep
  <2>2. LineInv'
    BY LineStep
  <2>3. OpenInv'
    BY OpenStep
  <2>4. HoldInv'
    BY HoldStep
  <2> QED BY <2>1, <2>2, <2>3, <2>4
<1>3. Typed /\ All => WaitEnds
  BY WaitHolds
<1>4. Spec => []Typed /\ []PlaceInv /\ []FlowInv
  BY TypedAlways, PlaceAlways, FlowAlways
<1> HIDE DEF All
<1> QED BY <1>1, <1>2, <1>3, <1>4, PTL DEF Spec

===============================================================================
