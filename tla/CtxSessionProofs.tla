-------------------------- MODULE CtxSessionProofs --------------------------
(***************************************************************************)
(* Theorems about ctx run followed by ctx output, for every command and    *)
(* helper, every way the reads, exits and failures interleave, and every   *)
(* handle, query and limit that is typed.                                  *)
(*                                                                         *)
(* The run: what was written is what has been read and what is still in    *)
(* the pipe, and the run is stored only when nobody holds a pipe.  The     *)
(* output: after so many lines of both streams, as many are matched as     *)
(* match among them, and those shown are the first of the matching ones.   *)
(***************************************************************************)
EXTENDS CtxSession, FiniteSetTheorems, SequenceTheorems, TLAPS

-----------------------------------------------------------------------------
(* ctx run.                                                                  *)

\* The pipes carry every mark, in order.
PipesInv ==
  /\ written \in [Stream -> Seq(Marks)] /\ captured \in [Stream -> Seq(Marks)]
  /\ pipe \in [Stream -> Seq(Marks)]
  /\ \A s \in Stream : written[s] = captured[s] \o pipe[s] /\ Len(pipe[s]) <= PipeSize

\* Where the main thread is, the command and the stored run.
RunInv ==
  /\ pc \in {"open", "load", "spawn", "output", "put", "join", "print", "done", "failed"}
  /\ loader \in {"none", "loading", "loaded", "error", "panicked"}
  /\ status \in {"none", "running", "exited", "signal"} /\ holders \subseteq Process
  /\ writes \in [Process -> 0..MaxWrites]
  /\ holders # {} => pc = "output"
  /\ pc = "output" => status # "none"
  /\ pc \in {"put", "join", "print", "done"} => status \in {"exited", "signal"} /\ pipe = Empty
  /\ pc \in {"join", "print", "done"} => row.stored
  /\ row.stored => /\ row.output = written /\ row.status = status /\ status \in {"exited", "signal"}
                   /\ holders = {} /\ pc \in {"join", "print", "done", "failed"}
  /\ printed \in Seq(Line) /\ Len(printed) <= Len(Summary)
  /\ printed # <<>> => row.stored
  /\ pc = "print" => Len(printed) < Len(Summary)
  /\ pc \notin {"print", "done", "failed"} => printed = <<>>

\* Nothing is written, read or stored yet.
LEMMA InitRun == Init => PipesInv /\ RunInv
<1> SUFFICES ASSUME Init PROVE PipesInv /\ RunInv
  OBVIOUS
<1>1. <<>> \in Seq(Marks) /\ <<>> \o <<>> = <<>> /\ <<>> \in Seq(Line) /\ Len(<<>>) = 0
  OBVIOUS
<1>2. Len(Summary) = 4
  BY DEF Summary
<1> QED BY <1>1, <1>2, BoundsAssumption DEF Init, Empty, NoRow, PipesInv, RunInv

\* Writes and reads keep the pipes' order.
LEMMA NextPipes == PipesInv /\ RunInv /\ [Next]_vars => PipesInv'
<1> SUFFICES ASSUME PipesInv, RunInv, [Next]_vars PROVE PipesInv'
  OBVIOUS
<1> USE DEF PipesInv
<1>1. ASSUME NEW p \in Process, NEW s \in Stream, Write(p, s) PROVE PipesInv'
  <2>1. PICK m : /\ m = <<p, writes[p]>>
                 /\ written' = [written EXCEPT ![s] = Append(@, m)]
                 /\ pipe' = [pipe EXCEPT ![s] = Append(@, m)]
                 /\ captured' = captured /\ Len(pipe[s]) < PipeSize
    BY <1>1 DEF Write
  <2>2. m \in Marks
    BY <2>1 DEF RunInv, Marks
  <2>3. /\ Append(written[s], m) \in Seq(Marks) /\ Append(pipe[s], m) \in Seq(Marks)
        /\ Len(Append(pipe[s], m)) <= PipeSize
    BY <2>1, <2>2, BoundsAssumption
  <2>4. Append(captured[s] \o pipe[s], m) = captured[s] \o Append(pipe[s], m)
    <3>1. captured[s] \in Seq(Marks) /\ pipe[s] \in Seq(Marks) /\ <<m>> \in Seq(Marks)
          /\ captured[s] \o pipe[s] \in Seq(Marks)
      BY <2>2
    <3>2. /\ Append(captured[s] \o pipe[s], m) = (captured[s] \o pipe[s]) \o <<m>>
          /\ Append(pipe[s], m) = pipe[s] \o <<m>>
      BY <2>2, <3>1, AppendIsConcat
    <3> QED BY <3>1, <3>2, ConcatAssociative
  <2> QED BY <2>1, <2>3, <2>4
<1>2. ASSUME NEW s \in Stream, Drain(s) PROVE PipesInv'
  <2>1. /\ captured' = [captured EXCEPT ![s] = @ \o pipe[s]]
        /\ pipe' = [pipe EXCEPT ![s] = <<>>] /\ written' = written
    BY <1>2 DEF Drain, child
  <2>2. /\ captured[s] \o pipe[s] \in Seq(Marks) /\ <<>> \in Seq(Marks) /\ Len(<<>>) = 0
        /\ (captured[s] \o pipe[s]) \o <<>> = captured[s] \o pipe[s]
    OBVIOUS
  <2> QED BY <2>1, <2>2, BoundsAssumption
<1>3. CASE OpenStore \/ StartLoader \/ StartCommand \/ CannotStart \/ Reap \/ PutRun \/ PutRunFails
  BY <1>3 DEF OpenStore, StartLoader, StartCommand, CannotStart, Reap, PutRun, PutRunFails, child
<1>4. CASE JoinLoader \/ PrintLine \/ PrintFails \/ LoaderEnds
  BY <1>4 DEF JoinLoader, PrintLine, PrintFails, LoaderEnds, child
<1>5. CASE Fork \/ CommandExits \/ CommandKilled \/ HelperEnds \/ UNCHANGED vars
  BY <1>5 DEF Fork, CommandExits, CommandKilled, HelperEnds, vars, child
<1> QED BY <1>1, <1>2, <1>3, <1>4, <1>5 DEF Next, Main, Child

\* The run is stored whole.
LEMMA NextRun == PipesInv /\ RunInv /\ [Next]_vars => RunInv'
<1> SUFFICES ASSUME PipesInv, RunInv, [Next]_vars PROVE RunInv'
  OBVIOUS
<1> USE DEF RunInv, child, Process
<1>0. Len(Summary) = 4
  BY DEF Summary
<1>1. ASSUME NEW p \in Process, NEW s \in Stream, Write(p, s) PROVE RunInv'
  BY <1>1, BoundsAssumption DEF Write
<1>2. ASSUME NEW s \in Stream, Drain(s) PROVE RunInv'
  BY <1>2 DEF Drain
<1>3. CASE OpenStore \/ StartLoader \/ StartCommand \/ CannotStart
  BY <1>3 DEF OpenStore, StartLoader, StartCommand, CannotStart, Fail
<1>4. CASE Reap
  BY <1>4 DEF Reap, Ended
<1>5. CASE PutRun
  <2>1. captured = written
    <3>1. \A s \in Stream : written[s] = captured[s] \o <<>>
      BY <1>5 DEF PutRun, PipesInv, Empty
    <3>2. \A s \in Stream : captured[s] \o <<>> = captured[s]
      BY DEF PipesInv
    <3> QED BY <3>1, <3>2 DEF PipesInv
  <2> QED BY <1>5, <2>1 DEF PutRun
<1>6. CASE PutRunFails \/ JoinLoader \/ PrintFails \/ LoaderEnds
  <2>1. CASE PutRunFails \/ PrintFails
    BY <2>1 DEF PutRunFails, PrintFails, Fail
  <2>2. CASE JoinLoader
    BY <1>0, <2>2 DEF JoinLoader, Fail
  <2>3. CASE LoaderEnds
    BY <2>3 DEF LoaderEnds
  <2> QED BY <1>6, <2>1, <2>2, <2>3
<1>7. CASE PrintLine
  <2>1. Summary[Len(printed) + 1] \in Line
    <3>1. Len(printed) + 1 \in 1..4
      BY <1>0, <1>7 DEF PrintLine
    <3>2. \A k \in 1..4 : Summary[k] \in Line
      <4>1. /\ Summary[1] \in Line /\ Summary[2] \in Line
            /\ Summary[3] \in Line /\ Summary[4] \in Line
        BY DEF Summary, Line
      <4>2. \A k \in 1..4 : k = 1 \/ k = 2 \/ k = 3 \/ k = 4
        OBVIOUS
      <4> QED BY <4>1, <4>2
    <3> QED BY <3>1, <3>2
  <2> QED BY <1>0, <1>7, <2>1 DEF PrintLine
<1>8. CASE Fork \/ CommandExits \/ CommandKilled \/ HelperEnds
  BY <1>8 DEF Fork, CommandExits, CommandKilled, HelperEnds
<1>9. CASE UNCHANGED vars
  BY <1>9 DEF vars
<1> QED BY <1>1, <1>2, <1>3, <1>4, <1>5, <1>6, <1>7, <1>8, <1>9 DEF Next, Main, Child

-----------------------------------------------------------------------------
(* Handles.                                                                  *)

\* Three words in a row are the separator when each of them is.
LEMMA ThreeWords ==
  ASSUME NEW W, NEW t \in Seq(W), NEW i \in 1..(Len(t) - 2)
  PROVE  SubSeq(t, i, i + 2) = O!Separator <=> t[i] = ":" /\ t[i + 1] = "/" /\ t[i + 2] = "/"
<1> DEFINE u == SubSeq(t, i, i + 2)
<1>1. u \in Seq(W) /\ Len(u) = 3 /\ \A k \in 1..3 : u[k] = t[i + k - 1]
  <2>1. \A k \in i..(i + 2) : t[k] \in W
    OBVIOUS
  <2> QED BY <2>1, SubSeqProperties
<1>2. u[1] = t[i] /\ u[2] = t[i + 1] /\ u[3] = t[i + 2]
  BY <1>1
<1> HIDE DEF u
<1>3. u = O!Separator <=> u[1] = ":" /\ u[2] = "/" /\ u[3] = "/"
  <2>1. DOMAIN u = 1..3
    BY <1>1
  <2>2. u = [k \in 1..3 |-> u[k]]
    BY <1>1
  <2> QED BY <1>1, <2>2 DEF O!Separator
<1> QED BY <1>2, <1>3 DEF u

\* What follows the first n words.
Remains(W, u, p, n) ==
  u \in Seq(W) /\ Len(u) = Len(p) - n /\ \A k \in 1..(Len(p) - n) : u[k] = p[k + n]

\* SubSeq to the end is what remains.
LEMMA RestOf ==
  ASSUME NEW W, NEW p \in Seq(W), NEW n \in 0..Len(p), NEW u, u = SubSeq(p, n + 1, Len(p))
  PROVE  Remains(W, u, p, n)
<1>0. Len(p) \in Nat /\ n \in Nat /\ n <= Len(p)
  OBVIOUS
<1>1. \A k \in (n + 1)..Len(p) : p[k] \in W
  OBVIOUS
<1>2. /\ u \in Seq(W)
      /\ Len(u) = IF n + 1 <= Len(p) THEN Len(p) - (n + 1) + 1 ELSE 0
      /\ \A k \in 1..(Len(p) - (n + 1) + 1) : u[k] = p[(n + 1) + k - 1]
  BY <1>0, <1>1, SubSeqProperties
<1>3. Len(p) - (n + 1) + 1 = Len(p) - n
  BY <1>0
<1>4. \A k \in 1..(Len(p) - n) : (n + 1) + k - 1 = k + n
  BY <1>0
<1>5. Len(u) = Len(p) - n
  <2> DEFINE l == Len(p)
             m == Len(u)
  <2>1. m = IF n + 1 <= l THEN l - (n + 1) + 1 ELSE 0
    BY <1>2
  <2> HIDE DEF l, m
  <2>2. l \in Nat /\ n <= l
    BY <1>0 DEF l
  <2>3. m = l - n
    BY <1>0, <2>1, <2>2
  <2> QED BY <2>3 DEF l, m
<1> QED BY <1>2, <1>3, <1>4, <1>5 DEF Remains

\* Two sequences one after the other.
Joined(W, u, s, t) ==
  /\ u \in Seq(W) /\ Len(u) = Len(s) + Len(t)
  /\ \A k \in 1..Len(s) : u[k] = s[k]
  /\ \A k \in 1..Len(t) : u[k + Len(s)] = t[k]

\* A concatenation is both of its parts, joined.
LEMMA JoinOf ==
  ASSUME NEW W, NEW s \in Seq(W), NEW t \in Seq(W)
  PROVE  Joined(W, s \o t, s, t)
<1>0. Len(s) \in Nat /\ Len(t) \in Nat
  OBVIOUS
<1> DEFINE u == s \o t
<1>1. /\ u \in Seq(W) /\ Len(u) = Len(s) + Len(t)
      /\ \A k \in 1..(Len(s) + Len(t)) : u[k] = IF k <= Len(s) THEN s[k] ELSE t[k - Len(s)]
  BY ConcatProperties
<1>2. \A k \in 1..Len(s) : k \in 1..(Len(s) + Len(t)) /\ k <= Len(s)
  BY <1>0
<1>3. \A k \in 1..Len(t) : /\ k + Len(s) \in 1..(Len(s) + Len(t)) /\ ~(k + Len(s) <= Len(s))
                           /\ (k + Len(s)) - Len(s) = k
  BY <1>0
<1> HIDE DEF u
<1>4. /\ u \in Seq(W) /\ Len(u) = Len(s) + Len(t)
      /\ \A k \in 1..Len(s) : u[k] = s[k]
      /\ \A k \in 1..Len(t) : u[k + Len(s)] = t[k]
  BY <1>1, <1>2, <1>3
<1> QED BY <1>4 DEF u, Joined

\* A path that starts with "run/".
LEMMA RunPath ==
  ASSUME NEW W, NEW p \in Seq(W)
  PROVE  O!IsPrefix(<<"run", "/">>, p) <=> Len(p) >= 2 /\ p[1] = "run" /\ p[2] = "/"
<1>1. ASSUME Len(p) >= 2
      PROVE  SubSeq(p, 1, 2) = <<"run", "/">> <=> p[1] = "run" /\ p[2] = "/"
  <2> DEFINE u == SubSeq(p, 1, 2)
  <2>1. u \in Seq(W) /\ Len(u) = 2 /\ u[1] = p[1] /\ u[2] = p[2]
    <3>1. \A k \in 1..2 : p[k] \in W
      BY <1>1
    <3>2. u \in Seq(W) /\ Len(u) = 2 /\ \A k \in 1..2 : u[k] = p[1 + k - 1]
      BY <3>1, SubSeqProperties
    <3> QED BY <3>2
  <2> HIDE DEF u
  <2>2. u = [k \in 1..2 |-> u[k]]
    BY <2>1
  <2>3. u = <<"run", "/">> <=> p[1] = "run" /\ p[2] = "/"
    BY <2>1, <2>2
  <2> QED BY <2>3 DEF u
<1>2. SubSeq(<<"run", "/">>, 1, 2) = <<"run", "/">> /\ Len(<<"run", "/">>) = 2
  <2>1. <<"run", "/">> \in Seq({"run", "/"}) /\ Len(<<"run", "/">>) = 2
    OBVIOUS
  <2> QED BY <2>1, SubSeqFull
<1> QED BY <1>1, <1>2 DEF O!IsPrefix

\* The handle of a run, word by word.
LEMMA Displayed ==
  ASSUME NEW W, NEW id \in Seq(W), {"output", ":", "/", "run"} \subseteq W,
         NEW t, t = O!Display(O!OutputRun(id))
  PROVE  /\ t \in Seq(W) /\ Len(t) = Len(id) + 6
         /\ t[1] = "output" /\ t[2] = ":" /\ t[3] = "/" /\ t[4] = "/" /\ t[5] = "run" /\ t[6] = "/"
         /\ \A k \in 1..Len(id) : t[k + 6] = id[k]
<1> DEFINE a == <<"output">>
           s == <<":", "/", "/">>
           r == <<"run", "/">>
           as == a \o s
           ri == r \o id
<1>0. Len(id) \in Nat
  OBVIOUS
<1>1. a \in Seq(W) /\ s \in Seq(W) /\ r \in Seq(W) /\ Len(a) = 1 /\ Len(s) = 3 /\ Len(r) = 2
  OBVIOUS
<1>2. a[1] = "output" /\ s[1] = ":" /\ s[2] = "/" /\ s[3] = "/" /\ r[1] = "run" /\ r[2] = "/"
  OBVIOUS
<1>3. t = as \o ri
  BY DEF O!Display, O!OutputRun, O!Separator
<1> HIDE DEF a, s, r
<1>4. as \in Seq(W) /\ Len(as) = 4 /\ as[1] = a[1] /\ \A k \in 1..3 : as[k + 1] = s[k]
  <2>0. Joined(W, as, a, s)
    BY <1>1, JoinOf
  <2>1. /\ as \in Seq(W) /\ Len(as) = Len(a) + Len(s)
        /\ \A k \in 1..Len(a) : as[k] = a[k]
        /\ \A k \in 1..Len(s) : as[k + Len(a)] = s[k]
    BY <2>0 DEF Joined
  <2> HIDE DEF as
  <2>2. Len(as) = 4 /\ 1 \in 1..Len(a)
    BY <1>1, <2>1
  <2>3. \A k \in 1..3 : as[k + 1] = s[k]
    BY <1>1, <2>1
  <2> QED BY <2>1, <2>2, <2>3
<1>5. /\ ri \in Seq(W) /\ Len(ri) = Len(id) + 2 /\ \A k \in 1..2 : ri[k] = r[k]
      /\ \A k \in 1..Len(id) : ri[k + 2] = id[k]
  <2>0. Joined(W, ri, r, id)
    BY <1>1, JoinOf
  <2>1. /\ ri \in Seq(W) /\ Len(ri) = Len(r) + Len(id)
        /\ \A k \in 1..Len(r) : ri[k] = r[k]
        /\ \A k \in 1..Len(id) : ri[k + Len(r)] = id[k]
    BY <2>0 DEF Joined
  <2> HIDE DEF ri
  <2> QED BY <1>0, <1>1, <2>1
<1> HIDE DEF as, ri
<1>6. /\ t \in Seq(W) /\ Len(t) = 4 + Len(ri)
      /\ \A k \in 1..4 : t[k] = as[k]
      /\ \A k \in 1..Len(ri) : t[k + 4] = ri[k]
  <2>0. Joined(W, t, as, ri)
    BY <1>3, <1>4, <1>5, JoinOf
  <2>1. /\ t \in Seq(W) /\ Len(t) = Len(as) + Len(ri)
        /\ \A k \in 1..Len(as) : t[k] = as[k]
        /\ \A k \in 1..Len(ri) : t[k + Len(as)] = ri[k]
    BY <2>0 DEF Joined
  <2> QED BY <1>4, <2>1
<1>7. Len(t) = Len(id) + 6
  BY <1>0, <1>5, <1>6
<1>8. t[1] = as[1] /\ t[2] = as[1 + 1] /\ t[3] = as[2 + 1] /\ t[4] = as[3 + 1]
  <2>1. 1 \in 1..4 /\ 2 \in 1..4 /\ 3 \in 1..4 /\ 4 \in 1..4 /\ 1 + 1 = 2 /\ 2 + 1 = 3 /\ 3 + 1 = 4
    OBVIOUS
  <2> QED BY <1>6, <2>1
<1>9. t[1] = "output" /\ t[2] = ":" /\ t[3] = "/" /\ t[4] = "/"
  <2>1. 1 \in 1..3 /\ 2 \in 1..3 /\ 3 \in 1..3
    OBVIOUS
  <2> QED BY <1>2, <1>4, <1>8, <2>1
<1>10. ASSUME NEW k \in 1..Len(ri), NEW j, j = k + 4 PROVE t[j] = ri[k]
  BY <1>6, <1>10
<1>11. t[5] = "run" /\ t[6] = "/"
  <2>1. 1 \in 1..Len(ri) /\ 2 \in 1..Len(ri) /\ 5 = 1 + 4 /\ 6 = 2 + 4
    BY <1>0, <1>5
  <2>2. t[5] = ri[1] /\ t[6] = ri[2]
    BY <1>10, <2>1
  <2> QED BY <1>2, <1>5, <2>2
<1>12. ASSUME NEW k \in 1..Len(id) PROVE t[k + 6] = id[k]
  <2>1. k + 2 \in 1..Len(ri) /\ k + 6 = (k + 2) + 4
    BY <1>0, <1>5
  <2>2. t[k + 6] = ri[k + 2]
    BY <1>10, <2>1
  <2> QED BY <1>5, <2>2
<1> QED BY <1>6, <1>7, <1>9, <1>11, <1>12

\* What makes words the handle of a run, and the id that follows.
NamesARun(t) ==
  /\ Len(t) >= 6 /\ t[1] = "output" /\ t[2] = ":" /\ t[3] = "/" /\ t[4] = "/"
  /\ t[5] = "run" /\ t[6] = "/"

Follows(W, t, id) ==
  id \in Seq(W) /\ Len(t) = Len(id) + 6 /\ \A k \in 1..Len(id) : t[k + 6] = id[k]

\* The parser and run_id accept a handle of a run and nothing else.
LEMMA RunIdOfParse ==
  ASSUME NEW W, NEW t \in Seq(W)
  PROVE  /\ ~NamesARun(t) => O!RunIdOf(O!Parse(t)) = {}
         /\ NamesARun(t) => \E id : Follows(W, t, id) /\ O!RunIdOf(O!Parse(t)) = {id}
<1> DEFINE n == Len(t)
           p == SubSeq(t, 5, n)
           Splits == O!SplitsAt(t, 2)
<1>0. n \in Nat
  OBVIOUS
<1>1. ASSUME n > 4 PROVE Splits /\ t[1] \in O!Schemes <=>
                           t[1] \in O!Schemes /\ t[2] = ":" /\ t[3] = "/" /\ t[4] = "/"
  <2>1. 1 \in 1..(n - 2) /\ 2 \in 1..(n - 2)
    BY <1>0, <1>1
  <2>2. SubSeq(t, 2, 2 + 2) = O!Separator <=> t[2] = ":" /\ t[2 + 1] = "/" /\ t[2 + 2] = "/"
    BY <2>1, ThreeWords
  <2>3. SubSeq(t, 1, 1 + 2) = O!Separator <=> t[1] = ":" /\ t[1 + 1] = "/" /\ t[1 + 2] = "/"
    BY <2>1, ThreeWords
  <2>4. t[1] \in O!Schemes => t[1] # ":"
    BY DEF O!Schemes
  <2>5. 1..(2 - 1) = {1}
    OBVIOUS
  <2>6. t[2 + 1] = t[3] /\ t[2 + 2] = t[4]
    OBVIOUS
  <2>7. Splits <=> /\ SubSeq(t, 2, 2 + 2) = O!Separator
                   /\ \A j \in {1} : SubSeq(t, j, j + 2) # O!Separator
    BY <2>5, Zenon DEF O!SplitsAt
  <2> HIDE DEF Splits
  <2> QED BY <2>2, <2>3, <2>4, <2>6, <2>7
<1>2. ASSUME n > 4
      PROVE  p \in Seq(W) /\ Len(p) = n - 4 /\ \A k \in 1..(n - 4) : p[k] = t[k + 4]
  <2>1. 4 \in 0..Len(t) /\ p = SubSeq(t, 4 + 1, Len(t))
    BY <1>0, <1>2
  <2>2. Remains(W, p, t, 4)
    <3> HIDE DEF p
    <3> QED BY <2>1, RestOf
  <2> QED BY <2>2 DEF Remains
<1> HIDE DEF p, n, Splits
<1>3. O!Parse(t) = IF n > 4 /\ t[1] \in O!Schemes /\ Splits
                   THEN [kind |-> t[1], path |-> p] ELSE O!NotAHandle
  BY DEF O!Parse, n, p, Splits
<1>4. O!RunIdOf(O!NotAHandle) = {}
  BY DEF O!RunIdOf, O!NotAHandle
<1>5. ASSUME n > 4, NEW k, O!Parse(t) = [kind |-> k, path |-> p]
      PROVE  /\ k = "output" /\ n >= 6 /\ t[5] = "run" /\ t[6] = "/"
                  => O!RunIdOf(O!Parse(t)) = {SubSeq(p, 3, Len(p))}
             /\ ~(k = "output" /\ n >= 6 /\ t[5] = "run" /\ t[6] = "/")
                  => O!RunIdOf(O!Parse(t)) = {}
  <2>1. n >= 6 => p[1] = t[5] /\ p[2] = t[6]
    <3>1. n >= 6 => 1 \in 1..(n - 4) /\ 2 \in 1..(n - 4) /\ 1 + 4 = 5 /\ 2 + 4 = 6
      BY <1>0
    <3>2. ASSUME NEW i \in 1..(n - 4), NEW j, j = i + 4 PROVE p[i] = t[j]
      BY <1>2, <1>5, <3>2
    <3> QED BY <3>1, <3>2
  <2>2. n >= 6 <=> Len(p) >= 2
    BY <1>0, <1>2, <1>5
  <2>3. O!IsPrefix(<<"run", "/">>, p) <=> Len(p) >= 2 /\ p[1] = "run" /\ p[2] = "/"
    BY <1>2, <1>5, RunPath
  <2>4. /\ O!Parse(t).kind = k /\ O!Parse(t).path = p
    BY <1>5
  <2>5. O!RunIdOf(O!Parse(t)) =
          IF k = "output" /\ O!IsPrefix(<<"run", "/">>, p) THEN {SubSeq(p, 3, Len(p))} ELSE {}
    <3>1. PICK h : h = O!Parse(t)
      OBVIOUS
    <3>2. O!RunIdOf(h) = IF h.kind = "output" /\ O!IsPrefix(<<"run", "/">>, h.path)
                         THEN {SubSeq(h.path, 3, Len(h.path))} ELSE {}
      BY DEF O!RunIdOf
    <3>3. h.kind = k /\ h.path = p
      BY <2>4, <3>1
    <3> QED BY <3>1, <3>2, <3>3
  <2>6. O!IsPrefix(<<"run", "/">>, p) <=> n >= 6 /\ t[5] = "run" /\ t[6] = "/"
    BY <2>1, <2>2, <2>3
  <2> QED BY <2>5, <2>6, Zenon
<1>6. NamesARun(t) <=> /\ n >= 6 /\ t[1] = "output" /\ t[2] = ":" /\ t[3] = "/" /\ t[4] = "/"
                       /\ t[5] = "run" /\ t[6] = "/"
  BY DEF NamesARun, n
<1>7. CASE NamesARun(t)
  <2>1. n > 4 /\ t[1] \in O!Schemes /\ Splits
    BY <1>0, <1>1, <1>6, <1>7 DEF O!Schemes
  <2>2. O!Parse(t) = [kind |-> "output", path |-> p]
    BY <1>3, <1>6, <1>7, <2>1
  <2> DEFINE id == SubSeq(p, 3, Len(p))
  <2>3. O!RunIdOf(O!Parse(t)) = {id}
    BY <1>5, <1>6, <1>7, <2>1, <2>2
  <2>4. 2 \in 0..Len(p) /\ id = SubSeq(p, 2 + 1, Len(p))
    BY <1>0, <1>2, <1>6, <1>7, <2>1
  <2>5. id \in Seq(W) /\ Len(id) = Len(p) - 2 /\ \A k \in 1..(Len(p) - 2) : id[k] = p[k + 2]
    <3> HIDE DEF id
    <3>1. Remains(W, id, p, 2)
      BY <1>2, <2>1, <2>4, RestOf
    <3> QED BY <3>1 DEF Remains
  <2> HIDE DEF id
  <2>6. n = Len(id) + 6
    BY <1>0, <1>2, <2>1, <2>5
  <2>7. ASSUME NEW k \in 1..Len(id) PROVE t[k + 6] = id[k]
    <3>1. k \in 1..(Len(p) - 2) /\ k + 2 \in 1..(n - 4) /\ (k + 2) + 4 = k + 6
      BY <1>0, <1>2, <2>1, <2>5, <2>6
    <3>2. p[k + 2] = t[(k + 2) + 4]
      BY <1>2, <2>1, <3>1
    <3> QED BY <2>5, <3>1, <3>2
  <2>8. Follows(W, t, id)
    BY <2>5, <2>6, <2>7 DEF Follows, n
  <2> QED BY <1>7, <2>3, <2>8
<1>8. CASE ~NamesARun(t)
  <2>1. CASE n > 4 /\ t[1] \in O!Schemes /\ Splits
    <3>1. O!Parse(t) = [kind |-> t[1], path |-> p]
      BY <1>3, <2>1
    <3>2. t[2] = ":" /\ t[3] = "/" /\ t[4] = "/"
      BY <1>1, <2>1
    <3> QED BY <1>5, <1>6, <1>8, <2>1, <3>1, <3>2
  <2>2. CASE ~(n > 4 /\ t[1] \in O!Schemes /\ Splits)
    BY <1>3, <1>4, <1>8, <2>2
  <2> QED BY <2>1, <2>2
<1> QED BY <1>7, <1>8

\* Words that have what follows their first six in common are the same handle.
LEMMA SameHandle ==
  ASSUME NEW W, NEW t \in Seq(W), NEW u \in Seq(W), NEW id, NEW jd,
         NamesARun(t), NamesARun(u), Follows(W, t, id), Follows(W, u, jd)
  PROVE  t = u <=> id = jd
<1>1. /\ Len(id) \in Nat /\ Len(jd) \in Nat /\ Len(t) = Len(id) + 6 /\ Len(u) = Len(jd) + 6
      /\ id \in Seq(W) /\ jd \in Seq(W)
  BY DEF Follows
<1>2. ASSUME id = jd PROVE t = u
  <2>1. Len(t) = Len(u)
    BY <1>1, <1>2
  <2>2. ASSUME NEW i \in 1..Len(t) PROVE t[i] = u[i]
    <3>1. CASE i <= 6
      <4>1. i = 1 \/ i = 2 \/ i = 3 \/ i = 4 \/ i = 5 \/ i = 6
        BY <3>1
      <4> QED BY <4>1 DEF NamesARun
    <3>2. CASE i > 6
      <4>1. PICK k \in 1..Len(id) : i = k + 6
        <5>1. i - 6 \in 1..Len(id) /\ i = (i - 6) + 6
          BY <1>1, <3>2
        <5> QED BY <5>1
      <4> QED BY <1>2, <4>1 DEF Follows
    <3> QED BY <3>1, <3>2
  <2> QED BY <2>1, <2>2
<1>3. ASSUME t = u PROVE id = jd
  <2>1. Len(id) = Len(jd)
    BY <1>1, <1>3
  <2>2. \A k \in 1..Len(id) : id[k] = jd[k]
    BY <1>3, <2>1 DEF Follows
  <2> QED BY <1>1, <2>1, <2>2
<1> QED BY <1>2, <1>3

-----------------------------------------------------------------------------
(* What of a sequence is at some positions.                                  *)

Rank(I, n)  == Cardinality({j \in I : j <= n})
Kept(s, I)  == [k \in 1..Cardinality(I) |-> s[CHOOSE i \in I : Cardinality({j \in I : j <= i}) = k]]

\* Kept of the instance O is the one defined here.
LEMMA SameKept == \A s, I : O!Kept(s, I) = Kept(s, I)
BY DEF O!Kept, Kept, O!Cardinality, Cardinality

\* A set of positions.
Positions(I, m) == IsFiniteSet(I) /\ \A j \in I : j \in Nat /\ 1 <= j /\ j <= m

\* A set of positions below m is one of naturals, and finite.
LEMMA ArePositions == ASSUME NEW m \in Nat, NEW I, I \subseteq 1..m PROVE Positions(I, m)
<1>1. IsFiniteSet(1..m)
  BY FS_Interval
<1>2. IsFiniteSet(I)
  BY <1>1, FS_Subset
<1> QED BY <1>2 DEF Positions

\* How many of a finite set are up to n is a number, at most all.
LEMMA UpToFinite ==
  ASSUME NEW I, IsFiniteSet(I), NEW n
  PROVE  IsFiniteSet({j \in I : j <= n}) /\ Rank(I, n) \in Nat
         /\ Cardinality(I) \in Nat /\ Rank(I, n) <= Cardinality(I)
<1> DEFINE A == {j \in I : j <= n}
<1>1. A \subseteq I
  OBVIOUS
<1>2. Rank(I, n) = Cardinality(A)
  BY DEF Rank
<1> HIDE DEF A
<1>3. IsFiniteSet(A) /\ Cardinality(A) <= Cardinality(I)
  BY <1>1, FS_Subset
<1>4. Cardinality(A) \in Nat /\ Cardinality(I) \in Nat
  BY <1>3, FS_CardinalityType
<1> QED BY <1>2, <1>3, <1>4 DEF A

\* A position is counted when it is passed.
LEMMA RankStep ==
  ASSUME NEW m \in Nat, NEW I, Positions(I, m), NEW n \in Nat
  PROVE  Rank(I, n + 1) = IF n + 1 \in I THEN Rank(I, n) + 1 ELSE Rank(I, n)
<1> DEFINE A == {j \in I : j <= n}
           B == {j \in I : j <= n + 1}
<1>1. \A j \in I : j \in Nat
  BY DEF Positions
<1>2. IsFiniteSet(A)
  BY UpToFinite DEF Positions
<1>3. \A j \in I : j <= n + 1 <=> j <= n \/ j = n + 1
  BY <1>1
<1>4. ~(n + 1 <= n) 
  OBVIOUS
<1>5. Rank(I, n) = Cardinality(A) /\ Rank(I, n + 1) = Cardinality(B)
  BY DEF Rank
<1>6. n + 1 \notin A
  BY <1>4
<1>7. \A j : j \in A <=> j \in I /\ j <= n
  OBVIOUS
<1>8. \A j : j \in B <=> j \in I /\ (j <= n \/ j = n + 1)
  BY <1>3
<1> HIDE DEF A, B
<1>9. CASE n + 1 \in I
  <2>1. B = A \cup {n + 1}
    BY <1>7, <1>8, <1>9, Zenon
  <2>2. Cardinality(B) = Cardinality(A) + 1
    BY <1>2, <1>6, <2>1, FS_AddElement
  <2> QED BY <1>5, <1>9, <2>2
<1>10. CASE n + 1 \notin I
  <2>1. B = A
    BY <1>7, <1>8, <1>10, Zenon
  <2> QED BY <1>5, <1>10, <2>1
<1> QED BY <1>9, <1>10

\* Further on no fewer have been passed.
LEMMA RankGrows ==
  ASSUME NEW m \in Nat, NEW I, Positions(I, m), NEW n \in Nat, NEW k \in Nat, n <= k
  PROVE  Rank(I, n) <= Rank(I, k)
<1> DEFINE A == {j \in I : j <= n}
           B == {j \in I : j <= k}
<1>1. \A j \in I : j <= n => j <= k
  BY DEF Positions
<1>2. A \subseteq B
  BY <1>1
<1>3. IsFiniteSet(B)
  BY UpToFinite DEF Positions
<1>4. Rank(I, n) = Cardinality(A) /\ Rank(I, k) = Cardinality(B)
  BY DEF Rank
<1> HIDE DEF A, B
<1> QED BY <1>2, <1>3, <1>4, FS_Subset

\* Nothing else has the rank of a position.
LEMMA RankIsOwn ==
  ASSUME NEW m \in Nat, NEW I, Positions(I, m), NEW i \in I, NEW j \in I, Rank(I, i) = Rank(I, j)
  PROVE  i = j
<1>1. ASSUME NEW x \in I, NEW y \in I, x < y PROVE Rank(I, x) # Rank(I, y)
  <2>1. x \in Nat /\ y - 1 \in Nat /\ x <= y - 1 /\ (y - 1) + 1 = y
    BY <1>1 DEF Positions
  <2>2. Rank(I, y) = Rank(I, y - 1) + 1
    <3>1. Rank(I, (y - 1) + 1) = IF (y - 1) + 1 \in I THEN Rank(I, y - 1) + 1 ELSE Rank(I, y - 1)
      BY <2>1, RankStep
    <3> QED BY <2>1, <3>1
  <2>3. Rank(I, x) <= Rank(I, y - 1)
    BY <2>1, RankGrows
  <2>4. Rank(I, x) \in Nat /\ Rank(I, y - 1) \in Nat
    BY UpToFinite DEF Positions
  <2> QED BY <2>2, <2>3, <2>4
<1>2. i \in Nat /\ j \in Nat
  BY DEF Positions
<1> QED BY <1>1, <1>2

\* When a position is passed, what is kept goes on with what is there.
LEMMA KeptAt ==
  ASSUME NEW m \in Nat, NEW I, Positions(I, m), NEW n \in Nat, n + 1 \in I, NEW s
  PROVE  /\ Rank(I, n) + 1 \in 1..Cardinality(I)
         /\ Kept(s, I)[Rank(I, n) + 1] = s[n + 1]
<1> DEFINE k == Rank(I, n) + 1
<1>0. Rank(I, n) \in Nat /\ Rank(I, n + 1) <= Cardinality(I) /\ Cardinality(I) \in Nat
  BY UpToFinite DEF Positions
<1>1. Rank(I, n + 1) = k /\ k \in Nat
  BY <1>0, RankStep
<1>2. k \in 1..Cardinality(I)
  BY <1>0, <1>1
<1> HIDE DEF k
<1>3. (CHOOSE i \in I : Rank(I, i) = k) = n + 1
  <2>1. \E i \in I : Rank(I, i) = k
    BY <1>1
  <2>2. \A i \in I : Rank(I, i) = k => i = n + 1
    BY <1>1, RankIsOwn
  <2> QED BY <2>1, <2>2
<1>4. Kept(s, I) = [j \in 1..Cardinality(I) |-> s[CHOOSE i \in I : Rank(I, i) = j]]
  BY DEF Kept, Rank
<1>5. Kept(s, I)[k] = s[CHOOSE i \in I : Rank(I, i) = k]
  BY <1>2, <1>4
<1>6. Kept(s, I)[k] = s[n + 1]
  BY <1>3, <1>5
<1> QED BY <1>2, <1>6 DEF k

\* In the end all are kept.
LEMMA RankOfAll ==
  ASSUME NEW m \in Nat, NEW I, Positions(I, m)
  PROVE  Rank(I, m) = Cardinality(I) /\ Rank(I, 0) = 0
<1> DEFINE A == {j \in I : j <= m}
           B == {j \in I : j <= 0}
<1>1. \A j \in I : j <= m /\ ~(j <= 0)
  BY DEF Positions
<1>2. A = I /\ B = {}
  <2>1. \A j : j \in A <=> j \in I
    BY <1>1
  <2>2. \A j : j \notin B
    BY <1>1
  <2> HIDE DEF A, B
  <2> QED BY <2>1, <2>2, Zenon
<1>3. Rank(I, m) = Cardinality(A) /\ Rank(I, 0) = Cardinality(B)
  BY DEF Rank
<1> QED BY <1>2, <1>3, FS_EmptySet

-----------------------------------------------------------------------------
(* The runs in the store, and the handles of them.                           *)

\* The old run is always there, the new one once it is stored.
LEMMA StoredRuns ==
  /\ DOMAIN Stored = {OldId} \cup IF row.stored THEN {NewId} ELSE {}
  /\ Stored[OldId] = OldText
  /\ row.stored => Stored[NewId] = <<row.output["stdout"], row.output["stderr"]>>
<1>1. CASE row.stored
  BY <1>1, IdAssumption DEF Stored
<1>2. CASE ~row.stored
  BY <1>2, IdAssumption DEF Stored
<1> QED BY <1>1, <1>2

\* The handle of a run finds that run and no other.
LEMMA HandleFinds ==
  ASSUME NEW W, NEW t \in Seq(W), NEW id \in Seq(W), {"output", ":", "/", "run"} \subseteq W
  PROVE  /\ id \in O!RunIdOf(O!Parse(t)) <=> t = O!Display(O!OutputRun(id))
         /\ id \in O!RunIdOf(O!Parse(t)) => O!RunIdOf(O!Parse(t)) = {id}
<1>1. PICK u : u = O!Display(O!OutputRun(id))
  OBVIOUS
<1>2. u \in Seq(W) /\ NamesARun(u) /\ Follows(W, u, id)
  <2>1. /\ u \in Seq(W) /\ Len(u) = Len(id) + 6
        /\ u[1] = "output" /\ u[2] = ":" /\ u[3] = "/" /\ u[4] = "/" /\ u[5] = "run" /\ u[6] = "/"
        /\ \A k \in 1..Len(id) : u[k + 6] = id[k]
    BY <1>1, Displayed
  <2>2. Len(u) >= 6
    BY <2>1
  <2> QED BY <2>1, <2>2 DEF NamesARun, Follows
<1>3. CASE NamesARun(t)
  <2>1. PICK jd : Follows(W, t, jd) /\ O!RunIdOf(O!Parse(t)) = {jd}
    BY <1>3, RunIdOfParse
  <2>2. t = u <=> jd = id
    BY <1>2, <1>3, <2>1, SameHandle
  <2> QED BY <1>1, <2>1, <2>2
<1>4. CASE ~NamesARun(t)
  <2>1. O!RunIdOf(O!Parse(t)) = {}
    BY <1>4, RunIdOfParse
  <2>2. t # u
    BY <1>2, <1>4
  <2> QED BY <1>1, <2>1, <2>2
<1> QED BY <1>3, <1>4

\* Every sequence of words is one of words enough.
LEMMA MoreWords ==
  ASSUME NEW V, NEW W, V \subseteq W, NEW s \in Seq(V)
  PROVE  s \in Seq(W)
OBVIOUS

\* An id in the store is a sequence of words.
LEMMA StoredIds == \A id \in DOMAIN Stored : \E W : id \in Seq(W)
<1>1. \A id \in DOMAIN Stored : id = OldId \/ id = NewId
  BY StoredRuns
<1> QED BY <1>1, IdsAreWords

\* The lookup of words finds a stored run when they are its handle, and no other.
LEMMA FoundIs ==
  ASSUME NEW t, \E W : t \in Seq(W), NEW id \in DOMAIN Stored
  PROVE  /\ id \in O!Found(t) <=> t = O!Display(O!OutputRun(id))
         /\ id \in O!Found(t) => O!Found(t) = {id}
<1>1. PICK V : t \in Seq(V)
  OBVIOUS
<1>2. PICK U : id \in Seq(U)
  BY StoredIds
<1> DEFINE W == V \cup U \cup {"output", ":", "/", "run"}
<1>3. t \in Seq(W)
  <2>1. V \subseteq W
    OBVIOUS
  <2> HIDE DEF W
  <2> QED BY <1>1, <2>1, MoreWords
<1>4. id \in Seq(W)
  <2>1. U \subseteq W
    OBVIOUS
  <2> HIDE DEF W
  <2> QED BY <1>2, <2>1, MoreWords
<1>5. {"output", ":", "/", "run"} \subseteq W
  OBVIOUS
<1> HIDE DEF W
<1>6. /\ id \in O!RunIdOf(O!Parse(t)) <=> t = O!Display(O!OutputRun(id))
      /\ id \in O!RunIdOf(O!Parse(t)) => O!RunIdOf(O!Parse(t)) = {id}
  BY <1>3, <1>4, <1>5, HandleFinds
<1>7. O!Found(t) = O!RunIdOf(O!Parse(t)) \cap DOMAIN Stored
  BY DEF O!Found
<1> QED BY <1>6, <1>7

\* The handle of a stored run finds it and no other.
LEMMA HandleOfRun ==
  ASSUME NEW id \in DOMAIN Stored
  PROVE  O!Found(O!Display(O!OutputRun(id))) = {id}
<1>1. PICK U : id \in Seq(U)
  BY StoredIds
<1> DEFINE W == U \cup {"output", ":", "/", "run"}
<1>2. id \in Seq(W)
  <2>1. U \subseteq W
    OBVIOUS
  <2> HIDE DEF W
  <2> QED BY <1>1, <2>1, MoreWords
<1>3. {"output", ":", "/", "run"} \subseteq W
  OBVIOUS
<1> HIDE DEF W
<1>4. PICK t : t = O!Display(O!OutputRun(id))
  OBVIOUS
<1>5. t \in Seq(W)
  BY <1>2, <1>3, <1>4, Displayed
<1> QED BY <1>4, <1>5, FoundIs

-----------------------------------------------------------------------------
(* The session: the handle.                                                  *)

\* Where ctx output is; the run it shows is the one whose handle was typed.
HandleInv ==
  /\ opc \in {"none", "parse", "lines", "done", "failed"}
  /\ opc = "none" => typed = <<>>
  /\ opc # "none" => Over /\ typed \in Typed
  /\ opc \in {"lines", "done"} =>
       \E id \in DOMAIN Stored : typed = O!Display(O!OutputRun(id)) /\ body = O!Text(Stored[id])

\* Nothing is typed yet.
LEMMA InitHandle == SessionInit => HandleInv
BY DEF SessionInit, O!Init, HandleInv

\* What ctx run does once its process has ended leaves the store alone.
LEMMA OverStays ==
  ASSUME RunInv, Next, Over
  PROVE  Over' /\ row' = row
<1> USE DEF Over, RunInv, child
<1>1. CASE Main
  <2>1. CASE OpenStore \/ StartLoader \/ StartCommand \/ CannotStart \/ Reap \/ PutRun \/ PutRunFails
    BY <2>1 DEF OpenStore, StartLoader, StartCommand, CannotStart, Reap, PutRun, PutRunFails
  <2>2. CASE JoinLoader \/ PrintLine \/ PrintFails \/ \E s \in Stream : Drain(s)
    BY <2>2 DEF JoinLoader, PrintLine, PrintFails, Drain
  <2> QED BY <1>1, <2>1, <2>2 DEF Main
<1>2. CASE LoaderEnds
  BY <1>2 DEF LoaderEnds
<1>3. CASE Child
  BY <1>3 DEF Child, Write, Fork, CommandExits, CommandKilled, HelperEnds
<1> QED BY <1>1, <1>2, <1>3 DEF Next

\* The runs in the store depend on the row only.
LEMMA StoredStays == row' = row => Stored' = Stored
BY DEF Stored

\* What is typed is a sequence of words.
LEMMA TypedWords == \A t \in Typed \cup {<<>>} : \E W : t \in Seq(W)
<1>1. <<>> \in Seq({})
  OBVIOUS
<1> QED BY <1>1, TypedAssumption

\* The run that is found is the one whose handle was typed.
LEMMA NextHandle == RunInv /\ HandleInv /\ [SessionNext]_sessionVars => HandleInv'
<1> SUFFICES ASSUME RunInv, HandleInv, [SessionNext]_sessionVars PROVE HandleInv'
  OBVIOUS
<1> USE DEF HandleInv
<1>1. CASE Next /\ UNCHANGED outputVars
  <2>0. opc' = opc /\ typed' = typed /\ body' = body
    BY <1>1 DEF outputVars
  <2>1. CASE opc = "none"
    BY <2>0, <2>1
  <2>2. CASE opc # "none"
    <3>1. Over' /\ Stored' = Stored
      BY <1>1, <2>2, OverStays, StoredStays
    <3> QED BY <2>0, <2>2, <3>1
  <2> QED BY <2>1, <2>2
<1>2. CASE Over /\ UNCHANGED vars /\ O!Next
  <2>0. Over' /\ Stored' = Stored
    <3>1. pc' = pc /\ holders' = holders /\ row' = row
      BY <1>2 DEF vars, child
    <3> QED BY <1>2, <3>1, StoredStays DEF Over
  <2>1. CASE O!Ask
    BY <2>0, <2>1 DEF O!Ask
  <2>2. CASE O!FindRun
    <3>1. PICK id \in O!Found(typed) : body' = O!Text(Stored[id])
      BY <2>2 DEF O!FindRun
    <3>2. opc = "parse" /\ opc' = "lines" /\ typed' = typed
      BY <2>2 DEF O!FindRun, O!args
    <3>3. id \in DOMAIN Stored
      BY <3>1 DEF O!Found
    <3>4. typed = O!Display(O!OutputRun(id))
      BY <3>1, <3>2, <3>3, TypedWords, FoundIs
    <3> QED BY <2>0, <3>1, <3>2, <3>3, <3>4
  <2>3. CASE O!NoSuchRun \/ O!BlobIsGone \/ O!PrintFails
    BY <2>0, <2>3 DEF O!NoSuchRun, O!BlobIsGone, O!PrintFails, O!args
  <2>4. CASE O!PassOver \/ O!PrintHit \/ O!CountHit \/ O!NextStream \/ O!Finish
    <3>1. /\ opc = "lines" /\ opc' \in {"lines", "done"}
          /\ typed' = typed /\ body' = body
      BY <2>4 DEF O!PassOver, O!PrintHit, O!CountHit, O!NextStream, O!Finish, O!AtLine, O!args
    <3> QED BY <2>0, <3>1
  <2> QED BY <1>2, <2>1, <2>2, <2>3, <2>4 DEF O!Next
<1>3. CASE UNCHANGED sessionVars
  <2>1. opc' = opc /\ typed' = typed /\ body' = body /\ Over' = Over /\ Stored' = Stored
    BY <1>3, StoredStays DEF sessionVars, vars, outputVars, child, Over
  <2> QED BY <2>1
<1> QED BY <1>1, <1>2, <1>3 DEF SessionNext

\* What the invariant says is what the property says.
LEMMA HandleNames == HandleInv => TheRunNamedAnswers
BY FoundIs, HandleOfRun DEF HandleInv, TheRunNamedAnswers, O!TheRunNamedAnswers

-----------------------------------------------------------------------------
(* The session: the lines.                                                   *)

AnyMark == Marks \cup Range(OldText[1]) \cup Range(OldText[2])
AnyLine == {O!Shown(m) : m \in AnyMark}
All     == O!BothStreams(body)
Hits    == {i \in DOMAIN All : grep => All[i][3] \in Query}

\* How many lines the loop has passed.
Passed == IF at[1] = 1 THEN at[2] - 1 ELSE Len(body[1]) + at[2] - 1

\* Both streams, one after the other.
Streams(b, all) ==
  /\ \E W : all \in Seq(W)
  /\ DOMAIN all = 1..Len(all) /\ Len(all) = Len(b[1]) + Len(b[2])
  /\ \A k \in 1..Len(b[1]) : all[k] = <<1, k, b[1][k]>>
  /\ \A k \in 1..Len(b[2]) : all[k + Len(b[1])] = <<2, k, b[2][k]>>

\* The lines of one stream, numbered.
LEMMA NumberedIs ==
  ASSUME NEW L, NEW b \in Seq(L), NEW s
  PROVE  /\ O!Numbered(s, b) \in Seq({O!Numbered(s, b)[k] : k \in 1..Len(b)})
         /\ Len(O!Numbered(s, b)) = Len(b)
         /\ \A k \in 1..Len(b) : O!Numbered(s, b)[k] = <<s, k, b[k]>>
<1>1. Len(b) \in Nat /\ DOMAIN b = 1..Len(b)
  OBVIOUS
<1>2. PICK u : u = O!Numbered(s, b)
  OBVIOUS
<1>3. u = [k \in 1..Len(b) |-> <<s, k, b[k]>>]
  BY <1>1, <1>2 DEF O!Numbered
<1>4. \A k \in 1..Len(b) : u[k] = <<s, k, b[k]>>
  BY <1>3
<1>5. u \in [1..Len(b) -> {u[k] : k \in 1..Len(b)}]
  BY <1>3
<1>6. u \in Seq({u[k] : k \in 1..Len(b)})
  BY <1>1, <1>5
<1>7. Len(u) = Len(b)
  BY <1>1, <1>3
<1> QED BY <1>2, <1>4, <1>6, <1>7

\* BothStreams is both streams, one after the other.
LEMMA StreamsOf ==
  ASSUME NEW L, NEW b, b[1] \in Seq(L), b[2] \in Seq(L)
  PROVE  Streams(b, O!BothStreams(b))
<1>1. PICK u : u = O!Numbered(1, b[1])
  OBVIOUS
<1>2. PICK v : v = O!Numbered(2, b[2])
  OBVIOUS
<1>3. Len(u) = Len(b[1]) /\ \A k \in 1..Len(b[1]) : u[k] = <<1, k, b[1][k]>>
  BY <1>1, NumberedIs
<1>4. Len(v) = Len(b[2]) /\ \A k \in 1..Len(b[2]) : v[k] = <<2, k, b[2][k]>>
  BY <1>2, NumberedIs
<1> DEFINE W == {u[k] : k \in 1..Len(b[1])} \cup {v[k] : k \in 1..Len(b[2])}
<1>5. u \in Seq(W)
  <2>1. u \in Seq({u[k] : k \in 1..Len(b[1])})
    BY <1>1, NumberedIs
  <2> QED BY <2>1, MoreWords
<1>6. v \in Seq(W)
  <2>1. v \in Seq({v[k] : k \in 1..Len(b[2])})
    BY <1>2, NumberedIs
  <2> QED BY <2>1, MoreWords
<1> HIDE DEF W
<1>7. PICK all : all = u \o v
  OBVIOUS
<1>8. Joined(W, all, u, v)
  BY <1>5, <1>6, <1>7, JoinOf
<1>9. all \in Seq(W) /\ DOMAIN all = 1..Len(all) /\ Len(all) = Len(b[1]) + Len(b[2])
  BY <1>3, <1>4, <1>8 DEF Joined
<1>10. \A k \in 1..Len(b[1]) : all[k] = <<1, k, b[1][k]>>
  BY <1>3, <1>8 DEF Joined
<1>11. \A k \in 1..Len(b[2]) : all[k + Len(b[1])] = <<2, k, b[2][k]>>
  BY <1>3, <1>4, <1>8 DEF Joined
<1>12. O!BothStreams(b) = all
  BY <1>1, <1>2, <1>7 DEF O!BothStreams
<1> QED BY <1>9, <1>10, <1>11, <1>12 DEF Streams

\* As many matched as match among the lines passed; the first of them, up to the
\* limit, have been shown.
ScanInv ==
  /\ body[1] \in Seq(AnyLine) /\ body[2] \in Seq(AnyLine)
  /\ grep \in BOOLEAN /\ limit \in 0..MaxLimit
  /\ at = <<at[1], at[2]>> /\ at[1] \in {1, 2} /\ at[2] \in 1..(Len(body[at[1]]) + 1)
  /\ opc \in {"none", "parse"} => at = <<1, 1>> /\ matched = 0 /\ shown = 0 /\ lines = <<>>
  /\ matched = Rank(Hits, Passed)
  /\ shown = IF matched < limit THEN matched ELSE limit
  /\ lines \in Seq({All[k] : k \in DOMAIN All}) /\ Len(lines) = shown
  /\ \A k \in 1..shown : lines[k] = Kept(All, Hits)[k]
  /\ opc # "done" => more = 0
  /\ opc = "done" => Passed = Len(All) /\ more = matched - shown

\* What the invariant says of the loop's place.
LEMMA PlaceOf ==
  ASSUME body[1] \in Seq(AnyLine), body[2] \in Seq(AnyLine),
         at[1] \in {1, 2}, at[2] \in 1..(Len(body[at[1]]) + 1)
  PROVE  /\ Passed \in Nat /\ Passed <= Len(All) /\ Len(All) \in Nat
         /\ Positions(Hits, Len(All))
         /\ Rank(Hits, Passed) \in Nat /\ Rank(Hits, Passed) <= Cardinality(Hits)
         /\ Cardinality(Hits) \in Nat
         /\ Streams(body, All)
<1>1. Streams(body, All)
  BY StreamsOf DEF All
<1>2. Len(body[1]) \in Nat /\ Len(body[2]) \in Nat
  OBVIOUS
<1>3. Len(All) = Len(body[1]) + Len(body[2]) /\ DOMAIN All = 1..Len(All)
  BY <1>1 DEF Streams
<1>4. at[1] = 1 \/ at[1] = 2
  OBVIOUS
<1>5. Passed \in Nat /\ Passed <= Len(All) /\ Len(All) \in Nat
  <2>1. PICK a \in Nat, b \in Nat : a = Len(body[1]) /\ b = Len(body[2])
    BY <1>2
  <2>2. Len(All) = a + b
    BY <1>3, <2>1
  <2>3. CASE at[1] = 1
    <3>1. at[2] \in 1..(a + 1) /\ Passed = at[2] - 1
      BY <2>1, <2>3 DEF Passed
    <3> QED BY <2>2, <3>1
  <2>4. CASE at[1] = 2
    <3>1. at[2] \in 1..(b + 1) /\ Passed = a + at[2] - 1
      BY <2>1, <2>4 DEF Passed
    <3> QED BY <2>2, <3>1
  <2> QED BY <1>4, <2>3, <2>4
<1>6. Hits \subseteq 1..Len(All)
  BY <1>3 DEF Hits
<1>7. Positions(Hits, Len(All))
  BY <1>5, <1>6, ArePositions
<1>8. IsFiniteSet(Hits)
  BY <1>7 DEF Positions
<1> QED BY <1>1, <1>5, <1>7, <1>8, UpToFinite

\* The line the loop is at is the next of both streams.
LEMMA LineAt ==
  ASSUME body[1] \in Seq(AnyLine), body[2] \in Seq(AnyLine),
         at[1] \in {1, 2}, at[2] \in 1..(Len(body[at[1]]) + 1), O!AtLine
  PROVE  /\ Passed + 1 \in DOMAIN All /\ All[Passed + 1] = <<at[1], at[2], O!This>>
         /\ Passed + 1 \in Hits <=> O!Hit
<1>1. Streams(body, All) /\ Passed \in Nat
  BY PlaceOf
<1>2. Len(body[1]) \in Nat /\ Len(body[2]) \in Nat
  OBVIOUS
<1>3. at[2] \in 1..Len(body[at[1]])
  BY <1>2 DEF O!AtLine
<1>4. Len(All) = Len(body[1]) + Len(body[2]) /\ DOMAIN All = 1..Len(All)
  BY <1>1 DEF Streams
<1>5. Passed + 1 \in DOMAIN All /\ All[Passed + 1] = <<at[1], at[2], body[at[1]][at[2]]>>
  <2>0. at[1] = 1 \/ at[1] = 2
    OBVIOUS
  <2>1. CASE at[1] = 1
    <3>1. Passed + 1 = at[2] /\ at[2] \in 1..Len(body[1])
      BY <1>2, <1>3, <2>1 DEF Passed
    <3>2. All[at[2]] = <<1, at[2], body[1][at[2]]>>
      BY <1>1, <3>1 DEF Streams
    <3>3. at[2] \in 1..(Len(body[1]) + Len(body[2]))
      <4>1. PICK a \in Nat, b \in Nat : a = Len(body[1]) /\ b = Len(body[2])
        BY <1>2
      <4>2. at[2] \in 1..a
        BY <3>1, <4>1
      <4>3. at[2] \in 1..(a + b)
        BY <4>2
      <4> QED BY <4>1, <4>3
    <3> QED BY <1>4, <2>1, <3>1, <3>2, <3>3
  <2>2. CASE at[1] = 2
    <3>1. Passed + 1 = at[2] + Len(body[1]) /\ at[2] \in 1..Len(body[2])
      BY <1>2, <1>3, <2>2 DEF Passed
    <3>2. All[at[2] + Len(body[1])] = <<2, at[2], body[2][at[2]]>>
      BY <1>1, <3>1 DEF Streams
    <3>3. at[2] + Len(body[1]) \in 1..(Len(body[1]) + Len(body[2]))
      <4>1. PICK a \in Nat, b \in Nat : a = Len(body[1]) /\ b = Len(body[2])
        BY <1>2
      <4>2. at[2] \in 1..b
        BY <3>1, <4>1
      <4>3. at[2] + a \in 1..(a + b)
        BY <4>2
      <4> QED BY <4>1, <4>3
    <3> QED BY <1>4, <2>2, <3>1, <3>2, <3>3
  <2> QED BY <2>0, <2>1, <2>2
<1>6. All[Passed + 1] = <<at[1], at[2], O!This>>
  BY <1>5 DEF O!This
<1>7. All[Passed + 1][3] = O!This
  BY <1>6
<1> QED BY <1>5, <1>6, <1>7 DEF Hits, O!Hit

\* Before the first line nothing matched.
LEMMA NoneYet ==
  ASSUME NEW L, NEW b, b[1] \in Seq(L), b[2] \in Seq(L), NEW g
  PROVE  Rank({i \in DOMAIN O!BothStreams(b) : g => O!BothStreams(b)[i][3] \in Query}, 0) = 0
<1>1. PICK all : all = O!BothStreams(b)
  OBVIOUS
<1>2. Streams(b, all)
  BY <1>1, StreamsOf
<1> DEFINE I == {i \in DOMAIN all : g => all[i][3] \in Query}
           m == Len(all)
<1>3. Len(b[1]) \in Nat /\ Len(b[2]) \in Nat
  OBVIOUS
<1>4. m \in Nat /\ DOMAIN all = 1..m
  <2>1. PICK c \in Nat, d \in Nat : c = Len(b[1]) /\ d = Len(b[2])
    BY <1>3
  <2>2. Len(all) = c + d /\ DOMAIN all = 1..Len(all)
    BY <1>2, <2>1 DEF Streams
  <2> QED BY <2>2
<1>5. I \subseteq 1..m
  BY <1>4
<1> HIDE DEF I, m
<1>6. Rank(I, 0) = 0
  BY <1>4, <1>5, ArePositions, RankOfAll
<1> QED BY <1>1, <1>6 DEF I

\* The text of a stream has a line for each of the stream's.
LEMMA LinesOf ==
  ASSUME NEW s, NEW L, s \in Seq(L), L \subseteq AnyMark
  PROVE  O!Lines(s) \in Seq(AnyLine)
<1>1. Len(s) \in Nat /\ DOMAIN s = 1..Len(s) /\ \A k \in 1..Len(s) : s[k] \in AnyMark
  OBVIOUS
<1>2. \A k \in 1..Len(s) : O!Shown(s[k]) \in AnyLine
  BY <1>1 DEF AnyLine
<1>3. O!Lines(s) = [k \in 1..Len(s) |-> O!Shown(s[k])]
  BY <1>1 DEF O!Lines
<1>4. O!Lines(s) \in [1..Len(s) -> AnyLine]
  BY <1>2, <1>3
<1> QED BY <1>1, <1>4

\* What is printed of a run are the lines of its two streams.
LEMMA StoredLines ==
  ASSUME PipesInv, RunInv, NEW id \in DOMAIN Stored
  PROVE  O!Text(Stored[id])[1] \in Seq(AnyLine) /\ O!Text(Stored[id])[2] \in Seq(AnyLine)
<1>1. Marks \subseteq AnyMark /\ \A s \in {1, 2} : Range(OldText[s]) \subseteq AnyMark
  BY DEF AnyMark
<1>2. CASE id = OldId
  <2>1. Stored[id] = OldText
    BY <1>2, StoredRuns
  <2>2. O!Lines(OldText[1]) \in Seq(AnyLine) /\ O!Lines(OldText[2]) \in Seq(AnyLine)
    BY <1>1, TextAssumption, LinesOf
  <2> QED BY <2>1, <2>2 DEF O!Text
<1>3. CASE id # OldId
  <2>1. row.stored /\ id = NewId
    BY <1>3, StoredRuns
  <2>2. Stored[id] = <<written["stdout"], written["stderr"]>>
    BY <2>1, StoredRuns DEF RunInv
  <2>3. written["stdout"] \in Seq(Marks) /\ written["stderr"] \in Seq(Marks)
    BY DEF PipesInv, Stream
  <2>4. O!Lines(written["stdout"]) \in Seq(AnyLine) /\ O!Lines(written["stderr"]) \in Seq(AnyLine)
    BY <1>1, <2>3, LinesOf
  <2> QED BY <2>2, <2>4 DEF O!Text
<1> QED BY <1>2, <1>3

\* The loop has not begun.
LEMMA InitScan == SessionInit => ScanInv
<1> SUFFICES ASSUME SessionInit PROVE ScanInv
  OBVIOUS
<1>1. /\ grep = FALSE /\ limit = 0 /\ body = <<<<>>, <<>>>> /\ opc = "none" /\ at = <<1, 1>>
      /\ shown = 0 /\ matched = 0 /\ lines = <<>> /\ more = 0
  BY DEF SessionInit, O!Init
<1>2. body[1] = <<>> /\ body[2] = <<>> /\ at[1] = 1 /\ at[2] = 1
  BY <1>1
<1>3. <<>> \in Seq(AnyLine) /\ Len(<<>>) = 0 /\ \A W : <<>> \in Seq(W)
  OBVIOUS
<1>4. Rank(Hits, 0) = 0
  BY <1>2, <1>3, NoneYet DEF Hits, All
<1>5. Passed = 0
  BY <1>2 DEF Passed
<1>6. body[1] \in Seq(AnyLine) /\ body[2] \in Seq(AnyLine) /\ at[2] \in 1..(Len(body[at[1]]) + 1)
  BY <1>2, <1>3
<1>7. matched = Rank(Hits, Passed)
  BY <1>1, <1>4, <1>5
<1>8. lines \in Seq({All[k] : k \in DOMAIN All}) /\ Len(lines) = shown
  BY <1>1, <1>3
<1>9. shown = (IF matched < limit THEN matched ELSE limit) /\ limit \in 0..MaxLimit
  BY <1>1, LimitAssumption
<1>10. \A k \in 1..shown : lines[k] = Kept(All, Hits)[k]
  BY <1>1
<1> QED BY <1>1, <1>2, <1>6, <1>7, <1>8, <1>9, <1>10 DEF ScanInv

\* A step that leaves the loop where it is.
LEMMA SameScan ==
  ASSUME ScanInv, opc' = opc \/ (opc' = "failed" /\ opc # "done"),
         grep' = grep, limit' = limit, body' = body, at' = at,
         shown' = shown, matched' = matched, lines' = lines, more' = more
  PROVE  ScanInv'
<1>1. All' = All
  BY DEF All, O!BothStreams, O!Numbered
<1>2. Hits' = Hits /\ Passed' = Passed
  BY <1>1 DEF Hits, Passed
<1> QED BY <1>1, <1>2 DEF ScanInv

\* A step to the first line, of what was found or of nothing.
LEMMA StartScan ==
  ASSUME ScanInv, opc \in {"none", "parse"}, opc' \in {"parse", "lines"},
         body'[1] \in Seq(AnyLine), body'[2] \in Seq(AnyLine),
         grep' \in BOOLEAN, limit' \in 0..MaxLimit, at' = at,
         shown' = shown, matched' = matched, lines' = lines, more' = more
  PROVE  ScanInv'
<1>1. at = <<1, 1>> /\ matched = 0 /\ shown = 0 /\ lines = <<>> /\ more = 0
  BY DEF ScanInv
<1>2. at'[1] = 1 /\ at'[2] = 1 /\ at' = <<1, 1>>
  BY <1>1
<1>3. Passed' = 0
  BY <1>2 DEF Passed
<1>4. Rank(Hits', 0) = 0
  <2>1. Rank({i \in DOMAIN O!BothStreams(body') : grep' => O!BothStreams(body')[i][3] \in Query}, 0) = 0
    BY NoneYet
  <2>2. Hits' = {i \in DOMAIN O!BothStreams(body') : grep' => O!BothStreams(body')[i][3] \in Query}
    BY DEF Hits, All, O!BothStreams, O!Numbered
  <2> QED BY <2>1, <2>2
<1>5. Len(<<>>) = 0 /\ \A W : <<>> \in Seq(W)
  OBVIOUS
<1>6. matched' = Rank(Hits, Passed)'
  BY <1>1, <1>3, <1>4 DEF Rank
<1>7. at'[2] \in 1..(Len(body'[at'[1]]) + 1)
  BY <1>2
<1>8. shown' = (IF matched < limit THEN matched ELSE limit)'
  BY <1>1, LimitAssumption
<1>9. lines' = <<>> /\ shown' = 0 /\ opc' # "done" /\ opc' # "none"
  BY <1>1
<1> QED BY <1>1, <1>2, <1>5, <1>6, <1>7, <1>8, <1>9 DEF ScanInv

\* The loop goes to the next line of its stream.
LEMMA PassLine ==
  ASSUME ScanInv, O!AtLine, at' = <<at[1], at[2] + 1>>, opc' = opc, UNCHANGED <<grep, limit, body, more>>,
         matched' = IF O!Hit THEN matched + 1 ELSE matched,
         shown' = IF O!Hit /\ shown < limit THEN shown + 1 ELSE shown,
         lines' = IF O!Hit /\ shown < limit THEN Append(lines, <<at[1], at[2], O!This>>) ELSE lines
  PROVE  ScanInv'
<1>0. /\ body[1] \in Seq(AnyLine) /\ body[2] \in Seq(AnyLine)
      /\ at[1] \in {1, 2} /\ at[2] \in 1..(Len(body[at[1]]) + 1)
      /\ limit \in 0..MaxLimit /\ limit \in Nat
      /\ matched = Rank(Hits, Passed) /\ shown = IF matched < limit THEN matched ELSE limit
      /\ lines \in Seq({All[k] : k \in DOMAIN All}) /\ Len(lines) = shown
      /\ \A k \in 1..shown : lines[k] = Kept(All, Hits)[k]
      /\ grep \in BOOLEAN /\ opc = "lines" /\ more = 0
  BY LimitAssumption DEF ScanInv, O!AtLine
<1>1. /\ Passed \in Nat /\ Len(All) \in Nat /\ Positions(Hits, Len(All))
      /\ Rank(Hits, Passed) \in Nat
  BY <1>0, PlaceOf
<1>2. /\ Passed + 1 \in DOMAIN All /\ All[Passed + 1] = <<at[1], at[2], O!This>>
      /\ Passed + 1 \in Hits <=> O!Hit
  BY <1>0, LineAt
<1>3. All' = All
  BY DEF All, O!BothStreams, O!Numbered
<1>4. Hits' = Hits
  BY <1>3 DEF Hits
<1>5. at'[1] = at[1] /\ at'[2] = at[2] + 1 /\ at' = <<at'[1], at'[2]>>
  OBVIOUS
<1>6. Len(body[1]) \in Nat /\ Len(body[2]) \in Nat
  BY <1>0
<1>7. Passed' = Passed + 1
  BY <1>0, <1>5, <1>6 DEF Passed
<1>8. at'[2] \in 1..(Len(body'[at'[1]]) + 1)
  <2>1. PICK n : n = Len(body[at[1]])
    OBVIOUS
  <2>2. n \in Nat
    BY <1>0, <1>6, <2>1
  <2>3. at[2] \in 1..(n + 1) /\ at[2] <= n
    BY <1>0, <2>1 DEF O!AtLine
  <2>4. at[2] + 1 \in 1..(n + 1)
    BY <2>2, <2>3
  <2> QED BY <1>5, <2>1, <2>4
<1>9. Rank(Hits, Passed + 1) = IF O!Hit THEN Rank(Hits, Passed) + 1 ELSE Rank(Hits, Passed)
  BY <1>1, <1>2, RankStep
<1>10. matched' = Rank(Hits, Passed)'
  <2>1. Rank(Hits, Passed)' = Rank(Hits, Passed + 1)
    BY <1>4, <1>7 DEF Rank
  <2> QED BY <1>0, <1>9, <2>1
<1>11. matched \in Nat /\ limit \in Nat
  BY <1>0, <1>1
<1>12. shown' = IF matched' < limit' THEN matched' ELSE limit'
  BY <1>0, <1>11
<1>13. /\ lines' \in Seq({All[k] : k \in DOMAIN All}) /\ Len(lines') = shown'
       /\ \A k \in 1..shown' : lines'[k] = Kept(All, Hits)[k]
  <2>1. CASE O!Hit /\ shown < limit
    <3>1. shown = matched /\ shown \in Nat /\ shown' = shown + 1
      BY <1>0, <1>11, <2>1
    <3>2. Kept(All, Hits)[shown + 1] = All[Passed + 1]
      BY <1>0, <1>1, <1>2, <2>1, <3>1, KeptAt
    <3>3. PICK S : S = {All[k] : k \in DOMAIN All}
      OBVIOUS
    <3>4. PICK x : x = <<at[1], at[2], O!This>>
      OBVIOUS
    <3>5. x \in S /\ lines \in Seq(S) /\ lines' = Append(lines, x)
      BY <1>0, <1>2, <2>1, <3>3, <3>4
    <3>6. /\ lines' \in Seq(S) /\ Len(lines') = shown + 1 /\ lines'[shown + 1] = x
          /\ \A k \in 1..shown : lines'[k] = lines[k]
      <4>1. /\ Append(lines, x) \in Seq(S) /\ Len(Append(lines, x)) = Len(lines) + 1
            /\ Append(lines, x)[Len(lines) + 1] = x
            /\ \A k \in 1..Len(lines) : Append(lines, x)[k] = lines[k]
        BY <3>5, AppendProperties
      <4> QED BY <1>0, <3>5, <4>1
    <3>7. \A k \in 1..(shown + 1) : k \in 1..shown \/ k = shown + 1
      BY <3>1
    <3> QED BY <1>0, <1>2, <3>1, <3>2, <3>3, <3>4, <3>6, <3>7
  <2>2. CASE ~(O!Hit /\ shown < limit)
    <3>1. lines' = lines /\ shown' = shown
      BY <2>2
    <3> QED BY <1>0, <3>1
  <2> QED BY <2>1, <2>2
<1>14. \A k \in 1..shown' : lines'[k] = Kept(All, Hits)'[k]
  <2>1. Kept(All, Hits)' = Kept(All, Hits)
    BY <1>3, <1>4 DEF Kept
  <2> QED BY <1>13, <2>1
<1>15. lines' \in Seq({All[k] : k \in DOMAIN All})' /\ opc' = "lines" /\ more' = 0
  BY <1>0, <1>3, <1>13
<1>16. /\ body' = body /\ grep' = grep /\ limit' = limit
  OBVIOUS
<1> QED BY <1>0, <1>5, <1>8, <1>10, <1>12, <1>13, <1>14, <1>15, <1>16 DEF ScanInv

\* The loop goes to stderr.
LEMMA ToStderr ==
  ASSUME ScanInv, O!NextStream
  PROVE  ScanInv'
<1>0. /\ at[1] = 1 /\ at[2] > Len(body[1]) /\ at' = <<2, 1>> /\ opc = "lines" /\ opc' = opc
      /\ grep' = grep /\ limit' = limit /\ body' = body
      /\ shown' = shown /\ matched' = matched /\ lines' = lines /\ more' = more
  BY DEF O!NextStream, O!args
<1>1. Len(body[1]) \in Nat /\ Len(body[2]) \in Nat
  BY DEF ScanInv
<1>2. at[2] \in 1..(Len(body[1]) + 1)
  BY <1>0 DEF ScanInv
<1>3. at'[1] = 2 /\ at'[2] = 1
  BY <1>0
<1>4. Passed' = Passed
  <2>1. PICK n : n = Len(body[1])
    OBVIOUS
  <2>2. n \in Nat /\ at[2] \in 1..(n + 1) /\ at[2] > n
    BY <1>0, <1>1, <1>2, <2>1
  <2>3. Passed = at[2] - 1 /\ Passed' = n + 1 - 1
    BY <1>0, <1>3, <2>1 DEF Passed
  <2> QED BY <2>2, <2>3
<1>5. All' = All
  BY <1>0 DEF All, O!BothStreams, O!Numbered
<1>6. Hits' = Hits
  BY <1>0, <1>5 DEF Hits
<1>7. at'[2] \in 1..(Len(body'[at'[1]]) + 1)
  BY <1>0, <1>1, <1>3
<1> QED BY <1>0, <1>3, <1>4, <1>5, <1>6, <1>7 DEF ScanInv

\* Both streams have been passed.
LEMMA AllPassed ==
  ASSUME ScanInv, O!Finish
  PROVE  ScanInv'
<1>0. /\ at[1] = 2 /\ at[2] > Len(body[2]) /\ opc = "lines" /\ opc' = "done"
      /\ more' = IF matched > shown THEN matched - shown ELSE 0
      /\ grep' = grep /\ limit' = limit /\ body' = body /\ at' = at
      /\ shown' = shown /\ matched' = matched /\ lines' = lines
  BY DEF O!Finish, O!args
<1>1. Len(body[1]) \in Nat /\ Len(body[2]) \in Nat /\ at[2] \in 1..(Len(body[2]) + 1)
  BY <1>0 DEF ScanInv
<1>2. /\ Streams(body, All) /\ Rank(Hits, Passed) \in Nat
  BY PlaceOf DEF ScanInv
<1>3. Passed = Len(All)
  <2>1. PICK m \in Nat, n \in Nat : m = Len(body[1]) /\ n = Len(body[2])
    BY <1>1
  <2>2. Len(All) = m + n /\ Passed = m + at[2] - 1 /\ at[2] \in 1..(n + 1) /\ at[2] > n
    BY <1>0, <1>1, <1>2, <2>1 DEF Passed, Streams
  <2> QED BY <2>2
<1>4. All' = All
  BY <1>0 DEF All, O!BothStreams, O!Numbered
<1>5. Hits' = Hits /\ Passed' = Passed
  BY <1>0, <1>4 DEF Hits, Passed
<1>6. more' = matched' - shown'
  <2>1. matched \in Nat /\ limit \in 0..MaxLimit /\ shown = IF matched < limit THEN matched ELSE limit
    BY <1>2 DEF ScanInv
  <2> QED BY <1>0, <2>1, LimitAssumption
<1> QED BY <1>0, <1>3, <1>4, <1>5, <1>6 DEF ScanInv

\* Each step of ctx output, and of ctx run beside it, keeps the count.
LEMMA NextScan == PipesInv /\ RunInv /\ HandleInv /\ ScanInv /\ [SessionNext]_sessionVars => ScanInv'
<1> SUFFICES ASSUME PipesInv, RunInv, HandleInv, ScanInv, [SessionNext]_sessionVars PROVE ScanInv'
  OBVIOUS
<1>1. CASE UNCHANGED outputVars
  <2>1. /\ opc' = opc /\ grep' = grep /\ limit' = limit /\ body' = body /\ at' = at
        /\ shown' = shown /\ matched' = matched /\ lines' = lines /\ more' = more
    BY <1>1 DEF outputVars
  <2> QED BY <2>1, SameScan
<1>2. CASE O!Ask
  <2>1. /\ opc = "none" /\ opc' = "parse" /\ grep' \in BOOLEAN /\ limit' \in 0..MaxLimit /\ at' = at
        /\ shown' = shown /\ matched' = matched /\ lines' = lines /\ more' = more /\ body' = body
    BY <1>2 DEF O!Ask
  <2>2. body'[1] \in Seq(AnyLine) /\ body'[2] \in Seq(AnyLine)
    BY <2>1 DEF ScanInv
  <2> QED BY <2>1, <2>2, StartScan
<1>3. CASE O!FindRun
  <2>1. /\ opc = "parse" /\ opc' = "lines" /\ grep' = grep /\ limit' = limit /\ at' = at
        /\ shown' = shown /\ matched' = matched /\ lines' = lines /\ more' = more
    BY <1>3 DEF O!FindRun, O!args
  <2>2. PICK id \in DOMAIN Stored : body' = O!Text(Stored[id])
    BY <1>3 DEF O!FindRun, O!Found
  <2>3. body'[1] \in Seq(AnyLine) /\ body'[2] \in Seq(AnyLine)
    BY <2>2, StoredLines
  <2>4. grep' \in BOOLEAN /\ limit' \in 0..MaxLimit
    BY <2>1 DEF ScanInv
  <2> QED BY <2>1, <2>3, <2>4, StartScan
<1>4. CASE O!NoSuchRun \/ O!BlobIsGone \/ O!PrintFails
  <2>1. /\ opc \in {"parse", "lines"} /\ opc' = "failed" /\ grep' = grep /\ limit' = limit
        /\ body' = body /\ at' = at
        /\ shown' = shown /\ matched' = matched /\ lines' = lines /\ more' = more
    BY <1>4 DEF O!NoSuchRun, O!BlobIsGone, O!PrintFails, O!args
  <2> QED BY <2>1, SameScan
<1>5. CASE O!PassOver
  <2>1. /\ O!AtLine /\ ~O!Hit /\ at' = <<at[1], at[2] + 1>> /\ opc' = opc
        /\ grep' = grep /\ limit' = limit /\ body' = body /\ more' = more
        /\ matched' = matched /\ shown' = shown /\ lines' = lines
    BY <1>5 DEF O!PassOver, O!args
  <2> QED BY <2>1, PassLine
<1>6. CASE O!PrintHit
  <2>1. /\ O!AtLine /\ O!Hit /\ shown < limit /\ at' = <<at[1], at[2] + 1>> /\ opc' = opc
        /\ grep' = grep /\ limit' = limit /\ body' = body /\ more' = more
        /\ matched' = matched + 1 /\ shown' = shown + 1
        /\ lines' = Append(lines, <<at[1], at[2], O!This>>)
    BY <1>6 DEF O!PrintHit, O!args
  <2> QED BY <2>1, PassLine
<1>7. CASE O!CountHit
  <2>1. /\ O!AtLine /\ O!Hit /\ shown >= limit /\ at' = <<at[1], at[2] + 1>> /\ opc' = opc
        /\ grep' = grep /\ limit' = limit /\ body' = body /\ more' = more
        /\ matched' = matched + 1 /\ shown' = shown /\ lines' = lines
    BY <1>7 DEF O!CountHit, O!args
  <2>2. ~(shown < limit)
    <3>1. matched \in Nat /\ shown \in Nat /\ limit \in Nat
      BY PlaceOf, LimitAssumption DEF ScanInv
    <3> QED BY <2>1, <3>1
  <2> QED BY <2>1, <2>2, PassLine
<1>8. CASE O!NextStream
  BY <1>8, ToStderr
<1>9. CASE O!Finish
  BY <1>9, AllPassed
<1> QED
  BY <1>1, <1>2, <1>3, <1>4, <1>5, <1>6, <1>7, <1>8, <1>9 DEF SessionNext, sessionVars, O!Next

-----------------------------------------------------------------------------
(* The theorems.                                                             *)

SessionInv == PipesInv /\ RunInv /\ HandleInv /\ ScanInv

\* All four parts of the invariant hold at all times.
LEMMA SessionInvariance == SessionSpec => []SessionInv
<1>1. SessionInit => SessionInv
  BY InitRun, InitHandle, InitScan DEF SessionInit, SessionInv
<1>2. SessionInv /\ [SessionNext]_sessionVars => SessionInv'
  <2> SUFFICES ASSUME SessionInv, [SessionNext]_sessionVars PROVE SessionInv'
    OBVIOUS
  <2>1. [Next]_vars
    BY DEF SessionNext, sessionVars
  <2> QED BY <2>1, NextPipes, NextRun, NextHandle, NextScan DEF SessionInv
<1> QED BY <1>1, <1>2, PTL DEF SessionSpec

\* What is printed is the beginning of what matches, and the rest announced.
LEMMA ScanShows == ScanInv => (opc \in {"lines", "done"} => O!ShowsAll(body))
<1> SUFFICES ASSUME ScanInv, opc \in {"lines", "done"} PROVE O!ShowsAll(body)
  OBVIOUS
<1>0. /\ body[1] \in Seq(AnyLine) /\ body[2] \in Seq(AnyLine)
      /\ at[1] \in {1, 2} /\ at[2] \in 1..(Len(body[at[1]]) + 1)
      /\ limit \in Nat
      /\ matched = Rank(Hits, Passed) /\ shown = IF matched < limit THEN matched ELSE limit
      /\ lines \in Seq({All[k] : k \in DOMAIN All}) /\ Len(lines) = shown
      /\ \A k \in 1..shown : lines[k] = Kept(All, Hits)[k]
      /\ opc = "done" => Passed = Len(All) /\ more = matched - shown
  BY LimitAssumption DEF ScanInv
<1>1. /\ Len(All) \in Nat /\ Positions(Hits, Len(All)) /\ Cardinality(Hits) \in Nat
      /\ matched \in Nat /\ matched <= Cardinality(Hits)
  BY <1>0, PlaceOf
<1>2. PICK kept : kept = O!Matching(body)
  OBVIOUS
<1>3. kept = Kept(All, Hits)
  <2>1. kept = O!Kept(All, Hits)
    BY <1>2 DEF O!Matching, All, Hits
  <2> QED BY <2>1, SameKept
<1>4. DOMAIN kept = 1..Cardinality(Hits)
  BY <1>3 DEF Kept
<1>5. PICK S : S = {kept[k] : k \in DOMAIN kept} \cup {All[k] : k \in DOMAIN All}
  OBVIOUS
<1>6. kept \in Seq(S) /\ Len(kept) = Cardinality(Hits)
  <2>1. kept \in [1..Cardinality(Hits) -> S]
    <3>1. kept = [k \in 1..Cardinality(Hits) |-> kept[k]]
      BY <1>3, <1>4 DEF Kept
    <3>2. \A k \in 1..Cardinality(Hits) : kept[k] \in S
      BY <1>4, <1>5
    <3> QED BY <3>1, <3>2
  <2>2. kept \in Seq(S)
    BY <1>1, <2>1
  <2> QED BY <1>1, <1>4, <2>2
<1>7. lines \in Seq(S)
  BY <1>0, <1>5, MoreWords
<1>8. shown \in Nat /\ shown <= Cardinality(Hits) /\ shown <= limit
  BY <1>0, <1>1
<1>9. O!IsPrefix(lines, kept)
  <2>1. PICK u : u = SubSeq(lines, 1, shown)
    OBVIOUS
  <2>2. PICK v : v = SubSeq(kept, 1, shown)
    OBVIOUS
  <2>3. u = lines
    BY <1>0, <1>7, <2>1, SubSeqFull
  <2>4. v \in Seq(S) /\ Len(v) = shown /\ \A k \in 1..shown : v[k] = kept[k]
    <3>1. \A k \in 1..shown : k \in 1..Len(kept) /\ kept[k] \in S
      BY <1>4, <1>5, <1>6, <1>8
    <3>2. CASE shown = 0
      BY <1>6, <2>2, <3>2
    <3>3. CASE shown # 0
      <4>1. /\ v \in Seq(S)
            /\ Len(v) = IF 1 <= shown THEN shown - 1 + 1 ELSE 0
            /\ \A k \in 1..(shown - 1 + 1) : v[k] = kept[1 + k - 1]
        BY <1>8, <2>2, <3>1, SubSeqProperties
      <4>2. shown - 1 + 1 = shown /\ 1 <= shown /\ \A k \in 1..shown : 1 + k - 1 = k
        BY <1>8, <3>3
      <4> QED BY <4>1, <4>2
    <3> QED BY <3>2, <3>3
  <2>5. v = lines
    <3>1. \A k \in 1..Len(lines) : v[k] = lines[k]
      BY <1>0, <1>3, <2>4
    <3>2. Len(v) = Len(lines)
      BY <1>0, <2>4
    <3> QED BY <1>7, <2>4, <3>1, <3>2, SeqEqual
  <2> QED BY <1>0, <1>6, <1>8, <2>1, <2>2, <2>3, <2>5 DEF O!IsPrefix
<1>10. ASSUME opc = "done"
       PROVE  /\ Len(lines) + more = Len(kept)
              /\ more # 0 => Len(lines) = limit
  <2>1. matched = Cardinality(Hits)
    <3>1. Rank(Hits, Len(All)) = Cardinality(Hits)
      BY <1>1, RankOfAll
    <3> QED BY <1>0, <1>10, <3>1
  <2>2. more = matched - shown
    BY <1>0, <1>10
  <2>3. Len(lines) = shown /\ Len(kept) = matched /\ shown \in Nat /\ matched \in Nat /\ limit \in Nat
    BY <1>0, <1>1, <1>6, <1>8, <2>1
  <2>4. shown + more = matched /\ (more # 0 => shown = limit)
    <3>1. shown = IF matched < limit THEN matched ELSE limit
      BY <1>0
    <3> QED BY <2>2, <2>3, <3>1
  <2> QED BY <2>3, <2>4
<1> QED BY <1>0, <1>2, <1>8, <1>9, <1>10 DEF O!ShowsAll

\* The four properties follow from the invariant.
LEMMA SessionSays ==
  SessionInv => SessionTypeOK /\ StoredIsWhole /\ TheRunNamedAnswers /\ NothingIsDropped
<1> SUFFICES ASSUME SessionInv
             PROVE  SessionTypeOK /\ StoredIsWhole /\ TheRunNamedAnswers /\ NothingIsDropped
  OBVIOUS
<1> USE DEF SessionInv
<1>1. TypeOK
  BY DEF PipesInv, RunInv, TypeOK
<1>2. O!TypeOK
  <2>1. /\ typed \in Typed \cup {<<>>} /\ opc \in {"none", "parse", "lines", "done", "failed"}
    BY DEF HandleInv
  <2>2. /\ grep \in BOOLEAN /\ limit \in 0..MaxLimit /\ at[1] \in 1..2
        /\ at[2] \in 1..(Len(body[at[1]]) + 1)
    BY DEF ScanInv
  <2>3. matched \in Nat
    BY PlaceOf DEF ScanInv
  <2>4. shown \in 0..limit /\ shown <= matched /\ more \in 0..matched
    <3>1. /\ limit \in Nat /\ shown = IF matched < limit THEN matched ELSE limit
          /\ more = 0 \/ more = matched - shown
      BY LimitAssumption DEF ScanInv
    <3> QED BY <2>3, <3>1
  <2> QED BY <2>1, <2>2, <2>3, <2>4 DEF O!TypeOK
<1>3. StoredIsWhole
  BY DEF RunInv, StoredIsWhole
<1>4. TheRunNamedAnswers
  BY HandleNames
<1>5. NothingIsDropped
  <2> SUFFICES ASSUME opc \in {"lines", "done"}
               PROVE  \/ typed = O!Display(O!OutputRun(OldId)) /\ O!ShowsAll(O!Text(OldText))
                      \/ /\ typed = O!Display(O!OutputRun(NewId)) /\ row.stored
                         /\ O!ShowsAll(O!Text(<<written["stdout"], written["stderr"]>>))
    BY DEF NothingIsDropped
  <2>1. O!ShowsAll(body)
    BY ScanShows
  <2>2. PICK id \in DOMAIN Stored : typed = O!Display(O!OutputRun(id)) /\ body = O!Text(Stored[id])
    BY DEF HandleInv
  <2>3. CASE id = OldId
    <3>1. body = O!Text(OldText)
      BY <2>2, <2>3, StoredRuns
    <3> QED BY <2>1, <2>2, <2>3, <3>1
  <2>4. CASE id # OldId
    <3>1. row.stored /\ id = NewId
      BY <2>4, StoredRuns
    <3>2. body = O!Text(<<written["stdout"], written["stderr"]>>)
      BY <2>2, <3>1, StoredRuns DEF RunInv
    <3> QED BY <2>1, <2>2, <3>1, <3>2
  <2> QED BY <2>3, <2>4
<1> QED BY <1>1, <1>2, <1>3, <1>4, <1>5 DEF SessionTypeOK

\* Every variable of the two commands has its type at all times, and a pipe
\* never holds more than it has room for (cmd_run, cmd_output).
THEOREM SessionIsTyped == SessionSpec => []SessionTypeOK
BY SessionInvariance, SessionSays, PTL

\* ctx run stores all that was written to either stream, by the command and by
\* whoever it left behind, with how the command ended; and prints nothing of a
\* run it has not stored (cmd_run, put_run).
THEOREM RunIsStoredWhole == SessionSpec => []StoredIsWhole
BY SessionInvariance, SessionSays, PTL

\* ctx output prints only of the run whose handle was typed, and a stored run's
\* handle finds that run and no other (Handle::from_str, run_id, run_output).
THEOREM HandleFindsItsRun == SessionSpec => []TheRunNamedAnswers
BY SessionInvariance, SessionSays, PTL

\* What ctx run withholds ctx output shows, as text: of the lines written, those
\* that match, in order, up to the limit, the rest counted (cmd_run, cmd_output).
THEOREM OutputDropsNothing == SessionSpec => []NothingIsDropped
BY SessionInvariance, SessionSays, PTL
=============================================================================
