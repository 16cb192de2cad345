-------------------------- MODULE ReportPathProofs --------------------------
(***************************************************************************)
(* The safety properties of ReportPath, for any number of links, any       *)
(* peripherals, any capacity of the channel and any range of               *)
(* displacements.                                                          *)
(*                                                                         *)
(* NoLostWakeup rests on two facts: a callback that pushes always signals, *)
(* and the drain future goes to sleep only in the step that found nothing. *)
(* RestingStateIsLast is kept by looking where the newest report of one    *)
(* peripheral at one endpoint is: pending, being sent, in the channel,     *)
(* being written, or written.  TravelIsPreserved needs what the sum of a   *)
(* sequence is when a report is put at its end or taken from its           *)
(* beginning, which is an induction over the numbers.                      *)
(***************************************************************************)
EXTENDS ReportPath, DataLemmas

----------------------------------------------------------------------------
(* Wake-ups.                                                               *)

\* What the proof needs of the types.
LoopsOfWorkers ==
    /\ DOMAIN coalescer = Workers /\ DOMAIN drain = Workers
    /\ wake \in [Workers -> BOOLEAN]

WakeInv == LoopsOfWorkers /\ NoLostWakeup

LEMMA WakeInitially == Init => WakeInv
BY DEF Init, WakeInv, LoopsOfWorkers, NoLostWakeup, AtPop

LEMMA WakeStep == WakeInv /\ [Next]_vars => WakeInv'
<1> SUFFICES ASSUME WakeInv, [Next]_vars PROVE WakeInv'
  OBVIOUS
<1> USE DEF WakeInv, LoopsOfWorkers, NoLostWakeup
<1>1. ASSUME UNCHANGED <<coalescer, drain, wake>> PROVE WakeInv'
  BY <1>1 DEF HasPending
<1>2. ASSUME NEW w \in Workers, LinkStarts(w) PROVE WakeInv'
  BY <1>1, <1>2 DEF LinkStarts
<1>3. ASSUME NEW w \in Workers, LinkEnds(w) PROVE WakeInv'
  <2>1. drain'[w].pc = "pop"
    BY <1>3 DEF LinkEnds, AtPop
  <2> QED
    BY <1>3, <2>1 DEF LinkEnds, HasPending
<1>4. ASSUME NEW w \in Workers, NEW r, Notified(w, r) PROVE WakeInv'
  BY <1>4 DEF Notified, HasPending
<1>5. ASSUME NEW w \in Workers, Pops(w) PROVE WakeInv'
  <2>1. drain'[w].pc = "send"
    BY <1>5 DEF Pops, AtSend
  <2> QED
    BY <1>5, <2>1 DEF Pops, HasPending
<1>6. ASSUME NEW w \in Workers, FindsNothing(w) PROVE WakeInv'
  BY <1>6 DEF FindsNothing, HasPending
<1>7. ASSUME NEW w \in Workers, Wakes(w) PROVE WakeInv'
  <2>1. drain' = [drain EXCEPT ![w] = AtPop] /\ coalescer' = coalescer
        /\ wake' = [wake EXCEPT ![w] = FALSE]
    BY <1>7 DEF Wakes
  <2>2. drain'[w].pc = "pop"
    BY <2>1 DEF AtPop
  <2>3. LoopsOfWorkers'
    BY <2>1
  <2> QED
    BY <2>1, <2>2, <2>3 DEF HasPending
<1>8. ASSUME NEW w \in Workers, Sends(w) PROVE WakeInv'
  <2>1. drain' = [drain EXCEPT ![w] = AtPop] /\ coalescer' = coalescer /\ wake' = wake
    BY <1>8 DEF Sends
  <2>2. drain'[w].pc = "pop"
    BY <2>1 DEF AtPop
  <2> QED
    BY <2>1, <2>2 DEF HasPending
<1>9. CASE WriterTakes \/ WriterWrites \/ BusDrops \/ BusReturns
  BY <1>1, <1>9 DEF WriterTakes, WriterWrites, BusDrops, BusReturns
<1>10. CASE UNCHANGED vars
  BY <1>1, <1>10 DEF vars
<1>11. ASSUME NEW w \in Workers, Notifies(w) PROVE WakeInv'
  BY <1>4, <1>11 DEF Notifies, StateChanges, MouseMoves
<1> QED
  BY <1>2, <1>3, <1>5, <1>6, <1>7, <1>8, <1>9, <1>10, <1>11 DEF Next, Drains

\* A drain future never sleeps on a report, however the callback's pushes fall
\* between its awaits.
THEOREM NoReportSleeps == Spec => []NoLostWakeup
<1>1. WakeInv => NoLostWakeup
  BY DEF WakeInv
<1> QED
  BY WakeInitially, WakeStep, <1>1, PTL DEF Spec

----------------------------------------------------------------------------
(* Reports and coalescers.                                                 *)

MaybeReport == Report \cup {NoReport}

\* A coalescer, and the drain's place, of worker w.
IsCoalescer(c, w) ==
    /\ c \in [pending : [Endpoint -> MaybeReport], next : 0 .. 2]
    /\ \A e \in Endpoint : c.pending[e] # NoReport =>
          c.pending[e].kind = e /\ c.pending[e].from = w

IsDrain(d, w) ==
    /\ d \in [pc : {"pop", "wait", "send"}, report : MaybeReport]
    /\ IF d.pc = "send" THEN d.report # NoReport /\ d.report.from = w
                        ELSE d.report = NoReport

LEMMA NoReportKind ==
  NoReport.kind = "none"
BY DEF NoReport

LEMMA ReportFields ==
  ASSUME NEW r \in Report
  PROVE  /\ r.kind \in Endpoint /\ r.from \in Workers /\ r.state \in States
         /\ r.kind # "none" /\ r # NoReport
         /\ r.kind = "mouse" => r.delta \in DeltaMin .. DeltaMax /\ r.delta \in Int
<1>1. r.kind \in Endpoint /\ r.from \in Workers /\ r.state \in States
      /\ (r.kind = "mouse" => r.delta \in DeltaMin .. DeltaMax)
  BY DEF Report, Absolute, Endpoint
<1>2. r.kind # "none"
  BY <1>1 DEF Endpoint
<1> QED
  BY <1>1, <1>2, NoReportKind, DeltasAssumption

LEMMA DisplacementType ==
  ASSUME NEW r \in MaybeReport, NEW w
  PROVE  Displacement(r, w) \in Int
BY ReportFields, NoReportKind DEF MaybeReport, Displacement

LEMMA SaturatingType ==
  ASSUME NEW m \in DeltaMin .. DeltaMax, NEW n \in DeltaMin .. DeltaMax
  PROVE  saturating_add(m, n) \in DeltaMin .. DeltaMax
BY DeltasAssumption DEF saturating_add

LEMMA MergedType ==
  ASSUME NEW older \in Report, NEW newer \in Report,
         older.kind = "mouse", newer.kind = "mouse"
  PROVE  /\ merged_with(older, newer) \in Report
         /\ merged_with(older, newer).kind = "mouse"
         /\ merged_with(older, newer).from = newer.from
         /\ merged_with(older, newer).state = newer.state
         /\ merged_with(older, newer).delta = saturating_add(older.delta, newer.delta)
<1>1. newer \in [kind : {"mouse"}, from : Workers, state : States, delta : DeltaMin .. DeltaMax]
  BY DEF Report, Absolute
<1>2. saturating_add(older.delta, newer.delta) \in DeltaMin .. DeltaMax
  BY ReportFields, SaturatingType
<1> QED
  BY <1>1, <1>2 DEF merged_with, Report

\* What a push changes: one endpoint's report, which has the new state.
LEMMA Pushes ==
  ASSUME NEW w \in Workers, NEW c, IsCoalescer(c, w), NEW r \in Report, r.from = w
  PROVE  /\ IsCoalescer(push(c, r), w)
         /\ \A e \in Endpoint \ {r.kind} : push(c, r).pending[e] = c.pending[e]
         /\ push(c, r).pending[r.kind] \in Report
         /\ push(c, r).pending[r.kind].kind = r.kind
         /\ push(c, r).pending[r.kind].from = w
         /\ push(c, r).pending[r.kind].state = r.state
         /\ r.kind = "mouse" =>
              Displacement(push(c, r).pending["mouse"], w)
                = saturating_add(Displacement(c.pending["mouse"], w), r.delta)
<1> DEFINE was == c.pending[r.kind]
           new == IF r.kind = "mouse" /\ was # NoReport THEN merged_with(was, r) ELSE r
<1>1. /\ r.kind \in Endpoint /\ c.pending \in [Endpoint -> MaybeReport] /\ c.next \in 0 .. 2
      /\ c = [pending |-> c.pending, next |-> c.next]
      /\ was # NoReport => was \in Report /\ was.kind = r.kind /\ was.from = w
  BY ReportFields DEF IsCoalescer, MaybeReport
<1>2. push(c, r) = [pending |-> [c.pending EXCEPT ![r.kind] = new], next |-> c.next]
  BY <1>1 DEF push
<1>3. /\ new \in Report /\ new.kind = r.kind /\ new.from = w /\ new.state = r.state
      /\ r.kind = "mouse" /\ was # NoReport => new.delta = saturating_add(was.delta, r.delta)
      /\ r.kind = "mouse" /\ was = NoReport => new.delta = r.delta
  BY <1>1, MergedType
<1>4. ASSUME r.kind = "mouse"
      PROVE  Displacement(new, w) = saturating_add(Displacement(was, w), r.delta)
  <2>1. CASE was # NoReport
    BY <1>1, <1>3, <1>4, <2>1 DEF Displacement
  <2>2. CASE was = NoReport
    <3>1. Displacement(was, w) = 0
      BY <2>2, NoReportKind DEF Displacement
    <3>2. saturating_add(0, r.delta) = r.delta
      BY <1>4, ReportFields, DeltasAssumption DEF saturating_add
    <3> QED
      BY <1>3, <1>4, <2>2, <3>1, <3>2 DEF Displacement
  <2> QED
    BY <2>1, <2>2
<1>5. push(c, r).pending = [c.pending EXCEPT ![r.kind] = new] /\ push(c, r).next = c.next
  BY <1>2
<1> HIDE DEF new
<1>6. \A e \in Endpoint : push(c, r).pending[e] = IF e = r.kind THEN new ELSE c.pending[e]
  BY <1>1, <1>5
<1>7. IsCoalescer(push(c, r), w)
  <2>1. push(c, r).pending \in [Endpoint -> MaybeReport]
    BY <1>1, <1>3, <1>5 DEF MaybeReport
  <2>2. push(c, r) \in [pending : [Endpoint -> MaybeReport], next : 0 .. 2]
    BY <1>1, <1>2, <1>5, <2>1
  <2> QED
    BY <1>3, <1>6, <2>2 DEF IsCoalescer
<1> QED
  BY <1>1, <1>3, <1>4, <1>6, <1>7

\* pop looks at every endpoint.
LEMMA PopFinds ==
  ASSUME NEW w, NEW c, IsCoalescer(c, w), HasPending(c)
  PROVE  /\ Passed(c) \in 0 .. 2
         /\ Popped(c) \in Endpoint
         /\ c.pending[Popped(c)] # NoReport
<1> DEFINE P(d) == c.pending[Turn(c.next + d)] # NoReport
<1>1. c.next \in 0 .. 2
  BY DEF IsCoalescer
<1>2. /\ Turn(0) = "keyboard" /\ Turn(1) = "mouse" /\ Turn(2) = "consumer"
      /\ Turn(3) = "keyboard" /\ Turn(4) = "mouse"
  BY DEF Turn
<1>3. \A d \in 0 .. 2 : Turn(c.next + d) \in Endpoint
  BY <1>1, <1>2 DEF Endpoint
<1>4. \A e \in Endpoint : \E d \in 0 .. 2 : Turn(c.next + d) = e
  <2>1. \A e \in Endpoint : e = "keyboard" \/ e = "mouse" \/ e = "consumer"
    BY DEF Endpoint
  <2>2. CASE c.next = 0
    BY <1>2, <2>1, <2>2
  <2>3. CASE c.next = 1
    <3>1. Turn(c.next + 0) = "mouse" /\ Turn(c.next + 1) = "consumer" /\ Turn(c.next + 2) = "keyboard"
      BY <1>2, <2>3
    <3> QED
      BY <2>1, <3>1
  <2>4. CASE c.next = 2
    <3>1. Turn(c.next + 0) = "consumer" /\ Turn(c.next + 1) = "keyboard" /\ Turn(c.next + 2) = "mouse"
      BY <1>2, <2>4
    <3> QED
      BY <2>1, <3>1
  <2> QED
    BY <1>1, <2>2, <2>3, <2>4
<1>5. P(0) \/ P(1) \/ P(2)
  BY <1>4 DEF HasPending
<1>6. \E d \in 0 .. 2 : P(d) /\ \A p \in 0 .. d - 1 : ~ P(p)
  <2> HIDE DEF P
  <2>1. CASE P(0)
    BY <2>1
  <2>2. CASE ~ P(0) /\ P(1)
    BY <2>2
  <2>3. CASE ~ P(0) /\ ~ P(1) /\ P(2)
    <3>1. \A p \in 0 .. 1 : p = 0 \/ p = 1
      OBVIOUS
    <3> QED
      BY <2>3, <3>1
  <2> QED
    BY <1>5, <2>1, <2>2, <2>3
<1>7. Passed(c) \in 0 .. 2 /\ P(Passed(c))
  BY <1>6 DEF Passed
<1> QED
  BY <1>3, <1>7 DEF Popped

LEMMA PopTakes ==
  ASSUME NEW w, NEW c, IsCoalescer(c, w), HasPending(c)
  PROVE  /\ IsCoalescer(pop(c), w)
         /\ pop(c).pending = [c.pending EXCEPT ![Popped(c)] = NoReport]
<1>1. pop(c).pending = [c.pending EXCEPT ![Popped(c)] = NoReport]
  BY DEF pop
<1>2. (c.next + Passed(c) + 1) % 3 \in 0 .. 2
  <2>1. c.next \in 0 .. 2
    BY DEF IsCoalescer
  <2>2. c.next + Passed(c) + 1 \in Int
    BY <2>1, PopFinds
  <2> QED
    BY <2>2
<1>3. pop(c) \in [pending : [Endpoint -> MaybeReport], next : 0 .. 2]
  BY <1>1, <1>2 DEF pop, IsCoalescer, MaybeReport
<1> QED
  BY <1>1, <1>3 DEF IsCoalescer

----------------------------------------------------------------------------
(* Sums.                                                                   *)

\* f[i] is the displacement in the first i reports of q.
IsSums(f, q, w) ==
    /\ f \in [0 .. Len(q) -> Int]
    /\ f[0] = 0
    /\ \A i \in 1 .. Len(q) : f[i] = f[i - 1] + Displacement(q[i], w)

LEMMA FirstDisplacement ==
  ASSUME NEW q \in Seq(Report), NEW i \in 1 .. Len(q), NEW w
  PROVE  Displacement(q[i], w) \in Int
BY DisplacementType DEF MaybeReport

LEMMA SumsExtend ==
  ASSUME NEW q \in Seq(Report), NEW r \in Report, NEW w, NEW f, IsSums(f, q, w)
  PROVE  \E g : /\ IsSums(g, Append(q, r), w)
                /\ g[Len(q) + 1] = f[Len(q)] + Displacement(r, w)
<1> DEFINE p == Append(q, r)
           n == Len(q)
           g == [i \in 0 .. n + 1 |-> IF i <= n THEN f[i] ELSE f[n] + Displacement(r, w)]
<1>1. /\ n \in Nat /\ Len(p) = n + 1 /\ p[n + 1] = r
      /\ \A i \in 1 .. n : p[i] = q[i]
  OBVIOUS
<1>2. Displacement(r, w) \in Int
  BY DisplacementType DEF MaybeReport
<1>3. f \in [0 .. n -> Int] /\ f[0] = 0
      /\ \A i \in 1 .. n : f[i] = f[i - 1] + Displacement(q[i], w)
  BY DEF IsSums
<1> HIDE DEF n, p
<1>4. g \in [0 .. n + 1 -> Int] /\ g[0] = 0 /\ g[n + 1] = f[n] + Displacement(r, w)
  BY <1>1, <1>2, <1>3
<1>5. ASSUME NEW i \in 1 .. n + 1
      PROVE  g[i] = g[i - 1] + Displacement(p[i], w)
  <2>1. CASE i \in 1 .. n
    <3>1. i <= n /\ i - 1 <= n /\ i \in 0 .. n + 1 /\ i - 1 \in 0 .. n + 1
      BY <1>1, <2>1
    <3> QED
      BY <1>1, <1>3, <2>1, <3>1
  <2>2. CASE i = n + 1
    <3>1. i - 1 = n /\ n \in 0 .. n + 1 /\ ~ (n + 1 <= n) /\ n + 1 \in 0 .. n + 1
      BY <1>1, <2>2
    <3>2. g[n] = f[n] /\ g[n + 1] = f[n] + Displacement(r, w)
      BY <1>4, <3>1, <1>1
    <3> QED
      BY <1>1, <2>2, <3>1, <3>2
  <2> QED
    BY <1>1, <2>1, <2>2
<1> HIDE DEF g
<1>6. IsSums(g, p, w)
  BY <1>1, <1>4, <1>5 DEF IsSums
<1> QED
  BY <1>4, <1>6 DEF n, p

\* Every sequence has sums; by induction on its length.
LEMMA SumsExist ==
  ASSUME NEW q \in Seq(Report), NEW w
  PROVE  \E f : IsSums(f, q, w)
<1> DEFINE without == {n \in Nat : \E p \in Seq(Report) : Len(p) = n /\ ~ \E f : IsSums(f, p, w)}
<1> SUFFICES ASSUME without # {} PROVE FALSE
  <2>1. Len(q) \in Nat
    OBVIOUS
  <2> QED
    BY <2>1
<1>1. PICK n \in without : \A m \in without : n <= m
  BY LeastExists
<1>2. PICK p \in Seq(Report) : Len(p) = n /\ ~ \E f : IsSums(f, p, w)
  BY <1>1
<1>3. CASE n = 0
  <2> DEFINE f == [i \in 0 .. 0 |-> 0]
  <2>1. IsSums(f, p, w)
    BY <1>2, <1>3 DEF IsSums
  <2> QED
    BY <1>2, <2>1
<1>4. CASE n # 0
  <2> DEFINE front == SubSeq(p, 1, n - 1)
  <2>1. n \in Nat /\ n - 1 \in Nat /\ ~ (n <= n - 1)
    BY <1>1, <1>4
  <2>2. /\ front \in Seq(Report) /\ Len(front) = n - 1 /\ p[n] \in Report
        /\ p = Append(front, p[n])
    <3>1. /\ front \in Seq(Report) /\ Len(front) = n - 1 /\ p[n] \in Report
          /\ \A i \in 1 .. n - 1 : front[i] = p[i]
      BY <1>2, <2>1
    <3> HIDE DEF front
    <3>2. Append(front, p[n]) \in Seq(Report) /\ Len(Append(front, p[n])) = n
          /\ \A i \in 1 .. n : Append(front, p[n])[i] = p[i]
      BY <2>1, <3>1
    <3> QED
      BY <1>2, <3>1, <3>2, SeqEqual
  <2> HIDE DEF front
  <2>3. n - 1 \notin without
    BY <1>1, <2>1
  <2>4. PICK f : IsSums(f, front, w)
    BY <2>1, <2>2, <2>3
  <2>5. \E g : IsSums(g, Append(front, p[n]), w)
    BY <2>2, <2>4, SumsExtend
  <2> QED
    BY <1>2, <2>2, <2>5
<1> QED
  BY <1>3, <1>4

\* So Travel, which is defined by recursion, is the last of the sums.
LEMMA TravelIsSum ==
  ASSUME NEW q \in Seq(Report), NEW w, NEW f, IsSums(f, q, w)
  PROVE  Travel(q, w) = f[Len(q)] /\ Travel(q, w) \in Int
<1> DEFINE Fits(s) == s = [i \in 0 .. Len(q) |->
                             IF i = 0 THEN 0 ELSE s[i - 1] + Displacement(q[i], w)]
           sum == CHOOSE s : Fits(s)
<1>1. Len(q) \in Nat
  OBVIOUS
<1>2. Fits(f)
  <2>1. f = [i \in 0 .. Len(q) |-> f[i]]
    BY DEF IsSums
  <2>2. ASSUME NEW i \in 0 .. Len(q)
        PROVE  f[i] = IF i = 0 THEN 0 ELSE f[i - 1] + Displacement(q[i], w)
    <3>1. i # 0 => i \in 1 .. Len(q)
      BY <1>1
    <3> QED
      BY <3>1 DEF IsSums
  <2> QED
    BY <2>1, <2>2
<1>3. Fits(sum)
  <2> HIDE DEF Fits
  <2> QED
    BY <1>2
<1>4. Travel(q, w) = sum[Len(q)]
  BY DEF Travel
<1> HIDE DEF sum
<1>5. \A i \in 0 .. Len(q) : sum[i] = f[i]
  <2> DEFINE differ == {i \in 0 .. Len(q) : sum[i] # f[i]}
  <2> SUFFICES ASSUME differ # {} PROVE FALSE
    OBVIOUS
  <2>1. differ \in SUBSET Nat
    OBVIOUS
  <2>2. PICK i \in differ : \A j \in differ : i <= j
    BY <2>1, LeastExists
  <2>3. i \in 0 .. Len(q) /\ sum[i] # f[i] /\ i \in Nat
    BY <2>1, <2>2
  <2>4. sum[i] = (IF i = 0 THEN 0 ELSE sum[i - 1] + Displacement(q[i], w))
        /\ f[i] = (IF i = 0 THEN 0 ELSE f[i - 1] + Displacement(q[i], w))
    BY <1>2, <1>3, <2>3
  <2>5. i # 0
    BY <2>3, <2>4
  <2>6. i - 1 \in 0 .. Len(q) /\ ~ (i <= i - 1)
    BY <1>1, <2>3, <2>5
  <2>7. sum[i - 1] = f[i - 1]
    BY <2>2, <2>6
  <2> QED
    BY <2>3, <2>4, <2>5, <2>7
<1> QED
  BY <1>1, <1>4, <1>5 DEF IsSums

LEMMA TravelType ==
  ASSUME NEW q \in Seq(Report), NEW w
  PROVE  Travel(q, w) \in Int
BY SumsExist, TravelIsSum

LEMMA TravelOfNone ==
  ASSUME NEW w
  PROVE  Travel(<<>>, w) = 0
<1> DEFINE f == [i \in 0 .. 0 |-> 0]
<1>1. <<>> \in Seq(Report) /\ Len(<<>>) = 0
  OBVIOUS
<1>2. IsSums(f, <<>>, w)
  BY <1>1 DEF IsSums
<1> QED
  BY <1>1, <1>2, TravelIsSum

LEMMA TravelOfAppend ==
  ASSUME NEW q \in Seq(Report), NEW r \in Report, NEW w
  PROVE  Travel(Append(q, r), w) = Travel(q, w) + Displacement(r, w)
<1>1. PICK f : IsSums(f, q, w)
  BY SumsExist
<1>2. PICK g : /\ IsSums(g, Append(q, r), w)
               /\ g[Len(q) + 1] = f[Len(q)] + Displacement(r, w)
  BY <1>1, SumsExtend
<1>3. Append(q, r) \in Seq(Report) /\ Len(Append(q, r)) = Len(q) + 1
  OBVIOUS
<1> QED
  BY <1>1, <1>2, <1>3, TravelIsSum

LEMMA TravelOfTail ==
  ASSUME NEW q \in Seq(Report), q # <<>>, NEW w
  PROVE  Travel(q, w) = Displacement(Head(q), w) + Travel(Tail(q), w)
<1> DEFINE n == Len(q)
           p == Tail(q)
<1>1. /\ n \in Nat \ {0} /\ p \in Seq(Report) /\ Len(p) = n - 1 /\ Head(q) = q[1]
      /\ \A i \in 1 .. n - 1 : p[i] = q[i + 1]
  OBVIOUS
<1>2. PICK f : IsSums(f, q, w)
  BY SumsExist
<1> HIDE DEF n, p
<1>3. /\ f \in [0 .. n -> Int] /\ f[0] = 0
      /\ \A i \in 1 .. n : f[i] = f[i - 1] + Displacement(q[i], w)
  BY <1>2 DEF IsSums, n
<1> DEFINE g == [i \in 0 .. n - 1 |-> f[i + 1] - f[1]]
<1>4. ASSUME NEW i \in 0 .. n - 1
      PROVE  i + 1 \in 1 .. n /\ i + 1 \in 0 .. n /\ f[i + 1] \in Int /\ f[1] \in Int
  BY <1>1, <1>3
<1>5. g \in [0 .. n - 1 -> Int] /\ g[0] = 0
  BY <1>1, <1>4
<1>6. ASSUME NEW i \in 1 .. n - 1
      PROVE  g[i] = g[i - 1] + Displacement(p[i], w)
  <2>1. /\ i \in 0 .. n - 1 /\ i - 1 \in 0 .. n - 1 /\ i + 1 \in 1 .. n
        /\ (i - 1) + 1 = i /\ (i + 1) - 1 = i /\ i \in 0 .. n
    BY <1>1
  <2>2. g[i] = f[i + 1] - f[1] /\ g[i - 1] = f[i] - f[1]
    BY <2>1
  <2>3. f[i + 1] = f[i] + Displacement(q[i + 1], w)
    BY <1>3, <2>1
  <2>4. p[i] = q[i + 1] /\ q[i + 1] \in Report
    BY <1>1, <2>1 DEF n
  <2>5. f[i] \in Int /\ f[1] \in Int /\ Displacement(q[i + 1], w) \in Int
    <3>1. Displacement(q[i + 1], w) \in Int
      BY <2>4, DisplacementType DEF MaybeReport
    <3>2. 1 \in 0 .. n
      BY <1>1
    <3> QED
      BY <1>3, <2>1, <3>1, <3>2
  <2> HIDE DEF g
  <2> QED
    BY <2>2, <2>3, <2>4, <2>5
<1>7. g[n - 1] = f[n] - f[1]
  BY <1>1
<1> HIDE DEF g
<1>8. IsSums(g, p, w)
  BY <1>1, <1>5, <1>6 DEF IsSums
<1>9. Travel(p, w) = f[n] - f[1] /\ Travel(q, w) = f[n]
  BY <1>1, <1>2, <1>7, <1>8, TravelIsSum DEF n
<1>10. f[1] = Displacement(q[1], w) /\ f[1] \in Int /\ f[n] \in Int
  <2>1. 1 \in 1 .. n /\ 1 - 1 = 0 /\ 1 \in 0 .. n /\ n \in 0 .. n
    BY <1>1
  <2>2. f[1] = f[0] + Displacement(q[1], w)
    BY <1>3, <2>1
  <2>3. q[1] \in Report
    BY <1>1, <2>1 DEF n
  <2>4. Displacement(q[1], w) \in Int
    BY <2>3, DisplacementType DEF MaybeReport
  <2> QED
    BY <1>3, <2>1, <2>2, <2>4
<1> QED
  BY <1>1, <1>9, <1>10 DEF p

----------------------------------------------------------------------------
(* The type invariant.                                                     *)

WorkersTyped ==
    /\ link \in [Workers -> BOOLEAN]
    /\ device \in [Workers -> [Endpoint -> States \cup {Unknown}]]
    /\ coalescer \in [Workers -> [pending : [Endpoint -> MaybeReport], next : 0 .. 2]]
    /\ drain \in [Workers -> [pc : {"pop", "wait", "send"}, report : MaybeReport]]
    /\ \A w \in Workers : IsCoalescer(coalescer[w], w) /\ IsDrain(drain[w], w)
    /\ wake \in [Workers -> BOOLEAN]
    /\ owed \in [Workers -> Int]

UsbTyped ==
    /\ reports \in Seq(Report) /\ Len(reports) <= REPORT_CAP
    /\ writing \in MaybeReport
    /\ bus \in BOOLEAN
    /\ host \in [Endpoint -> [from : Workers \cup {Unknown}, state : States]]

LEMMA TypeParts == TypeOK <=> WorkersTyped /\ UsbTyped
BY DEF TypeOK, WorkersTyped, UsbTyped, IsCoalescer, IsDrain, MaybeReport

\* One worker's loop moves on.
LEMMA WorkerMoves ==
  ASSUME WorkersTyped, NEW w \in Workers,
         NEW c, IsCoalescer(c, w), coalescer' = [coalescer EXCEPT ![w] = c],
         NEW d, IsDrain(d, w), drain' = [drain EXCEPT ![w] = d],
         link' \in [Workers -> BOOLEAN], wake' \in [Workers -> BOOLEAN],
         device' \in [Workers -> [Endpoint -> States \cup {Unknown}]],
         owed' \in [Workers -> Int]
  PROVE  WorkersTyped'
<1>1. c \in [pending : [Endpoint -> MaybeReport], next : 0 .. 2]
      /\ d \in [pc : {"pop", "wait", "send"}, report : MaybeReport]
  BY DEF IsCoalescer, IsDrain
<1>2. /\ coalescer' \in [Workers -> [pending : [Endpoint -> MaybeReport], next : 0 .. 2]]
      /\ drain' \in [Workers -> [pc : {"pop", "wait", "send"}, report : MaybeReport]]
  BY <1>1 DEF WorkersTyped
<1>3. ASSUME NEW v \in Workers
      PROVE  IsCoalescer(coalescer'[v], v) /\ IsDrain(drain'[v], v)
  BY DEF WorkersTyped
<1> QED
  BY <1>2, <1>3 DEF WorkersTyped

LEMMA EmptyCoalescerType ==
  ASSUME NEW w
  PROVE  /\ IsCoalescer(EmptyCoalescer, w)
         /\ \A e \in Endpoint : EmptyCoalescer.pending[e] = NoReport
<1>1. EmptyCoalescer \in [pending : [Endpoint -> MaybeReport], next : 0 .. 2]
  BY DEF EmptyCoalescer, MaybeReport
<1>2. \A e \in Endpoint : EmptyCoalescer.pending[e] = NoReport
  BY DEF EmptyCoalescer
<1> QED
  BY <1>1, <1>2 DEF IsCoalescer

LEMMA DrainTypes ==
  ASSUME NEW w
  PROVE  /\ IsDrain(AtPop, w) /\ AtPop.report = NoReport /\ AtPop.pc = "pop"
         /\ IsDrain(AtWait, w) /\ AtWait.report = NoReport
         /\ \A r \in Report : r.from = w => IsDrain(AtSend(r), w) /\ AtSend(r).report = r
<1>1. IsDrain(AtPop, w) /\ AtPop.report = NoReport /\ AtPop.pc = "pop"
  BY DEF IsDrain, AtPop, MaybeReport
<1>2. IsDrain(AtWait, w) /\ AtWait.report = NoReport
  BY DEF IsDrain, AtWait, MaybeReport
<1>3. ASSUME NEW r \in Report, r.from = w
      PROVE  IsDrain(AtSend(r), w) /\ AtSend(r).report = r
  BY <1>3, ReportFields DEF IsDrain, AtSend, MaybeReport
<1> QED
  BY <1>1, <1>2, <1>3

LEMMA NothingHeldType ==
  /\ NothingHeld \in [Endpoint -> [from : Workers \cup {Unknown}, state : States]]
  /\ \A e \in Endpoint : NothingHeld[e].from = Unknown
BY StatesAssumption DEF NothingHeld

LEMMA PathInitially == Init => TypeOK
<1> SUFFICES ASSUME Init PROVE TypeOK
  OBVIOUS
<1>1. \A w \in Workers : IsCoalescer(coalescer[w], w) /\ IsDrain(drain[w], w)
  BY EmptyCoalescerType, DrainTypes DEF Init
<1>2. /\ coalescer \in [Workers -> [pending : [Endpoint -> MaybeReport], next : 0 .. 2]]
      /\ drain \in [Workers -> [pc : {"pop", "wait", "send"}, report : MaybeReport]]
  <2>1. EmptyCoalescer \in [pending : [Endpoint -> MaybeReport], next : 0 .. 2]
    BY EmptyCoalescerType DEF IsCoalescer
  <2>2. AtPop \in [pc : {"pop", "wait", "send"}, report : MaybeReport]
    BY DrainTypes DEF IsDrain
  <2> QED
    BY <2>1, <2>2 DEF Init
<1>3. WorkersTyped
  BY <1>1, <1>2 DEF Init, WorkersTyped, Silent
<1>4. <<>> \in Seq(Report) /\ Len(<<>>) <= REPORT_CAP
  BY ReportCapAssumption
<1>5. UsbTyped
  BY <1>4, NothingHeldType DEF Init, UsbTyped, MaybeReport
<1> QED
  BY <1>3, <1>5, TypeParts

LEMMA Notifications ==
  ASSUME TypeOK, NEW w \in Workers, Notifies(w)
  PROVE  \E r \in Report :
            /\ Notified(w, r) /\ owed' \in [Workers -> Int]
            /\ IF r.kind = "mouse"
                 THEN owed' = [owed EXCEPT ![w] = @ +
                        (saturating_add(Displacement(coalescer[w].pending["mouse"], w), r.delta)
                           - Displacement(coalescer[w].pending["mouse"], w))]
                 ELSE owed' = owed
<1>1. ASSUME NEW e \in Absolute, NEW st \in States, StateChanges(w, e, st)
      PROVE  \E r \in Report : Notified(w, r) /\ r.kind # "mouse" /\ owed' = owed
  <2> DEFINE r == [kind |-> e, from |-> w, state |-> st]
  <2>1. r \in Report /\ r.kind # "mouse"
    BY DEF Report, Absolute
  <2>2. Notified(w, r) /\ owed' = owed
    BY <1>1 DEF StateChanges
  <2> HIDE DEF r
  <2> QED
    BY <2>1, <2>2
<1>2. ASSUME NEW st \in States, NEW dl \in Deltas, MouseMoves(w, st, dl)
      PROVE  \E r \in Report :
                /\ Notified(w, r) /\ r.kind = "mouse" /\ owed' \in [Workers -> Int]
                /\ owed' = [owed EXCEPT ![w] = @ +
                        (saturating_add(Displacement(coalescer[w].pending["mouse"], w), r.delta)
                           - Displacement(coalescer[w].pending["mouse"], w))]
  <2> DEFINE r == [kind |-> "mouse", from |-> w, state |-> st, delta |-> dl]
             waiting == Displacement(coalescer[w].pending["mouse"], w)
  <2>1. r \in Report /\ r.kind = "mouse" /\ r.delta = dl /\ dl \in DeltaMin .. DeltaMax
    BY DeltasAssumption DEF Report
  <2>2. Notified(w, r) /\ owed' = [owed EXCEPT ![w] = @ + (saturating_add(waiting, dl) - waiting)]
    BY <1>2 DEF MouseMoves
  <2>3. waiting \in Int
    <3>1. coalescer[w].pending["mouse"] \in MaybeReport
      BY DEF TypeOK, MaybeReport, Endpoint
    <3> QED
      BY <3>1, DisplacementType
  <2>4. saturating_add(waiting, dl) \in Int
    BY <2>1, <2>3, DeltasAssumption DEF saturating_add
  <2> HIDE DEF waiting, r
  <2>5. owed' \in [Workers -> Int]
    BY <2>2, <2>3, <2>4 DEF TypeOK
  <2> QED
    BY <2>1, <2>2, <2>5 DEF waiting
<1>3. owed \in [Workers -> Int]
  BY DEF TypeOK
<1> QED
  BY <1>1, <1>2, <1>3 DEF Notifies

LEMMA OnLinkType ==
  ASSUME TypeOK, NEW w \in Workers
  PROVE  /\ Displacement(drain[w].report, w) \in Int
         /\ Displacement(coalescer[w].pending["mouse"], w) \in Int
         /\ OnLink(w) \in Int
<1>1. drain[w].report \in MaybeReport /\ coalescer[w].pending["mouse"] \in MaybeReport
  BY DEF TypeOK, MaybeReport, Endpoint
<1> QED
  BY <1>1, DisplacementType DEF OnLink

LEMMA PathTypeStep == TypeOK /\ [Next]_vars => TypeOK'
<1> SUFFICES ASSUME TypeOK, [Next]_vars PROVE WorkersTyped' /\ UsbTyped'
  BY TypeParts, PTL
<1>1. WorkersTyped /\ UsbTyped
  BY TypeParts
<1>2. \A w \in Workers : /\ coalescer = [coalescer EXCEPT ![w] = coalescer[w]]
                         /\ drain = [drain EXCEPT ![w] = drain[w]]
                         /\ IsCoalescer(coalescer[w], w) /\ IsDrain(drain[w], w)
  BY <1>1 DEF WorkersTyped
<1>3. ASSUME UNCHANGED usbVars PROVE UsbTyped'
  BY <1>1, <1>3 DEF UsbTyped, usbVars
<1>4. ASSUME UNCHANGED <<link, device, coalescer, drain, wake, owed>> PROVE WorkersTyped'
  BY <1>1, <1>4 DEF WorkersTyped
<1>5. ASSUME NEW w \in Workers, LinkStarts(w) PROVE WorkersTyped' /\ UsbTyped'
  <2>1. /\ link' \in [Workers -> BOOLEAN] /\ wake' = wake /\ owed' = owed
        /\ device' \in [Workers -> [Endpoint -> States \cup {Unknown}]]
        /\ coalescer' = coalescer /\ drain' = drain
    BY <1>1, <1>5 DEF LinkStarts, WorkersTyped, Silent
  <2> QED
    BY <1>1, <1>3, <1>5, <2>1 DEF LinkStarts, WorkersTyped
<1>6. ASSUME NEW w \in Workers, LinkEnds(w) PROVE WorkersTyped' /\ UsbTyped'
  <2>1. /\ link' \in [Workers -> BOOLEAN] /\ wake' \in [Workers -> BOOLEAN] /\ device' = device
        /\ coalescer' = [coalescer EXCEPT ![w] = EmptyCoalescer]
        /\ drain' = [drain EXCEPT ![w] = AtPop]
    BY <1>1, <1>6 DEF LinkEnds, WorkersTyped
  <2>2. owed' \in [Workers -> Int]
    BY <1>1, <1>6, OnLinkType DEF LinkEnds, WorkersTyped
  <2>3. WorkersTyped'
    BY <1>1, <2>1, <2>2, WorkerMoves, EmptyCoalescerType, DrainTypes DEF WorkersTyped
  <2> QED
    BY <1>3, <1>6, <2>3 DEF LinkEnds
<1>7. ASSUME NEW w \in Workers, Notifies(w) PROVE WorkersTyped' /\ UsbTyped'
  <2>1. PICK r \in Report : Notified(w, r) /\ owed' \in [Workers -> Int]
    BY <1>7, Notifications
  <2>2. /\ r.from = w /\ r.kind \in Endpoint /\ r.state \in States
        /\ IsCoalescer(push(coalescer[w], r), w)
    BY <1>2, <2>1, Pushes, ReportFields DEF Notified
  <2>3. /\ link' = link /\ wake' \in [Workers -> BOOLEAN]
        /\ coalescer' = [coalescer EXCEPT ![w] = push(coalescer[w], r)]
        /\ drain' = drain
    BY <1>1, <2>1 DEF Notified, WorkersTyped
  <2>4. device' \in [Workers -> [Endpoint -> States \cup {Unknown}]]
    <3>1. device' = [device EXCEPT ![w] = [device[w] EXCEPT ![r.kind] = r.state]]
      BY <2>1 DEF Notified
    <3>2. [device[w] EXCEPT ![r.kind] = r.state] \in [Endpoint -> States \cup {Unknown}]
      BY <1>1, <2>2 DEF WorkersTyped
    <3> QED
      BY <1>1, <3>1, <3>2 DEF WorkersTyped
  <2>5. WorkersTyped'
    BY <1>1, <1>2, <2>1, <2>2, <2>3, <2>4, WorkerMoves DEF WorkersTyped
  <2> QED
    BY <1>3, <2>1, <2>5 DEF Notified
<1>8. ASSUME NEW w \in Workers, Pops(w) PROVE WorkersTyped' /\ UsbTyped'
  <2> DEFINE c == coalescer[w]
             r == c.pending[Popped(c)]
  <2>1. /\ HasPending(c) /\ drain' = [drain EXCEPT ![w] = AtSend(r)]
        /\ coalescer' = [coalescer EXCEPT ![w] = pop(c)]
        /\ link' = link /\ device' = device /\ wake' = wake /\ owed' = owed
        /\ UNCHANGED usbVars
    BY <1>8 DEF Pops
  <2>2. IsCoalescer(pop(c), w)
    BY <1>2, <2>1, PopTakes
  <2>3. r \in Report /\ r.from = w
    <3>1. Popped(c) \in Endpoint /\ r # NoReport
      BY <1>2, <2>1, PopFinds
    <3> QED
      BY <1>2, <3>1 DEF IsCoalescer, MaybeReport
  <2>4. IsDrain(AtSend(r), w)
    BY <2>3, DrainTypes
  <2> HIDE DEF c, r
  <2>5. WorkersTyped'
    BY <1>1, <2>1, <2>2, <2>4, WorkerMoves DEF WorkersTyped
  <2> QED
    BY <1>3, <2>1, <2>5
<1>9. ASSUME NEW w \in Workers, FindsNothing(w) \/ Wakes(w) PROVE WorkersTyped' /\ UsbTyped'
  <2>1. /\ drain' = [drain EXCEPT ![w] = AtWait] \/ drain' = [drain EXCEPT ![w] = AtPop]
        /\ coalescer' = coalescer
        /\ link' = link /\ device' = device /\ owed' = owed
        /\ UNCHANGED usbVars
    BY <1>9 DEF FindsNothing, Wakes
  <2>2. wake' \in [Workers -> BOOLEAN]
    BY <1>1, <1>9 DEF FindsNothing, Wakes, WorkersTyped
  <2>3. WorkersTyped'
    BY <1>1, <1>2, <2>1, <2>2, WorkerMoves, DrainTypes DEF WorkersTyped
  <2> QED
    BY <1>3, <2>1, <2>3
<1>10. ASSUME NEW w \in Workers, Sends(w) PROVE WorkersTyped' /\ UsbTyped'
  <2>1. /\ drain' = [drain EXCEPT ![w] = AtPop] /\ coalescer' = coalescer
        /\ link' = link /\ device' = device /\ owed' = owed /\ wake' = wake
    BY <1>10 DEF Sends
  <2>2. WorkersTyped'
    BY <1>1, <1>2, <2>1, WorkerMoves, DrainTypes DEF WorkersTyped
  <2>3. drain[w].report \in Report
    BY <1>2, <1>10 DEF Sends, IsDrain, MaybeReport
  <2>4. reports' \in Seq(Report) /\ Len(reports') <= REPORT_CAP
    BY <1>1, <1>10, <2>3, ReportCapAssumption DEF Sends, UsbTyped
  <2> QED
    BY <1>1, <1>10, <2>2, <2>4 DEF Sends, UsbTyped
<1>11. ASSUME WriterTakes PROVE WorkersTyped' /\ UsbTyped'
  <2>1. /\ reports' \in Seq(Report) /\ Len(reports') <= REPORT_CAP /\ writing' \in MaybeReport
    BY <1>1, <1>11, ReportCapAssumption DEF WriterTakes, UsbTyped, MaybeReport
  <2> QED
    BY <1>1, <1>4, <1>11, <2>1 DEF WriterTakes, UsbTyped
<1>12. ASSUME WriterWrites PROVE WorkersTyped' /\ UsbTyped'
  <2>1. writing \in Report
    BY <1>1, <1>12 DEF WriterWrites, UsbTyped, MaybeReport
  <2>2. host' \in [Endpoint -> [from : Workers \cup {Unknown}, state : States]]
    BY <1>1, <1>12, <2>1, ReportFields DEF WriterWrites, UsbTyped
  <2>3. owed' \in [Workers -> Int]
    BY <1>1, <1>12, <2>1, ReportFields DEF WriterWrites, WorkersTyped
  <2>4. WorkersTyped'
    BY <1>1, <1>12, <2>3 DEF WriterWrites, WorkersTyped
  <2> QED
    BY <1>1, <1>12, <2>2, <2>4 DEF WriterWrites, UsbTyped, MaybeReport
<1>13. ASSUME BusDrops \/ BusReturns PROVE WorkersTyped' /\ UsbTyped'
  BY <1>1, <1>4, <1>13, NothingHeldType DEF BusDrops, BusReturns, UsbTyped
<1>14. CASE UNCHANGED vars
  BY <1>3, <1>4, <1>14 DEF vars, usbVars
<1> QED
  BY <1>5, <1>6, <1>7, <1>8, <1>9, <1>10, <1>11, <1>12, <1>13, <1>14 DEF Next, Drains

\* What is pending, sent, queued and written keeps its type, and the channel
\* its capacity.
THEOREM PathTypeCorrect == Spec => []TypeOK
BY PathInitially, PathTypeStep, PTL DEF Spec

\* pop hands the report r, the oldest of its endpoint, to the drain future.
PopsReport(w, r) ==
    /\ r.from = w /\ coalescer[w].pending[r.kind] = r
    /\ drain[w].report = NoReport /\ drain'[w].report = r
    /\ \A e \in Endpoint : coalescer'[w].pending[e] =
          IF e = r.kind THEN NoReport ELSE coalescer[w].pending[e]
    /\ \A v \in Workers \ {w} : drain'[v] = drain[v] /\ coalescer'[v] = coalescer[v]
    /\ UNCHANGED <<link, device, usbVars, owed>>

LEMMA PopMoves ==
  ASSUME TypeOK, NEW w \in Workers, Pops(w)
  PROVE  \E r \in Report : PopsReport(w, r)
<1> DEFINE c == coalescer[w]
           r == c.pending[Popped(c)]
<1>1. /\ IsCoalescer(c, w) /\ IsDrain(drain[w], w)
      /\ DOMAIN coalescer = Workers /\ DOMAIN drain = Workers
  BY TypeParts DEF WorkersTyped
<1>2. /\ HasPending(c) /\ drain[w].pc = "pop"
      /\ drain' = [drain EXCEPT ![w] = AtSend(r)]
      /\ coalescer' = [coalescer EXCEPT ![w] = pop(c)]
      /\ UNCHANGED <<link, device, usbVars, owed>>
  BY DEF Pops
<1>3. Popped(c) \in Endpoint /\ r # NoReport
  BY <1>1, <1>2, PopFinds
<1>4. pop(c).pending = [c.pending EXCEPT ![Popped(c)] = NoReport]
  BY <1>1, <1>2, PopTakes
<1>5. r \in Report /\ r.kind = Popped(c) /\ r.from = w
  BY <1>1, <1>3 DEF IsCoalescer, MaybeReport
<1>6. \A e \in Endpoint : pop(c).pending[e] = IF e = r.kind THEN NoReport ELSE c.pending[e]
  BY <1>1, <1>4, <1>5 DEF IsCoalescer
<1>7. drain[w].report = NoReport
  BY <1>1, <1>2 DEF IsDrain
<1>8. AtSend(r).report = r
  BY DEF AtSend
<1>9. c.pending[r.kind] = r
  BY <1>5
<1> HIDE DEF r
<1>10. PopsReport(w, r)
  BY <1>1, <1>2, <1>5, <1>6, <1>7, <1>8, <1>9 DEF PopsReport
<1> QED
  BY <1>5, <1>10

----------------------------------------------------------------------------
(* Travel.                                                                 *)

Owes(w) == Displacement(writing, w) + Travel(reports, w) + OnLink(w) = owed[w]

LEMMA OwesTypes ==
  ASSUME TypeOK, NEW w \in Workers
  PROVE  Displacement(writing, w) \in Int /\ Travel(reports, w) \in Int
         /\ OnLink(w) \in Int /\ owed[w] \in Int
<1>1. writing \in MaybeReport /\ reports \in Seq(Report) /\ owed[w] \in Int
  BY DEF TypeOK, MaybeReport
<1> QED
  BY <1>1, OnLinkType, TravelType, DisplacementType

LEMMA TravelInitially == Init => TravelIsPreserved
<1> SUFFICES ASSUME Init, NEW w \in Workers PROVE Owes(w)
  BY DEF TravelIsPreserved, Owes
<1>1. Displacement(NoReport, w) = 0
  BY NoReportKind DEF Displacement
<1>2. writing = NoReport /\ reports = <<>> /\ owed[w] = 0
      /\ drain[w].report = NoReport /\ coalescer[w].pending["mouse"] = NoReport
  BY EmptyCoalescerType, DrainTypes DEF Init, Endpoint
<1>3. OnLink(w) = 0
  BY <1>1, <1>2 DEF OnLink
<1> QED
  BY <1>1, <1>2, <1>3, TravelOfNone DEF Owes

LEMMA TravelStep ==
  ASSUME TypeOK, TypeOK', TravelIsPreserved, [Next]_vars
  PROVE  TravelIsPreserved'
<1> SUFFICES ASSUME NEW v \in Workers PROVE Owes(v)'
  BY DEF TravelIsPreserved, Owes
<1> DEFINE D(r) == Displacement(r, v)
           sent == D(drain[v].report)
           pending == D(coalescer[v].pending["mouse"])
<1>1. D(writing) + Travel(reports, v) + (sent + pending) = owed[v]
  BY DEF TravelIsPreserved, OnLink
<1>2. /\ D(writing) \in Int /\ Travel(reports, v) \in Int /\ owed[v] \in Int
      /\ sent \in Int /\ pending \in Int
  BY OwesTypes, OnLinkType
<1>3. D(NoReport) = 0 /\ \A r : r.kind # "mouse" \/ r.from # v => D(r) = 0
  BY NoReportKind DEF Displacement
<1>4. /\ \A w \in Workers : IsCoalescer(coalescer[w], w) /\ IsDrain(drain[w], w)
      /\ DOMAIN coalescer = Workers /\ DOMAIN drain = Workers
      /\ reports \in Seq(Report) /\ writing \in MaybeReport /\ owed \in [Workers -> Int]
  BY TypeParts DEF WorkersTyped, UsbTyped
<1>5. ASSUME D(writing') + Travel(reports', v)
               + (D(drain'[v].report) + D(coalescer'[v].pending["mouse"])) = owed'[v]
      PROVE  Owes(v)'
  BY <1>5 DEF Owes, OnLink
<1> HIDE DEF D
<1>6. ASSUME UNCHANGED <<writing, reports>>, owed'[v] = owed[v], drain'[v] = drain[v],
             coalescer'[v] = coalescer[v]
      PROVE  Owes(v)'
  BY <1>1, <1>5, <1>6 DEF D
<1>7. ASSUME NEW w \in Workers, LinkStarts(w) PROVE Owes(v)'
  BY <1>6, <1>7 DEF LinkStarts, usbVars
<1>8. ASSUME NEW w \in Workers, LinkEnds(w) PROVE Owes(v)'
  <2>1. /\ coalescer' = [coalescer EXCEPT ![w] = EmptyCoalescer]
        /\ drain' = [drain EXCEPT ![w] = AtPop]
        /\ owed' = [owed EXCEPT ![w] = @ - OnLink(w)]
        /\ UNCHANGED <<writing, reports>>
    BY <1>8 DEF LinkEnds, usbVars
  <2>2. CASE v = w
    <3>1. drain'[v].report = NoReport /\ coalescer'[v].pending["mouse"] = NoReport
      BY <1>4, <2>1, <2>2, EmptyCoalescerType, DrainTypes DEF Endpoint
    <3>2. owed'[v] = owed[v] - (sent + pending)
      BY <1>4, <2>1, <2>2 DEF OnLink, D
    <3>3. D(writing') = D(writing) /\ Travel(reports', v) = Travel(reports, v)
      BY <2>1
    <3> QED
      BY <1>1, <1>2, <1>3, <1>5, <3>1, <3>2, <3>3
  <2>3. CASE v # w
    BY <1>4, <1>6, <2>1, <2>3
  <2> QED
    BY <2>2, <2>3
<1>9. ASSUME NEW w \in Workers, Notifies(w) PROVE Owes(v)'
  <2>1. PICK r \in Report :
            /\ Notified(w, r)
            /\ IF r.kind = "mouse"
                 THEN owed' = [owed EXCEPT ![w] = @ +
                        (saturating_add(Displacement(coalescer[w].pending["mouse"], w), r.delta)
                           - Displacement(coalescer[w].pending["mouse"], w))]
                 ELSE owed' = owed
    BY <1>9, Notifications
  <2>2. /\ coalescer' = [coalescer EXCEPT ![w] = push(coalescer[w], r)]
        /\ r.from = w /\ UNCHANGED <<drain, writing, reports>>
    BY <2>1 DEF Notified, usbVars
  <2>3. CASE v # w
    BY <1>4, <1>6, <2>1, <2>2, <2>3
  <2>4. CASE v = w /\ r.kind # "mouse"
    <3>1. push(coalescer[w], r).pending["mouse"] = coalescer[w].pending["mouse"]
      BY <1>4, <2>2, <2>4, Pushes DEF Endpoint
    <3>2. D(coalescer'[v].pending["mouse"]) = pending
      BY <1>4, <2>2, <2>4, <3>1
    <3>3. /\ D(writing') = D(writing) /\ Travel(reports', v) = Travel(reports, v)
          /\ D(drain'[v].report) = sent /\ owed'[v] = owed[v]
      BY <2>1, <2>2, <2>4
    <3> QED
      BY <1>1, <1>5, <3>2, <3>3
  <2>5. CASE v = w /\ r.kind = "mouse"
    <3>1. D(push(coalescer[w], r).pending["mouse"]) = saturating_add(pending, r.delta)
      BY <1>4, <2>2, <2>5, Pushes DEF D
    <3>2. D(coalescer'[v].pending["mouse"]) = saturating_add(pending, r.delta)
      BY <1>4, <2>2, <2>5, <3>1
    <3>3. /\ D(writing') = D(writing) /\ Travel(reports', v) = Travel(reports, v)
          /\ D(drain'[v].report) = sent
      BY <2>2
    <3>4. owed'[v] = owed[v] + (saturating_add(pending, r.delta) - pending)
      BY <1>4, <2>1, <2>5 DEF D
    <3>5. saturating_add(pending, r.delta) \in Int
      BY <1>2, <2>5, ReportFields, DeltasAssumption DEF saturating_add
    <3> QED
      BY <1>1, <1>2, <1>5, <3>2, <3>3, <3>4, <3>5
  <2> QED
    BY <2>3, <2>4, <2>5
<1>10. ASSUME NEW w \in Workers, Pops(w) PROVE Owes(v)'
  <2>1. PICK r \in Report : PopsReport(w, r)
    BY <1>10, PopMoves
  <2> USE DEF PopsReport
  <2>2. CASE v # w
    BY <1>6, <2>1, <2>2 DEF usbVars
  <2>3. CASE v = w
    <3>1. /\ D(writing') = D(writing) /\ Travel(reports', v) = Travel(reports, v)
          /\ owed'[v] = owed[v] /\ sent = 0 /\ D(drain'[v].report) = D(r)
      BY <1>3, <2>1, <2>3 DEF usbVars
    <3>2. D(r) + D(coalescer'[v].pending["mouse"]) = pending
      <4>1. CASE r.kind = "mouse"
        <5>1. coalescer'[v].pending["mouse"] = NoReport /\ D(r) = pending
          BY <2>1, <2>3, <4>1 DEF Endpoint
        <5> QED
          BY <1>2, <1>3, <5>1
      <4>2. CASE r.kind # "mouse"
        <5>1. coalescer'[v].pending["mouse"] = coalescer[v].pending["mouse"] /\ D(r) = 0
          BY <1>3, <2>1, <2>3, <4>2 DEF Endpoint
        <5> QED
          BY <1>2, <5>1
      <4> QED
        BY <4>1, <4>2
    <3> QED
      BY <1>1, <1>2, <1>5, <3>1, <3>2
  <2> QED
    BY <2>2, <2>3
<1>11. ASSUME NEW w \in Workers, FindsNothing(w) \/ Wakes(w) PROVE Owes(v)'
  <2>1. /\ drain' = [drain EXCEPT ![w] = AtWait] \/ drain' = [drain EXCEPT ![w] = AtPop]
        /\ drain[w].pc # "send"
        /\ UNCHANGED <<coalescer, writing, reports, owed>>
    BY <1>11 DEF FindsNothing, Wakes, usbVars
  <2>2. drain[w].report = NoReport /\ drain'[w].report = NoReport
    BY <1>4, <2>1, DrainTypes DEF IsDrain
  <2>3. drain'[v].report = drain[v].report
    BY <1>4, <2>1, <2>2
  <2> QED
    BY <1>1, <1>5, <2>1, <2>3
<1>12. ASSUME NEW w \in Workers, Sends(w) PROVE Owes(v)'
  <2> DEFINE r == drain[w].report
  <2>1. /\ drain[w].pc = "send" /\ drain' = [drain EXCEPT ![w] = AtPop]
        /\ reports' = Append(reports, r)
        /\ UNCHANGED <<coalescer, writing, owed>>
    BY <1>12 DEF Sends
  <2>2. r \in Report /\ r.from = w
    BY <1>4, <2>1 DEF IsDrain, MaybeReport
  <2>3. Travel(reports', v) = Travel(reports, v) + D(r)
    BY <1>4, <2>1, <2>2, TravelOfAppend DEF D
  <2>4. CASE v = w
    <3>1. drain'[v].report = NoReport /\ D(r) = sent
      BY <1>4, <2>1, <2>4, DrainTypes
    <3> QED
      BY <1>1, <1>2, <1>3, <1>5, <2>1, <2>3, <3>1
  <2>5. CASE v # w
    <3>1. drain'[v] = drain[v] /\ D(r) = 0
      BY <1>3, <1>4, <2>1, <2>2, <2>5
    <3> QED
      BY <1>1, <1>2, <1>5, <2>1, <2>3, <3>1
  <2> QED
    BY <2>4, <2>5
<1>13. ASSUME WriterTakes PROVE Owes(v)'
  <2>1. /\ writing = NoReport /\ reports # <<>>
        /\ writing' = Head(reports) /\ reports' = Tail(reports)
        /\ UNCHANGED <<coalescer, drain, owed>>
    BY <1>13 DEF WriterTakes
  <2>2. Travel(reports, v) = D(writing') + Travel(reports', v)
    BY <1>4, <2>1, TravelOfTail DEF D
  <2>3. Head(reports) \in Report /\ Tail(reports) \in Seq(Report)
    BY <1>4, <2>1
  <2>4. D(writing') \in Int /\ Travel(reports', v) \in Int
    BY <2>1, <2>3, TravelType, DisplacementType DEF MaybeReport, D
  <2> QED
    BY <1>1, <1>2, <1>3, <1>5, <2>1, <2>2, <2>4
<1>14. ASSUME WriterWrites PROVE Owes(v)'
  <2>1. /\ writing # NoReport /\ writing' = NoReport
        /\ owed' = IF writing.kind = "mouse"
                     THEN [owed EXCEPT ![writing.from] = @ - writing.delta] ELSE owed
        /\ UNCHANGED <<coalescer, drain, reports>>
    BY <1>14 DEF WriterWrites
  <2>2. writing \in Report
    BY <1>4, <2>1 DEF MaybeReport
  <2>3. owed'[v] = owed[v] - D(writing)
    BY <1>2, <1>4, <2>1, <2>2, ReportFields DEF D, Displacement
  <2> QED
    BY <1>1, <1>2, <1>3, <1>5, <2>1, <2>3
<1>15. ASSUME BusDrops \/ BusReturns PROVE Owes(v)'
  BY <1>6, <1>15 DEF BusDrops, BusReturns
<1>16. CASE UNCHANGED vars
  BY <1>6, <1>16 DEF vars
<1> QED
  BY <1>7, <1>8, <1>9, <1>10, <1>11, <1>12, <1>13, <1>14, <1>15, <1>16 DEF Next, Drains

\* Whatever is merged, sent, dropped with a link or written, the displacements
\* under way add up to what the mouse moved and the host was not sent
\* (coalesce.rs:23-25), through a channel of any capacity.
THEOREM TravelIsKept == Spec => []TravelIsPreserved
BY PathInitially, PathTypeStep, TravelInitially, TravelStep, PTL DEF Spec

----------------------------------------------------------------------------
(* The resting state.                                                      *)

\* r is a report of w at endpoint e.
Of(r, w, e) == r.kind = e /\ r.from = w

\* The queue holds a report of w at e; the last one has the state st.
Holds(queue, w, e) == \E i \in DOMAIN queue : Of(queue[i], w, e)

LastHas(st, queue, w, e) ==
    \E i \in DOMAIN queue :
        /\ Of(queue[i], w, e) /\ queue[i].state = st
        /\ \A j \in DOMAIN queue : Of(queue[j], w, e) => j <= i

\* The state st is that of the newest report of w at e on the way, or the
\* host has it, or another peripheral's.
NewestHas(st, pending, sent, queue, written, believed, w, e) ==
    IF Of(pending, w, e) THEN pending.state = st
    ELSE IF Of(sent, w, e) THEN sent.state = st
    ELSE IF Holds(queue, w, e) THEN LastHas(st, queue, w, e)
    ELSE IF Of(written, w, e) THEN written.state = st
    ELSE believed.from = w => believed.state = st

Rested(w, e) ==
    link[w] /\ device[w][e] # Unknown =>
        NewestHas(device[w][e], coalescer[w].pending[e], drain[w].report, reports, writing,
                  host[e], w, e)

RestInv ==
    /\ \A w \in Workers, e \in Endpoint : Rested(w, e)
    /\ ~bus => host = NothingHeld

\* The places of the pipeline.
LEMMA Places ==
  ASSUME TypeOK, NEW w \in Workers, NEW e \in Endpoint
  PROVE  /\ DOMAIN Pipeline(w, e) = 1 .. Len(reports) + 3 /\ Len(reports) \in Nat
         /\ Pipeline(w, e)[1] = writing
         /\ \A i \in 1 .. Len(reports) : Pipeline(w, e)[i + 1] = reports[i]
         /\ Pipeline(w, e)[Len(reports) + 2] = drain[w].report
         /\ Pipeline(w, e)[Len(reports) + 3] = coalescer[w].pending[e]
<1> DEFINE front == <<writing>> \o reports
           back == <<drain[w].report, coalescer[w].pending[e]>>
           n == Len(reports)
<1>1. /\ reports \in Seq(MaybeReport) /\ writing \in MaybeReport /\ n \in Nat
      /\ drain[w].report \in MaybeReport /\ coalescer[w].pending[e] \in MaybeReport
  BY TypeParts DEF UsbTyped, WorkersTyped, IsDrain, IsCoalescer, MaybeReport
<1>2. /\ <<writing>> \in Seq(MaybeReport) /\ Len(<<writing>>) = 1 /\ <<writing>>[1] = writing
  BY <1>1
<1>3. /\ front \in Seq(MaybeReport) /\ Len(front) = n + 1 /\ front[1] = writing
      /\ \A i \in 1 .. n : front[i + 1] = reports[i]
  BY <1>1, <1>2
<1>4. /\ back \in Seq(MaybeReport) /\ Len(back) = 2
      /\ back[1] = drain[w].report /\ back[2] = coalescer[w].pending[e]
  BY <1>1
<1>5. Pipeline(w, e) = front \o back
  BY DEF Pipeline
<1> HIDE DEF front, back, n
<1>6. /\ front \o back \in Seq(MaybeReport) /\ Len(front \o back) = n + 3
      /\ \A i \in 1 .. n + 1 : (front \o back)[i] = front[i]
      /\ (front \o back)[n + 2] = back[1] /\ (front \o back)[n + 3] = back[2]
  <2>1. /\ front \o back \in Seq(MaybeReport) /\ Len(front \o back) = (n + 1) + 2
        /\ \A i \in 1 .. (n + 1) + 2 :
              (front \o back)[i] = IF i <= n + 1 THEN front[i] ELSE back[i - (n + 1)]
    <3>1. /\ front \o back \in Seq(MaybeReport)
          /\ Len(front \o back) = Len(front) + Len(back)
          /\ \A i \in 1 .. Len(front) + Len(back) :
                (front \o back)[i] =
                  IF i <= Len(front) THEN front[i] ELSE back[i - Len(front)]
      BY ONLY <1>3, <1>4, ConcatProperties
    <3>2. Len(front) = n + 1 /\ Len(back) = 2
      BY <1>3, <1>4
    <3> QED
      BY ONLY <3>1, <3>2, Zenon
  <2>2. /\ (n + 1) + 2 = n + 3 /\ ~ (n + 2 <= n + 1) /\ ~ (n + 3 <= n + 1)
        /\ n + 2 \in 1 .. (n + 1) + 2 /\ n + 3 \in 1 .. (n + 1) + 2
        /\ (n + 2) - (n + 1) = 1 /\ (n + 3) - (n + 1) = 2
        /\ \A i \in 1 .. n + 1 : i \in 1 .. (n + 1) + 2 /\ i <= n + 1
    BY <1>1
  <2> QED
    BY <2>1, <2>2
<1>7. DOMAIN (front \o back) = 1 .. n + 3
  BY <1>6
<1>8. \A i \in 1 .. n : i + 1 \in 1 .. n + 1
  BY <1>1
<1> QED
  BY <1>1, <1>3, <1>4, <1>5, <1>6, <1>7, <1>8 DEF n

LEMMA RestedSuffices == TypeOK /\ RestInv => RestingStateIsLast
<1> SUFFICES ASSUME TypeOK, RestInv, NEW w \in Workers, NEW e \in Endpoint,
                    link[w], device[w][e] # Unknown
             PROVE  IF UnderWay(w, e) = {}
                      THEN host[e].from = w => host[e].state = device[w][e]
                      ELSE \E i \in UnderWay(w, e) :
                              /\ \A j \in UnderWay(w, e) : j <= i
                              /\ Pipeline(w, e)[i].state = device[w][e]
  BY DEF RestingStateIsLast
<1> DEFINE p == Pipeline(w, e)
           n == Len(reports)
           st == device[w][e]
           here == UnderWay(w, e)
<1>1. /\ DOMAIN p = 1 .. n + 3 /\ n \in Nat
      /\ p[1] = writing
      /\ \A i \in 1 .. n : p[i + 1] = reports[i]
      /\ p[n + 2] = drain[w].report /\ p[n + 3] = coalescer[w].pending[e]
  BY Places
<1>2. NewestHas(st, p[n + 3], p[n + 2], reports, p[1], host[e], w, e)
  BY <1>1 DEF RestInv, Rested
<1>3. here = {i \in 1 .. n + 3 : Of(p[i], w, e)}
  BY <1>1 DEF UnderWay, Of
<1>4. DOMAIN reports = 1 .. n
  BY DEF TypeOK
<1> HIDE DEF p, n, st, here
<1>5. \A i \in here : i \in 1 .. n + 3
  BY <1>3
<1> DEFINE Ends(i) == i \in here /\ (\A j \in here : j <= i) /\ p[i].state = st
<1>6. CASE Of(p[n + 3], w, e)
  <2>1. Ends(n + 3)
    BY <1>1, <1>2, <1>3, <1>6 DEF NewestHas, Holds, LastHas
  <2> QED
    BY <2>1 DEF here, p, st
<1>7. CASE ~ Of(p[n + 3], w, e) /\ Of(p[n + 2], w, e)
  <2>1. \A j \in here : j # n + 3
    BY <1>3, <1>7
  <2>2. Ends(n + 2)
    BY <1>1, <1>2, <1>3, <1>7, <2>1 DEF NewestHas, Holds, LastHas
  <2> QED
    BY <2>2 DEF here, p, st
<1>8. CASE ~ Of(p[n + 3], w, e) /\ ~ Of(p[n + 2], w, e)
  <2>1. \A j \in here : j = 1 \/ \E k \in 1 .. n : j = k + 1 /\ Of(reports[k], w, e)
    <3> SUFFICES ASSUME NEW j \in here, j # 1
                 PROVE  \E k \in 1 .. n : j = k + 1 /\ Of(reports[k], w, e)
      OBVIOUS
    <3>1. j \in 1 .. n + 3 /\ Of(p[j], w, e) /\ j # n + 3 /\ j # n + 2
      BY <1>3, <1>8
    <3>2. j - 1 \in 1 .. n /\ j = (j - 1) + 1
      BY <1>1, <3>1
    <3> QED
      BY <1>1, <3>1, <3>2
  <2>2. \A k \in 1 .. n : k + 1 \in here <=> Of(reports[k], w, e)
    BY <1>1, <1>3
  <2>3. 1 \in here <=> Of(p[1], w, e)
    BY <1>1, <1>3
  <2>4. CASE \E k \in 1 .. n : Of(reports[k], w, e)
    <3>1. PICK k \in 1 .. n : /\ Of(reports[k], w, e) /\ reports[k].state = st
                              /\ \A j \in 1 .. n : Of(reports[j], w, e) => j <= k
      BY <1>2, <1>4, <1>8, <2>4 DEF NewestHas, Holds, LastHas
    <3>2. k + 1 \in here /\ p[k + 1].state = st
      BY <1>1, <2>2, <3>1
    <3>3. ASSUME NEW j \in here
          PROVE  j <= k + 1
      BY <1>1, <2>1, <3>1
    <3>4. Ends(k + 1)
      BY <3>2, <3>3
    <3> QED
      BY <3>4 DEF here, p, st
  <2>5. CASE ~ (\E k \in 1 .. n : Of(reports[k], w, e)) /\ Of(p[1], w, e)
    <3>1. Ends(1)
      BY <1>2, <1>4, <1>8, <2>1, <2>3, <2>5 DEF NewestHas, Holds, LastHas
    <3> QED
      BY <3>1 DEF here, p, st
  <2>6. CASE ~ (\E k \in 1 .. n : Of(reports[k], w, e)) /\ ~ Of(p[1], w, e)
    <3>1. here = {}
      BY <2>1, <2>3, <2>6
    <3>2. host[e].from = w => host[e].state = st
      BY <1>2, <1>4, <1>8, <2>6 DEF NewestHas, Holds, LastHas
    <3> QED
      BY <3>1, <3>2 DEF here, st
  <2> QED
    BY <2>4, <2>5, <2>6
<1> QED
  BY <1>6, <1>7, <1>8

\* A report that joins the queue.
LEMMA AppendedReport ==
  ASSUME NEW q \in Seq(Report), NEW r \in Report, NEW w, NEW e, NEW st
  PROVE  /\ Of(r, w, e) /\ r.state = st =>
              Holds(Append(q, r), w, e) /\ LastHas(st, Append(q, r), w, e)
         /\ ~ Of(r, w, e) =>
              /\ Holds(Append(q, r), w, e) <=> Holds(q, w, e)
              /\ LastHas(st, q, w, e) => LastHas(st, Append(q, r), w, e)
<1> DEFINE n == Len(q)
           long == Append(q, r)
<1>1. /\ n \in Nat /\ DOMAIN q = 1 .. n /\ DOMAIN long = 1 .. n + 1
      /\ long[n + 1] = r /\ \A i \in 1 .. n : long[i] = q[i]
  OBVIOUS
<1> HIDE DEF n, long
<1>2. /\ \A i \in 1 .. n + 1 : i \in 1 .. n \/ i = n + 1
      /\ \A i \in 1 .. n : i \in 1 .. n + 1
      /\ \A i \in 1 .. n + 1 : i <= n + 1
      /\ n + 1 \in 1 .. n + 1
  BY <1>1
<1>3. ASSUME Of(r, w, e), r.state = st
      PROVE  Holds(long, w, e) /\ LastHas(st, long, w, e)
  BY <1>1, <1>2, <1>3 DEF Holds, LastHas
<1>4. ASSUME ~ Of(r, w, e)
      PROVE  \A i \in 1 .. n + 1 : Of(long[i], w, e) <=> i \in 1 .. n /\ Of(q[i], w, e)
  BY <1>1, <1>2, <1>4
<1>5. ASSUME ~ Of(r, w, e)
      PROVE  /\ Holds(long, w, e) <=> Holds(q, w, e)
             /\ LastHas(st, q, w, e) => LastHas(st, long, w, e)
  BY <1>1, <1>2, <1>4, <1>5 DEF Holds, LastHas
<1> QED
  BY <1>3, <1>5 DEF long

\* The oldest report leaves the queue.
LEMMA TakenReport ==
  ASSUME NEW q \in Seq(Report), q # <<>>, NEW w, NEW e, NEW st
  PROVE  /\ Holds(Tail(q), w, e) => Holds(q, w, e)
         /\ Holds(Tail(q), w, e) /\ LastHas(st, q, w, e) => LastHas(st, Tail(q), w, e)
         /\ ~ Holds(Tail(q), w, e) =>
              /\ Holds(q, w, e) <=> Of(Head(q), w, e)
              /\ LastHas(st, q, w, e) => Head(q).state = st
<1> DEFINE n == Len(q)
           rest == Tail(q)
<1>1. /\ n \in Nat \ {0} /\ DOMAIN q = 1 .. n /\ DOMAIN rest = 1 .. n - 1
      /\ Head(q) = q[1] /\ \A i \in 1 .. n - 1 : rest[i] = q[i + 1]
  OBVIOUS
<1> HIDE DEF n, rest
<1>2. /\ \A i \in 1 .. n : i = 1 \/ (i - 1 \in 1 .. n - 1 /\ (i - 1) + 1 = i)
      /\ \A i \in 1 .. n - 1 : i + 1 \in 1 .. n /\ i + 1 # 1
      /\ 1 \in 1 .. n
  BY <1>1
<1>3. \A i \in 1 .. n - 1 : Of(rest[i], w, e) <=> Of(q[i + 1], w, e)
  BY <1>1
<1>4. Holds(rest, w, e) => Holds(q, w, e)
  BY <1>1, <1>2, <1>3 DEF Holds
<1>5. ASSUME Holds(rest, w, e), LastHas(st, q, w, e)
      PROVE  LastHas(st, rest, w, e)
  <2>1. PICK i \in 1 .. n : /\ Of(q[i], w, e) /\ q[i].state = st
                            /\ \A j \in 1 .. n : Of(q[j], w, e) => j <= i
    BY <1>1, <1>5 DEF LastHas
  <2>2. PICK k \in 1 .. n - 1 : Of(rest[k], w, e)
    BY <1>1, <1>5 DEF Holds
  <2>3. k + 1 <= i
    BY <1>2, <1>3, <2>1, <2>2
  <2>4. i - 1 \in 1 .. n - 1 /\ (i - 1) + 1 = i
    BY <1>1, <2>1, <2>2, <2>3
  <2>5. rest[i - 1] = q[i]
    BY <1>1, <2>4
  <2>6. ASSUME NEW j \in 1 .. n - 1, Of(rest[j], w, e)
        PROVE  j <= i - 1
    <3>1. j + 1 <= i
      BY <1>2, <1>3, <2>1, <2>6
    <3> QED
      BY <1>1, <3>1
  <2> QED
    BY <1>1, <2>1, <2>4, <2>5, <2>6 DEF LastHas
<1>6. ASSUME ~ Holds(rest, w, e)
      PROVE  \A i \in 1 .. n : Of(q[i], w, e) => i = 1
  BY <1>1, <1>2, <1>3, <1>6 DEF Holds
<1>7. ASSUME ~ Holds(rest, w, e)
      PROVE  /\ Holds(q, w, e) <=> Of(Head(q), w, e)
             /\ LastHas(st, q, w, e) => Head(q).state = st
  BY <1>1, <1>2, <1>6, <1>7 DEF Holds, LastHas
<1> QED
  BY <1>4, <1>5, <1>7 DEF rest

LEMMA NothingIsOf ==
  ASSUME NEW w, NEW e \in Endpoint
  PROVE  ~ Of(NoReport, w, e)
BY NoReportKind DEF Of, Endpoint

LEMMA RestInitially == Init => RestInv
BY DEF Init, RestInv, Rested

\* Nothing that Rested looks at changes.
LEMMA RestKept ==
  ASSUME NEW v \in Workers, NEW e \in Endpoint, Rested(v, e),
         link'[v] = link[v], device'[v][e] = device[v][e],
         coalescer'[v].pending[e] = coalescer[v].pending[e],
         drain'[v].report = drain[v].report,
         UNCHANGED usbVars
  PROVE  Rested(v, e)'
BY DEF Rested, NewestHas, usbVars

LEMMA RestStep ==
  ASSUME TypeOK, RestInv, [Next]_vars
  PROVE  RestInv'
<1> DEFINE Others(w) == \A v \in Workers \ {w} : \A e \in Endpoint : Rested(v, e)'
           Own(w) == \A e \in Endpoint : Rested(w, e)'
           All == \A v \in Workers, e \in Endpoint : Rested(v, e)'
<1>1. /\ WorkersTyped /\ UsbTyped
      /\ \A v \in Workers, e \in Endpoint : Rested(v, e)
      /\ DOMAIN link = Workers /\ DOMAIN device = Workers /\ DOMAIN coalescer = Workers
      /\ DOMAIN drain = Workers
      /\ \A v \in Workers : IsCoalescer(coalescer[v], v) /\ IsDrain(drain[v], v)
      /\ \A v \in Workers : DOMAIN device[v] = Endpoint
      /\ reports \in Seq(Report) /\ writing \in MaybeReport
      /\ DOMAIN host = Endpoint
  BY TypeParts DEF WorkersTyped, UsbTyped, RestInv
<1>2. \A w \in Workers : Others(w) /\ Own(w) => All
  OBVIOUS
<1>3. ~bus' => host' = NothingHeld
  <2>1. CASE UNCHANGED <<bus, host>>
    BY <2>1 DEF RestInv
  <2>2. CASE WriterWrites
    BY <2>2 DEF WriterWrites, RestInv
  <2>3. CASE BusDrops \/ BusReturns
    BY <2>3 DEF BusDrops, BusReturns
  <2> QED
    BY <2>1, <2>2, <2>3 DEF Next, Notifies, StateChanges, MouseMoves, Notified, Drains, Pops,
       FindsNothing, Wakes, Sends, LinkStarts, LinkEnds, WriterTakes, usbVars, vars
<1>4. ASSUME NEW w \in Workers, LinkStarts(w) PROVE All
  <2>1. /\ link' = [link EXCEPT ![w] = TRUE] /\ device' = [device EXCEPT ![w] = Silent]
        /\ UNCHANGED <<coalescer, drain, usbVars>>
    BY <1>4 DEF LinkStarts
  <2>2. Others(w)
    BY <1>1, <2>1, RestKept
  <2>3. Own(w)
    BY <1>1, <2>1 DEF Rested, Silent
  <2> QED
    BY <1>2, <2>2, <2>3
<1>5. ASSUME NEW w \in Workers, LinkEnds(w) PROVE All
  <2>1. /\ link' = [link EXCEPT ![w] = FALSE]
        /\ coalescer' = [coalescer EXCEPT ![w] = EmptyCoalescer]
        /\ drain' = [drain EXCEPT ![w] = AtPop]
        /\ UNCHANGED <<device, usbVars>>
    BY <1>5 DEF LinkEnds
  <2>2. Others(w)
    BY <1>1, <2>1, RestKept
  <2>3. Own(w)
    BY <1>1, <2>1 DEF Rested
  <2> QED
    BY <1>2, <2>2, <2>3
<1>6. ASSUME NEW w \in Workers, Notifies(w) PROVE All
  <2>1. PICK r \in Report : Notified(w, r)
    BY <1>6, Notifications
  <2>2. /\ r.from = w /\ device' = [device EXCEPT ![w][r.kind] = r.state]
        /\ coalescer' = [coalescer EXCEPT ![w] = push(coalescer[w], r)]
        /\ UNCHANGED <<link, drain, usbVars>>
    BY <2>1 DEF Notified
  <2>3. Others(w)
    BY <1>1, <2>2, RestKept
  <2>4. ASSUME NEW e \in Endpoint PROVE Rested(w, e)'
    <3>1. CASE e = r.kind
      <4>1. /\ coalescer'[w].pending[e].kind = e /\ coalescer'[w].pending[e].from = w
            /\ coalescer'[w].pending[e].state = r.state
        <5>1. LET p == push(coalescer[w], r).pending[r.kind]
              IN  p.kind = r.kind /\ p.from = w /\ p.state = r.state
          BY <1>1, <2>2, Pushes
        <5>2. coalescer'[w] = push(coalescer[w], r)
          BY <1>1, <2>2
        <5> QED
          BY <3>1, <5>1, <5>2
      <4>2. device'[w][e] = r.state
        BY <1>1, <2>2, <3>1
      <4> QED
        BY <4>1, <4>2 DEF Rested, NewestHas, Of
    <3>2. CASE e # r.kind
      <4>1. coalescer'[w].pending[e] = coalescer[w].pending[e]
        BY <1>1, <2>2, <3>2, Pushes
      <4>2. device'[w][e] = device[w][e]
        BY <1>1, <2>2, <3>2
      <4> QED
        BY <1>1, <2>2, <4>1, <4>2, RestKept
    <3> QED
      BY <3>1, <3>2
  <2> QED
    BY <1>2, <2>3, <2>4
<1>7. ASSUME NEW w \in Workers, Pops(w) PROVE All
  <2>1. PICK r \in Report : PopsReport(w, r)
    BY <1>7, PopMoves
  <2>2. /\ r.from = w /\ coalescer[w].pending[r.kind] = r
        /\ drain[w].report = NoReport /\ drain'[w].report = r
        /\ \A e \in Endpoint : coalescer'[w].pending[e] =
              IF e = r.kind THEN NoReport ELSE coalescer[w].pending[e]
        /\ \A v \in Workers \ {w} : drain'[v] = drain[v] /\ coalescer'[v] = coalescer[v]
        /\ UNCHANGED <<link, device, usbVars>>
    BY <2>1 DEF PopsReport
  <2>3. Others(w)
    BY <1>1, <2>2, RestKept
  <2>4. ASSUME NEW e \in Endpoint PROVE Rested(w, e)'
    <3>1. CASE e = r.kind
      <4>1. Of(coalescer[w].pending[e], w, e) /\ Of(drain'[w].report, w, e)
            /\ coalescer[w].pending[e] = r /\ drain'[w].report = r
        BY <2>2, <3>1 DEF Of
      <4>2. ~ Of(coalescer'[w].pending[e], w, e)
        BY <2>2, <3>1, NothingIsOf
      <4> QED
        BY <1>1, <2>2, <4>1, <4>2 DEF Rested, NewestHas
    <3>2. CASE e # r.kind
      <4>1. coalescer'[w].pending[e] = coalescer[w].pending[e]
        BY <2>2, <3>2
      <4>2. ~ Of(drain[w].report, w, e) /\ ~ Of(drain'[w].report, w, e)
        <5>1. ~ Of(drain[w].report, w, e)
          BY <2>2, NothingIsOf
        <5> QED
          BY <2>2, <3>2, <5>1 DEF Of
      <4> QED
        BY <1>1, <2>2, <4>1, <4>2 DEF Rested, NewestHas, usbVars
    <3> QED
      BY <3>1, <3>2
  <2> QED
    BY <1>2, <2>3, <2>4
<1>8. ASSUME NEW w \in Workers, FindsNothing(w) \/ Wakes(w) PROVE All
  <2>1. /\ drain' = [drain EXCEPT ![w] = AtWait] \/ drain' = [drain EXCEPT ![w] = AtPop]
        /\ drain[w].pc # "send"
        /\ UNCHANGED <<link, device, coalescer, usbVars>>
    BY <1>8 DEF FindsNothing, Wakes
  <2>2. drain[w].report = NoReport /\ drain'[w].report = NoReport
    BY <1>1, <2>1, DrainTypes DEF IsDrain
  <2>3. \A v \in Workers : drain'[v].report = drain[v].report
    BY <1>1, <2>1, <2>2
  <2> QED
    BY <1>1, <2>1, <2>3, RestKept
<1>9. ASSUME NEW w \in Workers, Sends(w) PROVE All
  <2> DEFINE r == drain[w].report
  <2>1. /\ drain[w].pc = "send" /\ drain' = [drain EXCEPT ![w] = AtPop]
        /\ reports' = Append(reports, r)
        /\ UNCHANGED <<link, device, coalescer, writing, host>>
    BY <1>9 DEF Sends
  <2>2. r \in Report /\ r.from = w
    BY <1>1, <2>1 DEF IsDrain, MaybeReport
  <2>3. drain'[w].report = NoReport /\ \A v \in Workers \ {w} : drain'[v] = drain[v]
    BY <1>1, <2>1, DrainTypes
  <2> SUFFICES ASSUME NEW v \in Workers, NEW e \in Endpoint PROVE Rested(v, e)'
    OBVIOUS
  <2>4. ~ Of(r, v, e) =>
           /\ Holds(reports', v, e) <=> Holds(reports, v, e)
           /\ LastHas(device[v][e], reports, v, e) => LastHas(device[v][e], reports', v, e)
    BY <1>1, <2>1, <2>2, AppendedReport
  <2>5. Of(r, v, e) /\ r.state = device[v][e] =>
           Holds(reports', v, e) /\ LastHas(device[v][e], reports', v, e)
    BY <1>1, <2>1, <2>2, AppendedReport
  <2>6. v # w => ~ Of(r, v, e)
    BY <2>2 DEF Of
  <2>7. ~ Of(NoReport, v, e)
    BY NothingIsOf
  <2>8. Rested(v, e)
    BY <1>1
  <2> HIDE DEF r
  <2>9. CASE v = w
    <3>1. drain[v].report = r /\ drain'[v].report = NoReport
      BY <2>3, <2>9 DEF r
    <3> QED
      BY <2>1, <2>4, <2>5, <2>7, <2>8, <3>1 DEF Rested, NewestHas
  <2>10. CASE v # w
    BY <2>1, <2>3, <2>4, <2>6, <2>8, <2>10 DEF Rested, NewestHas
  <2> QED
    BY <2>9, <2>10
<1>10. ASSUME WriterTakes PROVE All
  <2>1. /\ writing = NoReport /\ reports # <<>>
        /\ writing' = Head(reports) /\ reports' = Tail(reports)
        /\ UNCHANGED <<link, device, coalescer, drain, host>>
    BY <1>10 DEF WriterTakes
  <2> SUFFICES ASSUME NEW v \in Workers, NEW e \in Endpoint PROVE Rested(v, e)'
    OBVIOUS
  <2> DEFINE st == device[v][e]
  <2>2. /\ Holds(reports', v, e) => Holds(reports, v, e)
        /\ Holds(reports', v, e) /\ LastHas(st, reports, v, e) => LastHas(st, reports', v, e)
        /\ ~ Holds(reports', v, e) =>
              /\ Holds(reports, v, e) <=> Of(writing', v, e)
              /\ LastHas(st, reports, v, e) => writing'.state = st
    BY <1>1, <2>1, TakenReport
  <2>3. ~ Of(writing, v, e)
    BY <2>1, NothingIsOf
  <2>4. Rested(v, e)
    BY <1>1
  <2> QED
    BY <2>1, <2>2, <2>3, <2>4 DEF Rested, NewestHas
<1>11. ASSUME WriterWrites PROVE All
  <2>1. /\ writing # NoReport /\ writing' = NoReport
        /\ host' = IF bus
                     THEN [host EXCEPT ![writing.kind] =
                              [from |-> writing.from, state |-> writing.state]]
                     ELSE host
        /\ UNCHANGED <<link, device, coalescer, drain, reports>>
    BY <1>11 DEF WriterWrites
  <2>2. writing \in Report /\ writing.kind \in Endpoint
    BY <1>1, <2>1, ReportFields DEF MaybeReport
  <2> SUFFICES ASSUME NEW v \in Workers, NEW e \in Endpoint PROVE Rested(v, e)'
    OBVIOUS
  <2>3. ~ Of(writing', v, e)
    BY <2>1, NothingIsOf
  <2>4. Of(writing, v, e) /\ writing.state = device[v][e] =>
           (host'[e].from = v => host'[e].state = device[v][e])
    <3>1. ~bus => host'[e].from # v
      BY <2>1, NothingHeldType, StatesAssumption DEF RestInv
    <3>2. bus /\ Of(writing, v, e) => host'[e].state = writing.state
      BY <1>1, <2>1, <2>2 DEF Of
    <3> QED
      BY <3>1, <3>2
  <2>5. ~ Of(writing, v, e) => host'[e] = host[e] \/ host'[e].from # v
    BY <1>1, <2>1, <2>2 DEF Of
  <2>6. Rested(v, e)
    BY <1>1
  <2> QED
    BY <2>1, <2>3, <2>4, <2>5, <2>6 DEF Rested, NewestHas
<1>12. ASSUME BusDrops PROVE All
  <2> SUFFICES ASSUME NEW v \in Workers, NEW e \in Endpoint PROVE Rested(v, e)'
    OBVIOUS
  <2>1. host'[e].from # v
    BY <1>12, NothingHeldType, StatesAssumption DEF BusDrops
  <2>2. Rested(v, e)
    BY <1>1
  <2> QED
    BY <1>12, <2>1, <2>2 DEF BusDrops, Rested, NewestHas
<1>13. ASSUME BusReturns PROVE All
  BY <1>1, <1>13 DEF BusReturns, Rested, NewestHas
<1>14. CASE UNCHANGED vars
  <2>1. All
    BY <1>1, <1>14 DEF vars, Rested, NewestHas
  <2> QED
    BY <1>3, <2>1 DEF RestInv
<1>15. CASE Next
  <2>1. All
    BY <1>4, <1>5, <1>6, <1>7, <1>8, <1>9, <1>10, <1>11, <1>12, <1>13, <1>15 DEF Next, Drains
  <2> QED
    BY <1>3, <2>1 DEF RestInv
<1> QED
  BY <1>14, <1>15

\* While a link is up, the newest state its peripheral notified is the last
\* of its reports under way or, with none under way, what the host believes
\* (coalesce.rs:16-22: only intermediate states are dropped), through any
\* number of links and a channel of any capacity.
THEOREM RestingStateIsKept == Spec => []RestingStateIsLast
<1>1. TypeOK /\ RestInv /\ [Next]_vars => RestInv'
  BY RestStep
<1> QED
  BY PathInitially, PathTypeStep, RestInitially, RestedSuffices, <1>1, PTL DEF Spec

=============================================================================
