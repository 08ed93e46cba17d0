------------------------- MODULE AdmissionGateProofs -------------------------
(***************************************************************************)
(* Proofs about AdmissionGate, for any number of invocations, any windows  *)
(* and any clock.                                                          *)
(*                                                                         *)
(* The argument, in three parts.                                           *)
(*                                                                         *)
(* The lock.  An invocation that evaluates, or releases, has a lock that   *)
(* is not old enough to count as abandoned (LockYoung); so whoever judges  *)
(* a lock abandoned is alone (Alone), and what an invocation has loaded is *)
(* what the file still says (Loaded).                                      *)
(*                                                                         *)
(* The alert.  What defers an invocation is the episode of the history     *)
(* (Current).  The mark of that episode tells whether somebody is about to *)
(* send its alert or has sent it (Marked).                                 *)
(*                                                                         *)
(* The hysteresis.  The samples since overSince, and since recoverSince,   *)
(* are a run without a gap (Runs): a sample that goes on with it makes it  *)
(* longer, every other one breaks it in the history too.                   *)
(***************************************************************************)
EXTENDS AdmissionGate, TLAPS

\* Evaluations and alerts are quick, and one invocation judges a lock.
InGoodTime == Faults = {}

Holding(p) == Evaluating(p) \/ pc[p] = "release"
Claiming(p) == pc[p] \in {"sweep", "send"}

Named(h) == h.active <=> h.deferSince # Never

Typed ==
    /\ TypeOK
    /\ \A p \in Procs : Named(mem[p])
    /\ \A p \in Procs : pc[p] \in {"claim", "sweep", "send"} => episode[p] # Never

LockYoung == \A p \in Procs : Holding(p) => lock # Never /\ now - lock <= StaleAfter

Alone ==
    /\ \A p, q \in Procs : Holding(p) /\ Holding(q) => p = q
    /\ \A p \in Procs : pc[p] = "stale" => lock # Never
    /\ \A p, q \in Procs : pc[p] = "stale" => ~Holding(q)
    /\ \A p, q \in Procs : pc[p] = "stale" /\ pc[q] = "stale" => p = q

Loaded == \A p \in Procs : Evaluating(p) => mem[p] = hist

Current == \A p \in Procs : episode[p] # Never => hist.active /\ hist.deferSince = episode[p]

Marked ==
    /\ \A p, q \in Procs : Claiming(p) /\ Claiming(q) => p = q
    /\ \A p \in Procs : Claiming(p) => episode[p] \in marks /\ ~whole
    /\ whole /\ hist.active => hist.deferSince \in marks

LockInv == Typed /\ LockYoung /\ Alone /\ Loaded
AlertInv == LockInv /\ Current /\ Marked /\ WholeAlertIsLast

\* A run of samples from time from to the last one.
Run(samples, as, from, last) ==
    /\ \E s \in samples : s.as = as /\ s.at = from
    /\ \A r \in samples : r.at > from => r.as = as
    /\ \A r \in samples : r.at \in from..last - 1 =>
           \E q \in samples : q.at - r.at \in 1..MaxSampleGap

Runs ==
    /\ \A r \in log : r.at <= hist.lastSampleAt
    /\ hist.active /\ hist.recoverSince # Never =>
           /\ Run(log, "good", hist.recoverSince, hist.lastSampleAt)
           /\ hist.lastSampleAt - hist.recoverSince \in 0..RecoverSustain - 1
    /\ ~hist.active /\ hist.overSince # Never =>
           /\ Run(log, "over", hist.overSince, hist.lastSampleAt)
           /\ hist.lastSampleAt - hist.overSince \in 0..DeferSustain - 1


-----------------------------------------------------------------------------
(* What EvaluatePressure does to the history. *)

LEMMA Constants ==
    /\ MaxSampleGap \in Nat \ {0} /\ DeferSustain \in Nat \ {0}
    /\ RecoverSustain \in Nat \ {0} /\ StaleAfter \in Nat \ {0} /\ MaxClock \in Nat \ {0}
    /\ Times \subseteq Nat /\ Never \notin Times
  BY AdmissionGateAssumption DEF Times, Never

\* The last sample can support a streak.
Supports(h, s) ==
    /\ h.lastSampleAt # Never
    /\ h.lastSampleAt <= s.at
    /\ s.at - h.lastSampleAt <= MaxSampleGap

LEMMA PrepareIs ==
  ASSUME NEW h \in Histories, NEW s \in Samples
  PROVE  /\ Prepare(h, s) \in Histories
         /\ Prepare(h, s).active = h.active
         /\ Prepare(h, s).deferSince = h.deferSince
         /\ Prepare(h, s).overSince = IF Supports(h, s) THEN h.overSince ELSE Never
         /\ Prepare(h, s).recoverSince = IF Supports(h, s) THEN h.recoverSince ELSE Never
<1>1. s.at \in Int /\ h.lastSampleAt \in Int
  <2>1. s.at \in Times /\ h.lastSampleAt \in Times \cup {Never}
    BY DEF Histories, Samples
  <2>2. Times \subseteq Int /\ Never \in Int
    BY DEF Times, Never
  <2> QED
    BY <2>1, <2>2
<1>2. CASE Supports(h, s)
  <2>1. Prepare(h, s) = h
    BY <1>1, <1>2, Constants DEF Prepare, Supports
  <2> QED
    BY <1>2, <2>1
<1>3. CASE ~Supports(h, s)
  <2>1. Prepare(h, s) = [h EXCEPT !.overSince = Never, !.recoverSince = Never]
    BY <1>1, <1>3, Constants DEF Prepare, Supports
  <2> QED
    BY <1>3, <2>1 DEF Histories
<1> QED
  BY <1>2, <1>3

LEMMA EvaluateType ==
  ASSUME NEW h \in Histories, NEW s \in Samples, Named(h)
  PROVE  Evaluate(h, s) \in Histories /\ Named(Evaluate(h, s))
<1> DEFINE g == Prepare(h, s)
           k == [g EXCEPT !.overSince = OverSince(g, s), !.lastSampleAt = s.at]
<1>1. g \in Histories /\ g.active = h.active /\ g.deferSince = h.deferSince
  BY PrepareIs
<1>2. s.at \in Times /\ OverSince(g, s) \in Times \cup {Never}
  BY <1>1 DEF OverSince, Since, Samples, Histories
<1>3. k \in Histories /\ Named(k)
  BY <1>1, <1>2 DEF Histories, Named
<1> HIDE DEF g, k
<1>4. Deferred(k, s) \in Histories /\ Named(Deferred(k, s))
  BY <1>2, <1>3, Constants DEF Deferred, Histories, Named
<1>5. Recovering(k, s) \in Histories /\ Named(Recovering(k, s))
  BY <1>2, <1>3 DEF Recovering, Recovered, Since, Histories, Named
<1>6. Evaluate(h, s) \in {Deferred(k, s), Recovering(k, s), k}
  BY DEF Evaluate, g, k
<1> QED
  BY <1>3, <1>4, <1>5, <1>6

\* The time of the last sample is recorded, and an episode keeps its name.
LEMMA EvaluateKeeps ==
  ASSUME NEW h \in Histories, NEW s \in Samples, Named(h)
  PROVE  /\ Evaluate(h, s).lastSampleAt = s.at
         /\ h.active /\ Evaluate(h, s).active => Evaluate(h, s).deferSince = h.deferSince
<1> DEFINE g == Prepare(h, s)
           k == [g EXCEPT !.overSince = OverSince(g, s), !.lastSampleAt = s.at]
<1>1. g \in Histories /\ g.active = h.active /\ g.deferSince = h.deferSince
  BY PrepareIs
<1>2. k.lastSampleAt = s.at /\ k.active = h.active /\ k.deferSince = h.deferSince
  BY <1>1 DEF Histories
<1> HIDE DEF g, k
<1>3. Evaluate(h, s) = Deferred(k, s) \/ Evaluate(h, s) = Recovering(k, s) \/ Evaluate(h, s) = k
  BY DEF Evaluate, g, k
<1>4. Deferred(k, s).lastSampleAt = s.at /\ (h.active => Deferred(k, s).deferSince = h.deferSince)
  BY <1>2 DEF Deferred
<1>5. Recovering(k, s).lastSampleAt = s.at
      /\ (Recovering(k, s).active => Recovering(k, s).deferSince = h.deferSince)
  BY <1>2 DEF Recovering, Recovered
<1> QED
  BY <1>2, <1>3, <1>4, <1>5

\* How a history is judged: the streaks of g are those the last sample supports.
LEMMA EvaluateCases ==
  ASSUME NEW h \in Histories, NEW s \in Samples
  PROVE  LET g == Prepare(h, s)
             e == Evaluate(h, s)
         IN  \/ /\ Reason(g, s) /\ e.active
                /\ e.recoverSince = Never /\ e.overSince = OverSince(g, s)
             \/ /\ ~Reason(g, s) /\ ~h.active /\ ~e.active
                /\ e.overSince = OverSince(g, s)
             \/ /\ ~Reason(g, s) /\ h.active /\ e.active
                /\ s.kind # "good" /\ e.recoverSince = Never
             \/ /\ ~Reason(g, s) /\ h.active /\ e.active
                /\ s.kind = "good" /\ e.recoverSince = Since(g.recoverSince, s)
                /\ ~(s.at - Since(g.recoverSince, s) >= RecoverSustain)
             \/ /\ ~Reason(g, s) /\ h.active /\ ~e.active
                /\ s.kind = "good" /\ e.overSince = OverSince(g, s)
                /\ s.at - Since(g.recoverSince, s) >= RecoverSustain
<1> DEFINE g == Prepare(h, s)
           k == [g EXCEPT !.overSince = OverSince(g, s), !.lastSampleAt = s.at]
<1>1. g \in Histories /\ g.active = h.active
  BY PrepareIs
<1>2. k.active = h.active /\ k.overSince = OverSince(g, s) /\ k.recoverSince = g.recoverSince
      /\ k \in [active : BOOLEAN, deferSince : Times \cup {Never}, overSince : {OverSince(g, s)},
                recoverSince : Times \cup {Never}, lastSampleAt : {s.at}]
  BY <1>1 DEF Histories
<1>3. Evaluate(h, s) = IF Reason(g, s) THEN Deferred(k, s)
                       ELSE IF k.active THEN Recovering(k, s) ELSE k
  BY DEF Evaluate
<1> HIDE DEF k, g
<1>4. Deferred(k, s).active /\ Deferred(k, s).recoverSince = Never
      /\ Deferred(k, s).overSince = OverSince(g, s)
  BY <1>2 DEF Deferred
<1>5. ASSUME k.active
      PROVE  \/ /\ s.kind # "good"
                /\ Recovering(k, s).active /\ Recovering(k, s).recoverSince = Never
             \/ /\ s.kind = "good" /\ s.at - Since(g.recoverSince, s) >= RecoverSustain
                /\ ~Recovering(k, s).active /\ Recovering(k, s).overSince = OverSince(g, s)
             \/ /\ s.kind = "good" /\ ~(s.at - Since(g.recoverSince, s) >= RecoverSustain)
                /\ Recovering(k, s).active
                /\ Recovering(k, s).recoverSince = Since(g.recoverSince, s)
  BY <1>2, <1>5 DEF Recovering, Recovered
<1>6. CASE Reason(g, s)
  BY <1>3, <1>4, <1>6 DEF g
<1>7. CASE ~Reason(g, s) /\ ~k.active
  BY <1>2, <1>3, <1>7 DEF g
<1>8. CASE ~Reason(g, s) /\ k.active
  BY <1>2, <1>3, <1>5, <1>8 DEF g
<1> QED
  BY <1>6, <1>7, <1>8

\* The two lemmas below state what the hysteresis of EvaluatePressure demands.

\* A streak of good samples is as long as the history says, supported by the
\* last sample, and it ends the episode when it has lasted long enough.
LEMMA Recovery ==
  ASSUME NEW h \in Histories, NEW s \in Samples, h.active
  PROVE  LET e == Evaluate(h, s)
             goesOn == Supports(h, s) /\ h.recoverSince # Never
         IN  /\ ~e.active => /\ s.kind = "good" /\ goesOn
                             /\ s.at - h.recoverSince >= RecoverSustain
                             /\ e.overSince = Never
             /\ e.active /\ e.recoverSince # Never =>
                   /\ s.kind = "good"
                   /\ s.at - e.recoverSince < RecoverSustain
                   /\ \/ e.recoverSince = s.at
                      \/ goesOn /\ e.recoverSince = h.recoverSince
<1> DEFINE g == Prepare(h, s)
           e == Evaluate(h, s)
<1>0. s.at \in Nat /\ RecoverSustain \in Nat \ {0}
      /\ (h.recoverSince # Never => h.recoverSince \in Nat)
  BY Constants DEF Samples, Histories
<1>1. g.recoverSince = IF Supports(h, s) THEN h.recoverSince ELSE Never
  BY PrepareIs
<1>2. s.kind = "good" => OverSince(g, s) = Never
  BY DEF OverSince, Over
<1>3. \/ e.active /\ e.recoverSince = Never
      \/ /\ e.active /\ s.kind = "good" /\ e.recoverSince = Since(g.recoverSince, s)
         /\ ~(s.at - Since(g.recoverSince, s) >= RecoverSustain)
      \/ /\ ~e.active /\ s.kind = "good" /\ e.overSince = OverSince(g, s)
         /\ s.at - Since(g.recoverSince, s) >= RecoverSustain
  BY EvaluateCases
<1> HIDE DEF g, e
<1>4. \/ Since(g.recoverSince, s) = s.at
      \/ Supports(h, s) /\ h.recoverSince # Never /\ Since(g.recoverSince, s) = h.recoverSince
  BY <1>1 DEF Since
<1>5. CASE e.active
  BY <1>0, <1>3, <1>4, <1>5 DEF e
<1>6. CASE ~e.active
  BY <1>0, <1>2, <1>3, <1>4, <1>6 DEF e
<1> QED
  BY <1>5, <1>6

\* Likewise an excursion, which opens an episode unless a hard reason does.
LEMMA Excursion ==
  ASSUME NEW h \in Histories, NEW s \in Samples, ~h.active
  PROVE  LET e == Evaluate(h, s)
             goesOn == Supports(h, s) /\ h.overSince # Never
         IN  /\ e.active /\ ~Hard(s) => /\ Over(s) /\ goesOn
                                        /\ s.at - h.overSince >= DeferSustain
             /\ e.active => e.recoverSince = Never
             /\ ~e.active /\ e.overSince # Never =>
                   /\ Over(s)
                   /\ s.at - e.overSince < DeferSustain
                   /\ \/ e.overSince = s.at
                      \/ goesOn /\ e.overSince = h.overSince
<1> DEFINE g == Prepare(h, s)
           e == Evaluate(h, s)
<1>0. s.at \in Nat /\ DeferSustain \in Nat \ {0}
      /\ (h.overSince # Never => h.overSince \in Nat)
  BY Constants DEF Samples, Histories
<1>1. g.overSince = IF Supports(h, s) THEN h.overSince ELSE Never
  BY PrepareIs
<1>2. \/ /\ OverSince(g, s) = Never /\ ~Over(s)
      \/ /\ OverSince(g, s) = s.at /\ Over(s)
      \/ /\ OverSince(g, s) = h.overSince /\ Over(s)
         /\ Supports(h, s) /\ h.overSince # Never
  BY <1>1 DEF OverSince, Since
<1>3. \/ Reason(g, s) /\ e.active /\ e.recoverSince = Never
      \/ ~Reason(g, s) /\ ~e.active /\ e.overSince = OverSince(g, s)
  BY EvaluateCases
<1> HIDE DEF g, e
<1>4. Reason(g, s) <=> Hard(s) \/ (Over(s) /\ s.at - OverSince(g, s) >= DeferSustain)
  BY DEF Reason
<1>5. CASE e.active
  BY <1>0, <1>2, <1>3, <1>4, <1>5 DEF e
<1>6. CASE ~e.active
  BY <1>0, <1>2, <1>3, <1>4, <1>6 DEF e
<1> QED
  BY <1>5, <1>6

-----------------------------------------------------------------------------
(* Types *)

LEMMA TypeInit == Init => Typed
<1> SUFFICES ASSUME Init PROVE Typed
  OBVIOUS
<1>1. NoHistory \in Histories /\ Named(NoHistory)
  BY DEF NoHistory, Histories, Named
<1>2. NoSample \in Samples /\ 0 \in Times
  BY Constants DEF NoSample, Samples, Times
<1>3. 0 \in 0..2
  OBVIOUS
<1> QED
  BY <1>1, <1>2, <1>3 DEF Init, Typed, TypeOK, Named, NoHistory

LEMMA TypeStep == Typed /\ [Next]_vars => Typed'
<1> SUFFICES ASSUME Typed, [Next]_vars PROVE Typed'
  OBVIOUS
<1> USE DEF Typed, TypeOK, Go
<1>0. /\ NoHistory \in Histories /\ Named(NoHistory)
      /\ NoSample \in Samples
  BY Constants DEF NoHistory, Histories, Named, NoSample, Samples, Times
<1>1. CASE Tick \/ SetBack
  <2>1. now' \in Times
    BY <1>1, Constants DEF Tick, SetBack, Times
  <2> QED
    BY <1>1, <2>1 DEF Tick, SetBack
<1>2. ASSUME NEW p \in Procs, Enter(p) \/ Retry(p) PROVE Typed'
  BY <1>2 DEF Enter, Retry, Take, Named
<1>3. ASSUME NEW p \in Procs, Judge(p) \/ RemoveStale(p) \/ Release(p) PROVE Typed'
  BY <1>3 DEF Judge, RemoveStale, Release
<1>4. ASSUME NEW p \in Procs, NEW kind \in Kinds, Probe(p, kind) PROVE Typed'
  BY <1>4 DEF Probe, Samples
<1>5. ASSUME NEW p \in Procs, Save(p) PROVE Typed'
  <2> DEFINE next == Evaluate(mem[p], sample[p])
  <2>1. next \in Histories /\ Named(next)
    BY EvaluateType
  <2>2. log' \subseteq [at : Times, as : {"good", "over", "other"}]
    <3>1. [at |-> sample[p].at, as |-> As(sample[p])] \in [at : Times, as : {"good", "over", "other"}]
      BY DEF As, Samples
    <3> QED
      BY <1>5, <3>1 DEF Save, Logged
  <2>3. alerts' \in 0..2 /\ whole' \in BOOLEAN
    BY <1>5 DEF Save
  <2>4. hist' = next /\ episode' = [episode EXCEPT ![p] = next.deferSince]
        /\ mem' = [mem EXCEPT ![p] = NoHistory] /\ sample' = [sample EXCEPT ![p] = NoSample]
        /\ pc' = [pc EXCEPT ![p] = "release"] /\ UNCHANGED <<now, lock, marks>>
    BY <1>5 DEF Save
  <2>5. next.deferSince \in Times \cup {Never}
    BY <2>1 DEF Histories
  <2> HIDE DEF next
  <2> QED
    BY <1>0, <2>1, <2>2, <2>3, <2>4, <2>5 DEF Named
<1>6. ASSUME NEW p \in Procs, Fail(p) \/ Kill(p) PROVE Typed'
  BY <1>0, <1>6 DEF Fail, Kill
<1>7. ASSUME NEW p \in Procs, Claim(p) \/ Sweep(p) \/ Send(p) \/ SendFails(p) PROVE Typed'
  <2>1. Again \in 0..2
    BY DEF Again
  <2> QED
    BY <1>7, <2>1 DEF Claim, Sweep, Send, SendFails, End
<1>8. CASE UNCHANGED vars
  BY <1>8 DEF vars
<1> QED
  BY <1>1, <1>2, <1>3, <1>4, <1>5, <1>6, <1>7, <1>8 DEF Next, Pass

\* Every variable of the gate has its type, an episode has a name while it
\* lasts, and no invocation claims an alert without an episode, whatever
\* windows are hit.
THEOREM TypeCorrect == Spec => []TypeOK
<1>1. Typed => TypeOK
  BY DEF Typed
<1> QED
  BY <1>1, TypeInit, TypeStep, PTL DEF Spec

-----------------------------------------------------------------------------
(* The lock *)

LEMMA LockInit == Init => LockInv
  BY TypeInit DEF Init, LockInv, LockYoung, Alone, Loaded, Holding, Evaluating

LEMMA LockStep == InGoodTime /\ LockInv /\ [Next]_vars => LockInv'
<1> SUFFICES ASSUME InGoodTime, LockInv, [Next]_vars PROVE LockInv'
  OBVIOUS
<1>t. Typed /\ Typed'
  BY TypeStep DEF LockInv
<1> SUFFICES LockYoung' /\ Alone' /\ Loaded'
  BY <1>t DEF LockInv
<1>n. now \in Int /\ (lock # Never => lock \in Int) /\ StaleAfter \in Nat /\ now' \in Int
  BY <1>t, Constants DEF Typed, TypeOK
<1> USE DEF LockInv, LockYoung, Alone, Loaded, Holding, Evaluating, Go
<1>pc. pc \in [Procs -> {"idle", "stale", "retry", "probe", "save", "release",
                         "claim", "sweep", "send"}]
       /\ mem \in [Procs -> Histories]
  BY <1>t DEF Typed, TypeOK
<1>1. CASE Tick
  <2>1. \A p \in Procs : Holding(p) => now - lock < StaleAfter
    BY <1>1 DEF Tick, InTime, InGoodTime
  <2> QED
    BY <1>1, <1>n, <2>1 DEF Tick
<1>2. CASE SetBack
  BY <1>2 DEF SetBack
<1>3. ASSUME NEW p \in Procs, Enter(p) \/ Retry(p) PROVE LockYoung' /\ Alone' /\ Loaded'
  <2>1. CASE Take(p)
    <3>1. \A q \in Procs : ~Holding(q) /\ pc[q] # "stale"
      BY <2>1 DEF Take
    <3>2. lock' # Never /\ lock' = now /\ now' = now
      BY <1>3, <1>t, <2>1, Constants DEF Take, Enter, Retry, Typed, TypeOK
    <3>3. mem' = [mem EXCEPT ![p] = hist] /\ hist' = hist
      BY <1>3, <2>1 DEF Take, Enter, Retry
    <3>4. pc' = [pc EXCEPT ![p] = "probe"]
      BY <1>3, <2>1 DEF Take, Enter, Retry
    <3> QED
      BY <1>n, <1>pc, <3>1, <3>2, <3>3, <3>4
  <2>2. CASE ~Take(p)
    BY <1>3, <1>pc, <2>2 DEF Enter, Retry
  <2> QED
    BY <2>1, <2>2
<1>4. ASSUME NEW p \in Procs, Judge(p) PROVE LockYoung' /\ Alone' /\ Loaded'
  <2>1. \A q \in Procs : ~Holding(q) /\ pc[q] # "stale"
    BY <1>4, <1>n DEF Judge, InGoodTime
  <2> QED
    BY <1>4, <1>pc, <2>1 DEF Judge
<1>5. ASSUME NEW p \in Procs, RemoveStale(p) \/ Release(p) \/ Fail(p)
      PROVE  LockYoung' /\ Alone' /\ Loaded'
  <2>1. \A q \in Procs : q # p => ~Holding(q) /\ pc[q] # "stale"
    BY <1>5 DEF RemoveStale, Release, Fail
  <2> QED
    BY <1>5, <1>pc, <2>1 DEF RemoveStale, Release, Fail
<1>6. ASSUME NEW p \in Procs, NEW kind \in Kinds, Probe(p, kind)
      PROVE  LockYoung' /\ Alone' /\ Loaded'
  <2>1. lock # Never /\ lock' = now /\ lock' # Never
    BY <1>6, <1>t, Constants DEF Probe, Typed, TypeOK
  <2> QED
    BY <1>6, <1>n, <1>pc, <2>1 DEF Probe
<1>7. ASSUME NEW p \in Procs, Save(p) PROVE LockYoung' /\ Alone' /\ Loaded'
  <2>1. \A q \in Procs : q # p => ~Holding(q) /\ pc[q] # "stale"
    BY <1>7 DEF Save
  <2>2. pc' = [pc EXCEPT ![p] = "release"] /\ UNCHANGED <<now, lock>>
    BY <1>7 DEF Save
  <2> QED
    BY <1>7, <1>pc, <2>1, <2>2 DEF Save
<1>8. ASSUME NEW p \in Procs, Claim(p) \/ Sweep(p) \/ Send(p) \/ SendFails(p)
      PROVE  LockYoung' /\ Alone' /\ Loaded'
  BY <1>8, <1>pc DEF Claim, Sweep, Send, SendFails, End
<1>9. ASSUME NEW p \in Procs, Kill(p) PROVE LockYoung' /\ Alone' /\ Loaded'
  BY <1>9, <1>pc DEF Kill
<1>10. CASE UNCHANGED vars
  BY <1>10 DEF vars
<1> QED
  BY <1>1, <1>2, <1>3, <1>4, <1>5, <1>6, <1>7, <1>8, <1>9, <1>10 DEF Next, Pass

\* No two invocations load, judge and save the history at a time, however
\* many there are and wherever they are killed, while evaluations are quicker
\* than the age at which a lock is abandoned and one invocation at a time
\* finds it abandoned.
THEOREM Evaluations == InGoodTime => (Spec => []OneEvaluation)
<1> SUFFICES ASSUME InGoodTime PROVE Spec => []OneEvaluation
  OBVIOUS
<1>1. InGoodTime /\ LockInv /\ [Next]_vars => LockInv'
  BY LockStep
<1>2. LockInv => OneEvaluation
  BY DEF LockInv, Alone, Holding, OneEvaluation
<1> QED
  BY <1>1, <1>2, LockInit, PTL DEF Spec

-----------------------------------------------------------------------------
(* The alert *)

LEMMA AlertInit == Init => AlertInv
  BY LockInit DEF Init, AlertInv, Current, Marked, WholeAlertIsLast, Claiming

LEMMA AlertStep == InGoodTime /\ AlertInv /\ [Next]_vars => AlertInv'
<1> SUFFICES ASSUME InGoodTime, AlertInv, [Next]_vars PROVE AlertInv'
  OBVIOUS
<1>i. LockInv /\ LockInv'
  BY LockStep DEF AlertInv
<1> SUFFICES Current' /\ Marked' /\ WholeAlertIsLast'
  BY <1>i DEF AlertInv
<1>t. Typed /\ TypeOK
  BY <1>i DEF LockInv, Typed
<1>pc. /\ pc \in [Procs -> {"idle", "stale", "retry", "probe", "save", "release",
                            "claim", "sweep", "send"}]
       /\ episode \in [Procs -> Times \cup {Never}]
       /\ \A p \in Procs : pc[p] \in {"claim", "sweep", "send"} => episode[p] # Never
  BY <1>t DEF Typed, TypeOK
<1> USE DEF AlertInv, Current, Marked, WholeAlertIsLast, Claiming, Go
<1>1. CASE Tick \/ SetBack
  BY <1>1 DEF Tick, SetBack
<1>2. ASSUME NEW p \in Procs,
             Enter(p) \/ Judge(p) \/ RemoveStale(p) \/ Retry(p) \/ Release(p) \/ Fail(p)
      PROVE  Current' /\ Marked' /\ WholeAlertIsLast'
  BY <1>2, <1>pc DEF Enter, Judge, RemoveStale, Retry, Release, Fail, Evaluating, Take
<1>3. ASSUME NEW p \in Procs, NEW kind \in Kinds, Probe(p, kind)
      PROVE  Current' /\ Marked' /\ WholeAlertIsLast'
  BY <1>3, <1>pc DEF Probe
<1>4. ASSUME NEW p \in Procs, Save(p) PROVE Current' /\ Marked' /\ WholeAlertIsLast'
  <2> DEFINE next == Evaluate(hist, sample[p])
  <2>1. mem[p] = hist /\ Named(hist) /\ hist \in Histories /\ sample[p] \in Samples
    BY <1>4, <1>i, <1>t DEF Save, LockInv, Loaded, Evaluating, Typed, TypeOK, Named
  <2>2. next \in Histories /\ Named(next)
    BY <2>1, EvaluateType
  <2>3. hist.active /\ next.active => next.deferSince = hist.deferSince
    BY <2>1, EvaluateKeeps
  <2>4. next.active \/ \A q \in Procs : episode[q] = Never
    BY <1>4, <2>1 DEF Save, InGoodTime
  <2>5. hist' = next /\ pc' = [pc EXCEPT ![p] = "release"] /\ marks' = marks
        /\ episode' = [episode EXCEPT ![p] = next.deferSince]
        /\ whole' = (whole /\ ~(next.active /\ ~hist.active))
    BY <1>4, <2>1 DEF Save
  <2> HIDE DEF next
  <2>6. Current'
    BY <1>pc, <2>2, <2>3, <2>4, <2>5 DEF Named
  <2>7. Marked'
    BY <1>pc, <2>2, <2>3, <2>4, <2>5 DEF Named
  <2> QED
    BY <2>5, <2>6, <2>7
<1>5. ASSUME NEW p \in Procs, Claim(p) PROVE Current' /\ Marked' /\ WholeAlertIsLast'
  <2>1. CASE episode[p] \notin marks
    <3>1. \A q \in Procs : ~Claiming(q)
      BY <1>5, <1>pc, <2>1 DEF Claim, End
    <3>2. ~whole
      BY <1>5, <1>pc, <2>1 DEF Claim, End
    <3> QED
      BY <1>5, <1>pc, <2>1, <3>1, <3>2 DEF Claim, End
  <2>2. CASE episode[p] \in marks
    BY <1>5, <1>pc, <2>2 DEF Claim, End
  <2> QED
    BY <2>1, <2>2
<1>6. ASSUME NEW p \in Procs, Sweep(p) PROVE Current' /\ Marked' /\ WholeAlertIsLast'
  BY <1>6, <1>pc DEF Sweep
<1>7. ASSUME NEW p \in Procs, Send(p) \/ SendFails(p) PROVE Current' /\ Marked' /\ WholeAlertIsLast'
  BY <1>7, <1>pc DEF Send, SendFails, End
<1>8. ASSUME NEW p \in Procs, Kill(p) PROVE Current' /\ Marked' /\ WholeAlertIsLast'
  BY <1>8, <1>pc DEF Kill
<1>9. CASE UNCHANGED vars
  BY <1>9 DEF vars
<1> QED
  BY <1>1, <1>2, <1>3, <1>4, <1>5, <1>6, <1>7, <1>8, <1>9 DEF Next, Pass

\* An alert that reached every channel is the last of its episode, however many
\* invocations the episode defers, whichever of them are killed and whichever
\* alert fails, when none of them outlives the episode before its alert is done.
THEOREM Alerts == InGoodTime => (Spec => []WholeAlertIsLast)
<1> SUFFICES ASSUME InGoodTime PROVE Spec => []WholeAlertIsLast
  OBVIOUS
<1>1. InGoodTime /\ AlertInv /\ [Next]_vars => AlertInv'
  BY AlertStep
<1>2. AlertInv => WholeAlertIsLast
  BY DEF AlertInv
<1> QED
  BY <1>1, <1>2, AlertInit, PTL DEF Spec

-----------------------------------------------------------------------------
(* The hysteresis *)

\* An excursion is shorter than a recovery: a minute against five.
QuickToDefer == DeferSustain <= RecoverSustain

LEMMA LoggedTimes ==
  ASSUME TypeOK, NEW s \in Samples
  PROVE  s.at \in Nat /\ \A r \in log : r.at \in Nat
<1>1. s.at \in Times
  BY DEF Samples
<1>2. \A r \in log : r.at \in Times
  BY DEF TypeOK
<1> QED
  BY <1>1, <1>2, Constants

LEMMA LoggedIs ==
  ASSUME TypeOK, NEW s \in Samples
  PROVE  /\ \E r \in Logged(s) : r.at = s.at /\ r.as = As(s)
         /\ \A r \in Logged(s) : r.at \in Nat /\ r.at <= s.at
         /\ \A r \in Logged(s) : (r.at = s.at /\ r.as = As(s)) \/ r \in log
         /\ \A r \in log :
                /\ \A q \in log : q.at <= s.at
                /\ s.at - r.at <= RecoverSustain + MaxSampleGap
                /\ \A q \in log : q.as # As(s) => q.at <= r.at
                => r \in Logged(s)
<1> DEFINE new == [at |-> s.at, as |-> As(s)]
           recent == {r \in log : s.at - r.at \in 0..RecoverSustain + MaxSampleGap}
           other == {r \in recent : r.as # new.as}
           rest == IF \E r \in log : r.at > s.at THEN {}
                   ELSE {r \in recent : \A q \in other : q.at <= r.at}
<1>1. Logged(s) = {new} \cup rest
  BY DEF Logged
<1>2. s.at \in Nat /\ \A r \in log : r.at \in Nat
  BY LoggedTimes
<1>3. rest \subseteq recent /\ \A r \in recent : r \in log /\ r.at <= s.at
  BY <1>2, Constants
<1>4. ASSUME NEW r \in log, \A q \in log : q.at <= s.at,
             s.at - r.at <= RecoverSustain + MaxSampleGap,
             \A q \in log : q.as # As(s) => q.at <= r.at
      PROVE  r \in rest
  <2>1. r \in recent
    BY <1>2, <1>4, Constants
  <2>2. ~(\E q \in log : q.at > s.at)
    BY <1>2, <1>4
  <2>3. \A q \in other : q.at <= r.at
    BY <1>4
  <2> QED
    BY <2>1, <2>2, <2>3
<1>n. new.at = s.at /\ new.as = As(s)
  OBVIOUS
<1> HIDE DEF rest, recent, other, new
<1>5. \A r \in Logged(s) : r = new \/ (r \in log /\ r.at <= s.at)
  BY <1>1, <1>3
<1>6. \A r \in log : /\ \A q \in log : q.at <= s.at
                     /\ s.at - r.at <= RecoverSustain + MaxSampleGap
                     /\ \A q \in log : q.as # As(s) => q.at <= r.at
                     => r \in Logged(s)
  BY <1>1, <1>4
<1> QED
  BY <1>1, <1>2, <1>n, <1>5, <1>6

\* A streak that begins with a sample is a run.
LEMMA RunStarts ==
  ASSUME TypeOK, NEW s \in Samples
  PROVE  Run(Logged(s), As(s), s.at, s.at)
<1>1. s.at \in Nat
  BY LoggedTimes
<1>2. \A r \in Logged(s) : ~(r.at > s.at) /\ ~(r.at \in s.at..s.at - 1)
  BY <1>1, LoggedIs
<1> QED
  BY <1>2, LoggedIs DEF Run

\* A sample that the last one supports makes the run longer, as long as its
\* start is within the time that the log goes back.
LEMMA RunGoesOn ==
  ASSUME TypeOK, NEW s \in Samples, NEW from \in Times, NEW last \in Times,
         \A r \in log : r.at <= last,
         last <= s.at, s.at - last <= MaxSampleGap, from <= last,
         s.at - from <= RecoverSustain + MaxSampleGap,
         Run(log, As(s), from, last)
  PROVE  Run(Logged(s), As(s), from, s.at)
<1>0. s.at \in Nat /\ from \in Nat /\ last \in Nat /\ \A r \in log : r.at \in Nat
  BY LoggedTimes, Constants
<1>1. \A r \in log : r.at <= s.at
  BY <1>0
<1>2. \A r \in log : r.at >= from => r \in Logged(s)
  <2> SUFFICES ASSUME NEW r \in log, r.at >= from PROVE r \in Logged(s)
    OBVIOUS
  <2>1. s.at - r.at <= RecoverSustain + MaxSampleGap
    BY <1>0, Constants
  <2>2. ASSUME NEW q \in log, q.as # As(s) PROVE q.at <= r.at
    <3>1. ~(q.at > from)
      BY <2>2 DEF Run
    <3> QED
      BY <1>0, <3>1
  <2> QED
    BY <1>1, <2>1, <2>2, LoggedIs
<1>3. \E r \in Logged(s) : r.as = As(s) /\ r.at = from
  <2>1. PICK r \in log : r.as = As(s) /\ r.at = from
    BY DEF Run
  <2> QED
    BY <1>0, <1>2, <2>1
<1>4. \A r \in Logged(s) : r.at > from => r.as = As(s)
  BY LoggedIs DEF Run
<1>5. ASSUME NEW r \in Logged(s), r.at \in from..s.at - 1
      PROVE  \E q \in Logged(s) : q.at - r.at \in 1..MaxSampleGap
  <2>0. r.at \in Nat
    BY LoggedIs
  <2>1. r \in log /\ r.at \in Nat /\ r.at <= last /\ r.at >= from /\ r.at < s.at
    <3>1. r.at >= from /\ r.at < s.at
      BY <1>0, <1>5, <2>0
    <3>2. r \in log
      BY <1>0, <2>0, <3>1, LoggedIs
    <3> QED
      BY <2>0, <3>1, <3>2
  <2>2. CASE r.at = last
    <3>1. PICK q \in Logged(s) : q.at = s.at
      BY LoggedIs
    <3>2. q.at - r.at \in 1..MaxSampleGap
      BY <1>0, <2>1, <2>2, <3>1, Constants
    <3> QED
      BY <3>2
  <2>3. CASE r.at # last
    <3>1. r.at \in from..last - 1
      BY <1>0, <2>1, <2>3
    <3>2. PICK q \in log : q.at - r.at \in 1..MaxSampleGap
      BY <2>1, <3>1 DEF Run
    <3>3. q.at >= from
      BY <1>0, <2>1, <3>2, Constants
    <3> QED
      BY <1>2, <3>2, <3>3
  <2> QED
    BY <2>2, <2>3
<1> QED
  BY <1>3, <1>4, <1>5 DEF Run

\* A run is the streak that the properties speak of.
LEMMA RunIsStreak ==
  ASSUME NEW samples, NEW as, NEW from, NEW last, NEW length,
         Run(samples, as, from, last), last - from >= length
  PROVE  Streak(samples, as, last, length)
  BY DEF Run, Streak

LEMMA RunsInit == Init => Runs
  BY DEF Init, Runs, NoHistory

\* What a saved sample makes of a streak of the history.
LEMMA StreakSaved ==
  ASSUME LockInv, Runs, NEW s \in Samples, NEW from \in Times,
         \/ from = s.at
         \/ /\ Supports(hist, s)
            /\ Run(log, As(s), from, hist.lastSampleAt)
            /\ from <= hist.lastSampleAt
            /\ s.at - from <= RecoverSustain + MaxSampleGap
  PROVE  Run(Logged(s), As(s), from, s.at)
<1>t. TypeOK
  BY DEF LockInv, Typed
<1>1. CASE from = s.at
  BY <1>1, <1>t, RunStarts
<1>2. CASE from # s.at
  <2>1. hist.lastSampleAt \in Times
    BY <1>2, <1>t DEF Supports, TypeOK, Histories
  <2> QED
    BY <1>2, <1>t, <2>1, RunGoesOn DEF Runs, Supports
<1> QED
  BY <1>1, <1>2

LEMMA RunsStep ==
    InGoodTime /\ QuickToDefer /\ LockInv /\ Runs /\ [Next]_vars => Runs'
<1> SUFFICES ASSUME InGoodTime, QuickToDefer, LockInv, Runs, [Next]_vars PROVE Runs'
  OBVIOUS
<1>t. TypeOK
  BY DEF LockInv, Typed
<1>1. ASSUME NEW p \in Procs, Save(p) PROVE Runs'
  <2> DEFINE s == sample[p]
             next == Evaluate(hist, s)
  <2>1. hist' = next /\ log' = Logged(s) /\ s \in Samples /\ hist \in Histories
        /\ Named(hist)
    BY <1>1, <1>t DEF Save, LockInv, Loaded, Evaluating, Go, TypeOK, Named
  <2>2. next.lastSampleAt = s.at /\ next \in Histories
    BY <2>1, EvaluateKeeps, EvaluateType
  <2>3. s.at \in Nat
    BY <2>1, <1>t, LoggedTimes
  <2> HIDE DEF s, next
  <2>4. \A r \in log' : r.at <= hist'.lastSampleAt
    BY <1>t, <2>1, <2>2, LoggedIs
  <2>5. ASSUME hist'.active, hist'.recoverSince # Never
        PROVE  /\ Run(log', "good", hist'.recoverSince, hist'.lastSampleAt)
               /\ hist'.lastSampleAt - hist'.recoverSince \in 0..RecoverSustain - 1
    <3> DEFINE from == next.recoverSince
    <3>1. from \in Times /\ from \in Nat
      BY <2>1, <2>2, <2>5, Constants DEF Histories
    <3>2. hist.active
      BY <2>1, <2>5, Excursion DEF next
    <3>3. s.kind = "good" /\ s.at - from < RecoverSustain
          /\ (from = s.at \/ (Supports(hist, s) /\ hist.recoverSince = from))
      BY <2>1, <2>5, <3>2, Recovery DEF next
    <3>4. As(s) = "good"
      BY <3>3 DEF As
    <3>5. CASE from = s.at
      <4>1. Run(Logged(s), "good", from, s.at)
        BY <2>1, <3>1, <3>4, <3>5, StreakSaved
      <4>2. s.at - from \in 0..RecoverSustain - 1
        BY <2>3, <3>5, Constants
      <4> QED
        BY <2>1, <2>2, <4>1, <4>2
    <3>6. CASE from # s.at
      <4>1. Supports(hist, s) /\ hist.recoverSince = from /\ from # Never
        BY <3>3, <3>6, <2>1, <2>5
      <4>2. Run(log, "good", from, hist.lastSampleAt)
            /\ hist.lastSampleAt - from \in 0..RecoverSustain - 1
        BY <3>2, <4>1 DEF Runs
      <4>3. hist.lastSampleAt \in Times /\ hist.lastSampleAt \in Nat
        BY <2>1, <4>1, Constants DEF Supports, Histories
      <4>4. from <= hist.lastSampleAt /\ s.at - from <= RecoverSustain + MaxSampleGap
            /\ from <= s.at
        BY <2>3, <3>1, <4>1, <4>2, <4>3, Constants DEF Supports
      <4>5. Run(Logged(s), "good", from, s.at)
        BY <2>1, <3>1, <3>4, <4>1, <4>2, <4>4, StreakSaved
      <4> QED
        BY <2>1, <2>2, <2>3, <3>1, <3>3, <4>4, <4>5, Constants
    <3> QED
      BY <3>5, <3>6
  <2>6. ASSUME ~hist'.active, hist'.overSince # Never
        PROVE  /\ Run(log', "over", hist'.overSince, hist'.lastSampleAt)
               /\ hist'.lastSampleAt - hist'.overSince \in 0..DeferSustain - 1
    <3> DEFINE from == next.overSince
    <3>1. from \in Times /\ from \in Nat
      BY <2>1, <2>2, <2>6, Constants DEF Histories
    <3>2. ~hist.active
      BY <2>1, <2>6, Recovery DEF next
    <3>3. Over(s) /\ s.at - from < DeferSustain
          /\ (from = s.at \/ (Supports(hist, s) /\ hist.overSince = from))
      BY <2>1, <2>6, <3>2, Excursion DEF next
    <3>4. As(s) = "over"
      BY <3>3 DEF As, Over
    <3>5. CASE from = s.at
      <4>1. Run(Logged(s), "over", from, s.at)
        BY <2>1, <3>1, <3>4, <3>5, StreakSaved
      <4>2. s.at - from \in 0..DeferSustain - 1
        BY <2>3, <3>5, Constants
      <4> QED
        BY <2>1, <2>2, <4>1, <4>2
    <3>6. CASE from # s.at
      <4>1. Supports(hist, s) /\ hist.overSince = from /\ from # Never
        BY <3>3, <3>6, <2>1, <2>6
      <4>2. Run(log, "over", from, hist.lastSampleAt)
            /\ hist.lastSampleAt - from \in 0..DeferSustain - 1
        BY <3>2, <4>1 DEF Runs
      <4>3. hist.lastSampleAt \in Times /\ hist.lastSampleAt \in Nat
        BY <2>1, <4>1, Constants DEF Supports, Histories
      <4>4. from <= hist.lastSampleAt /\ s.at - from <= RecoverSustain + MaxSampleGap
            /\ from <= s.at
        BY <2>3, <3>1, <4>1, <4>2, <4>3, Constants DEF Supports, QuickToDefer
      <4>5. Run(Logged(s), "over", from, s.at)
        BY <2>1, <3>1, <3>4, <4>1, <4>2, <4>4, StreakSaved
      <4> QED
        BY <2>1, <2>2, <2>3, <3>1, <3>3, <4>4, <4>5, Constants
    <3> QED
      BY <3>5, <3>6
  <2> QED
    BY <2>4, <2>5, <2>6 DEF Runs
<1>2. ASSUME UNCHANGED <<hist, log>> PROVE Runs'
  BY <1>2 DEF Runs, Run
<1>3. (\E p \in Procs : Save(p)) \/ UNCHANGED <<hist, log>>
  BY DEF Next, Pass, Tick, SetBack, Enter, Judge, RemoveStale, Retry, Probe, Release, Fail,
         Claim, Sweep, Send, SendFails, Kill, vars
<1> QED
  BY <1>1, <1>2, <1>3

\* The streak that a saved sample completes.
LEMMA RecoveryStep ==
    InGoodTime /\ LockInv /\ Runs /\ [Next]_vars =>
        (hist.active /\ ~hist'.active =>
             Streak(log', "good", hist'.lastSampleAt, RecoverSustain))
<1> SUFFICES ASSUME LockInv, Runs, [Next]_vars, hist.active, ~hist'.active
             PROVE  Streak(log', "good", hist'.lastSampleAt, RecoverSustain)
  OBVIOUS
<1>t. TypeOK
  BY DEF LockInv, Typed
<1>1. PICK p \in Procs : Save(p)
  BY DEF Next, Pass, Tick, SetBack, Enter, Judge, RemoveStale, Retry, Probe, Release, Fail,
         Claim, Sweep, Send, SendFails, Kill, vars
<1> DEFINE s == sample[p]
           next == Evaluate(hist, s)
           from == hist.recoverSince
<1>2. hist' = next /\ log' = Logged(s) /\ s \in Samples /\ hist \in Histories /\ Named(hist)
  BY <1>1, <1>t DEF Save, LockInv, Loaded, Evaluating, Go, TypeOK, Named
<1>3. next.lastSampleAt = s.at
  BY <1>2, EvaluateKeeps
<1>4. s.kind = "good" /\ Supports(hist, s) /\ from # Never /\ s.at - from >= RecoverSustain
  BY <1>2, Recovery
<1>5. As(s) = "good" /\ s.at \in Nat
  BY <1>2, <1>4, <1>t, LoggedTimes DEF As
<1> HIDE DEF s, next
<1>6. Run(log, "good", from, hist.lastSampleAt)
      /\ hist.lastSampleAt - from \in 0..RecoverSustain - 1
  BY <1>4 DEF Runs
<1>7. from \in Times /\ from \in Nat /\ hist.lastSampleAt \in Times /\ hist.lastSampleAt \in Nat
  BY <1>2, <1>4, Constants DEF Supports, Histories
<1>8. from <= hist.lastSampleAt /\ s.at - from <= RecoverSustain + MaxSampleGap
  BY <1>4, <1>5, <1>6, <1>7, Constants DEF Supports
<1>9. Run(Logged(s), "good", from, s.at)
  BY <1>2, <1>4, <1>5, <1>6, <1>7, <1>8, StreakSaved
<1> QED
  BY <1>2, <1>3, <1>4, <1>9, RunIsStreak

LEMMA ExcursionStep ==
    InGoodTime /\ QuickToDefer /\ LockInv /\ Runs =>
        (~hist.active /\ hist'.active =>
             \A p \in Procs : Save(p) /\ ~Hard(sample[p]) =>
                 Streak(log', "over", hist'.lastSampleAt, DeferSustain))
<1> SUFFICES ASSUME QuickToDefer, LockInv, Runs, ~hist.active, hist'.active,
                    NEW p \in Procs, Save(p), ~Hard(sample[p])
             PROVE  Streak(log', "over", hist'.lastSampleAt, DeferSustain)
  OBVIOUS
<1>t. TypeOK
  BY DEF LockInv, Typed
<1> DEFINE s == sample[p]
           next == Evaluate(hist, s)
           from == hist.overSince
<1>2. hist' = next /\ log' = Logged(s) /\ s \in Samples /\ hist \in Histories /\ Named(hist)
  BY <1>t DEF Save, LockInv, Loaded, Evaluating, Go, TypeOK, Named
<1>3. next.lastSampleAt = s.at
  BY <1>2, EvaluateKeeps
<1>4. Over(s) /\ Supports(hist, s) /\ from # Never /\ s.at - from >= DeferSustain
  BY <1>2, Excursion
<1>5. As(s) = "over" /\ s.at \in Nat
  BY <1>2, <1>4, <1>t, LoggedTimes DEF As, Over
<1> HIDE DEF s, next
<1>6. Run(log, "over", from, hist.lastSampleAt)
      /\ hist.lastSampleAt - from \in 0..DeferSustain - 1
  BY <1>4 DEF Runs
<1>7. from \in Times /\ from \in Nat /\ hist.lastSampleAt \in Times /\ hist.lastSampleAt \in Nat
  BY <1>2, <1>4, Constants DEF Supports, Histories
<1>8. from <= hist.lastSampleAt /\ s.at - from <= RecoverSustain + MaxSampleGap
  BY <1>4, <1>5, <1>6, <1>7, Constants DEF Supports, QuickToDefer
<1>9. Run(Logged(s), "over", from, s.at)
  BY <1>2, <1>4, <1>5, <1>6, <1>7, <1>8, StreakSaved
<1> QED
  BY <1>2, <1>3, <1>4, <1>9, RunIsStreak

\* The two sustain windows, for any of their lengths (an excursion not longer
\* than a recovery), any number of invocations and a clock that is set back:
\* an episode ends only after good samples alone for the whole window, ...
THEOREM Recoveries == InGoodTime /\ QuickToDefer => (Spec => RecoveryEarned)
<1> SUFFICES ASSUME InGoodTime, QuickToDefer PROVE Spec => RecoveryEarned
  OBVIOUS
<1>1. InGoodTime /\ QuickToDefer /\ LockInv /\ Runs /\ [Next]_vars => LockInv' /\ Runs'
  BY LockStep, RunsStep
<1>2. InGoodTime /\ LockInv /\ Runs /\ [Next]_vars =>
          [hist.active /\ ~hist'.active =>
               Streak(log', "good", hist'.lastSampleAt, RecoverSustain)]_vars
  BY RecoveryStep
<1> QED
  BY <1>1, <1>2, LockInit, RunsInit, PTL DEF Spec, RecoveryEarned

\* ... and load alone opens one only after a sustained excursion.
THEOREM Excursions == InGoodTime /\ QuickToDefer => (Spec => ExcursionSustained)
<1> SUFFICES ASSUME InGoodTime, QuickToDefer PROVE Spec => ExcursionSustained
  OBVIOUS
<1>1. InGoodTime /\ QuickToDefer /\ LockInv /\ Runs /\ [Next]_vars => LockInv' /\ Runs'
  BY LockStep, RunsStep
<1>2. InGoodTime /\ QuickToDefer /\ LockInv /\ Runs /\ [Next]_vars =>
          [~hist.active /\ hist'.active =>
               \A p \in Procs : Save(p) /\ ~Hard(sample[p]) =>
                   Streak(log', "over", hist'.lastSampleAt, DeferSustain)]_vars
  BY ExcursionStep
<1> QED
  BY <1>1, <1>2, LockInit, RunsInit, PTL DEF Spec, ExcursionSustained

=============================================================================
