--------------------------- MODULE AdmissionGate ---------------------------
(***************************************************************************)
(* The pressure gate before an admission slot (internal/admission):        *)
(* GateWithPolicy samples the host under a lock and judges the sample      *)
(* against a history that the invocations of dot share, with hysteresis in *)
(* both directions; ClaimNotify lets one deferred invocation send the      *)
(* alert of an episode.                                                    *)
(*                                                                         *)
(* Times are readings of the wall clock, in units of the largest gap       *)
(* between samples that still proves a streak, or a fraction of it.        *)
(*                                                                         *)
(* A sample is one of                                                      *)
(*   good      nothing is wrong and the host has recovered                 *)
(*   fair      no reason to defer, not good enough to end an episode       *)
(*   over      the CPU is past the defer threshold                         *)
(*   hard      memory, heat, a WindowServer kill, or a probe that failed   *)
(*   overHard  both                                                        *)
(*                                                                         *)
(* A configuration admits or not:                                          *)
(*   "slowPass"    an evaluation outlives the age at which its lock counts *)
(*                 as abandoned                                            *)
(*   "lateRemove"  two invocations judge one lock abandoned                *)
(*   "slowClaim"   an episode ends while an invocation that it deferred    *)
(*                 has not finished its alert                              *)
(***************************************************************************)
EXTENDS Integers

CONSTANTS
    Procs,           \* invocations of dot
    MaxSampleGap,    \* th.MaxSampleGap, 45 s
    DeferSustain,    \* th.DeferSustain, 60 s
    RecoverSustain,  \* th.RecoverSustain, 5 min
    StaleAfter,      \* historyLockStaleAfter, 3 min
    Kinds,           \* the samples that occur, of the above
    MaxClock,        \* bound of the clock
    Faults           \* what may happen of the above

ASSUME AdmissionGateAssumption ==
    /\ {MaxSampleGap, DeferSustain, RecoverSustain, StaleAfter, MaxClock} \subseteq Nat \ {0}
    /\ Kinds \subseteq {"good", "fair", "over", "hard", "overHard"}
    /\ Faults \subseteq {"slowPass", "lateRemove", "slowClaim"}

Never == -1

VARIABLES
    now,     \* the wall clock
    hist,    \* history.json
    lock,    \* the time of history.lock, Never when it is absent
    pc,      \* where an invocation stands
    mem,     \* the history it loaded
    sample,  \* what it sampled, and when
    episode, \* the episode that defers it
    marks,   \* episodes with a mark in the notify directory
    log,     \* the samples that were saved, as far back as one can matter
    alerts,  \* alerts of the current episode that some channel delivered
    whole    \* whether one of them reached every channel

vars == <<now, hist, lock, pc, mem, sample, episode, marks, log, alerts, whole>>

Times == 0..MaxClock
Samples == [at : Times, kind : Kinds \cup {"good"}]
Histories == [active : BOOLEAN, deferSince : Times \cup {Never},
              overSince : Times \cup {Never}, recoverSince : Times \cup {Never},
              lastSampleAt : Times \cup {Never}]

NoHistory == [active |-> FALSE, deferSince |-> Never, overSince |-> Never,
              recoverSince |-> Never, lastSampleAt |-> Never]
NoSample == [at |-> 0, kind |-> "good"]

Init ==
    /\ now = 0
    /\ hist = NoHistory
    /\ lock = Never
    /\ pc = [p \in Procs |-> "idle"]
    /\ mem = [p \in Procs |-> NoHistory]
    /\ sample = [p \in Procs |-> NoSample]
    /\ episode = [p \in Procs |-> Never]
    /\ marks = {}
    /\ log = {}
    /\ alerts = 0
    /\ whole = FALSE

-----------------------------------------------------------------------------
(* EvaluatePressure *)

Over(s) == s.kind \in {"over", "overHard"}
Hard(s) == s.kind \in {"hard", "overHard"}

\* Mutant: a gap between the samples does not break a streak.
PrepareGapless(h, s) ==
    IF h.lastSampleAt = Never \/ s.at < h.lastSampleAt
    THEN [h EXCEPT !.overSince = Never, !.recoverSince = Never]
    ELSE h

\* PrepareHistorySample: the streaks that the last sample can support.
Prepare(h, s) ==
    IF h.lastSampleAt = Never \/ s.at < h.lastSampleAt \/ s.at - h.lastSampleAt > MaxSampleGap
    THEN [h EXCEPT !.overSince = Never, !.recoverSince = Never]
    ELSE h

\* What a sample says of the streaks: one of them goes on, or both break.
As(s) == IF s.kind = "good" THEN "good" ELSE IF Over(s) THEN "over" ELSE "other"

Since(t, s) == IF t = Never THEN s.at ELSE t

\* Mutant: a sample below the threshold does not end the excursion.
OverSinceSticky(h, s) == IF Over(s) THEN Since(h.overSince, s) ELSE h.overSince

OverSince(h, s) == IF Over(s) THEN Since(h.overSince, s) ELSE Never

\* A brief excursion is recorded but admitted.
Reason(h, s) ==
    \/ Hard(s)
    \/ Over(s) /\ s.at - OverSince(h, s) >= DeferSustain

\* The episode that a reason opens or goes on with.
Deferred(h, s) ==
    [h EXCEPT !.active = TRUE,
              !.deferSince = IF h.active THEN @ ELSE s.at,
              !.recoverSince = Never]

Recovered(h) ==
    [h EXCEPT !.active = FALSE, !.deferSince = Never, !.recoverSince = Never]

\* Inside an episode: the streak of good samples, and its end.
Recovering(h, s) ==
    IF s.kind # "good" THEN [h EXCEPT !.recoverSince = Never]
    ELSE IF s.at - Since(h.recoverSince, s) >= RecoverSustain THEN Recovered(h)
    ELSE [h EXCEPT !.recoverSince = Since(@, s)]

\* The history after a sample; it admits when no episode is active.
Evaluate(h0, s) ==
    LET h1 == Prepare(h0, s)
        h2 == [h1 EXCEPT !.overSince = OverSince(h1, s), !.lastSampleAt = s.at]
    IN  IF Reason(h1, s) THEN Deferred(h2, s)
        ELSE IF h2.active THEN Recovering(h2, s)
        ELSE h2

-----------------------------------------------------------------------------
(* GateWithPolicy *)

Go(p, from, to) == pc[p] = from /\ pc' = [pc EXCEPT ![p] = to]

Evaluating(p) == pc[p] \in {"probe", "save"}

\* Mkdir succeeds; the history is loaded.
Take(p) ==
    /\ lock = Never
    /\ lock' = now
    /\ mem' = [mem EXCEPT ![p] = hist]

Enter(p) ==
    /\ Take(p)
    /\ Go(p, "idle", "probe")
    /\ UNCHANGED <<now, hist, sample, episode, marks, log, alerts, whole>>

\* Mutant: any lock that is there counts as abandoned.
JudgeAny(p) ==
    /\ lock # Never
    /\ Go(p, "idle", "stale")
    /\ UNCHANGED <<now, hist, lock, mem, sample, episode, marks, log, alerts, whole>>

\* A younger lock is busy: the invocation is deferred without an episode.
Judge(p) ==
    /\ lock # Never
    /\ now - lock > StaleAfter
    /\ "lateRemove" \in Faults \/ \A q \in Procs : pc[q] # "stale"
    /\ Go(p, "idle", "stale")
    /\ UNCHANGED <<now, hist, lock, mem, sample, episode, marks, log, alerts, whole>>

\* os.Remove, of whichever lock is there by now.
RemoveStale(p) ==
    /\ Go(p, "stale", "retry")
    /\ lock' = Never
    /\ UNCHANGED <<now, hist, mem, sample, episode, marks, log, alerts, whole>>

\* The second and last attempt.  It may remove another abandoned lock, as a
\* further invocation does that is killed after it.
Retry(p) ==
    /\ \/ Take(p) /\ Go(p, "retry", "probe")
       \/ lock # Never /\ Go(p, "retry", "idle") /\ UNCHANGED <<lock, mem>>
    /\ UNCHANGED <<now, hist, sample, episode, marks, log, alerts, whole>>

\* The probes are done, the clock is read and the lock touched.
Probe(p, kind) ==
    /\ Go(p, "probe", "save")
    /\ sample' = [sample EXCEPT ![p] = [at |-> now, kind |-> kind]]
    /\ lock' = IF lock = Never THEN Never ELSE now
    /\ UNCHANGED <<now, hist, mem, episode, marks, log, alerts, whole>>

\* What was sampled before and can still be part of a streak: not later than s,
\* nor older than any window, nor older than a sample that broke the streak.
Logged(s) ==
    LET new == [at |-> s.at, as |-> As(s)]
        recent == {r \in log : s.at - r.at \in 0..RecoverSustain + MaxSampleGap}
        other == {r \in recent : r.as # new.as}
    IN  {new} \cup (IF \E r \in log : r.at > s.at THEN {}
                    ELSE {r \in recent : \A q \in other : q.at <= r.at})

\* SaveHistory, a rename.
Save(p) ==
    LET next == Evaluate(mem[p], sample[p]) IN
    /\ "slowClaim" \in Faults \/ next.active \/ \A q \in Procs : episode[q] = Never
    /\ Go(p, "save", "release")
    /\ hist' = next
    /\ episode' = [episode EXCEPT ![p] = next.deferSince]
    /\ log' = Logged(sample[p])
    /\ alerts' = IF next.active /\ ~hist.active THEN 0 ELSE alerts
    /\ whole' = (whole /\ ~(next.active /\ ~hist.active))
    /\ mem' = [mem EXCEPT ![p] = NoHistory]
    /\ sample' = [sample EXCEPT ![p] = NoSample]
    /\ UNCHANGED <<now, lock, marks>>

\* The deferred release; an admitted invocation goes on to its slot.
Release(p) ==
    /\ Go(p, "release", IF episode[p] = Never THEN "idle" ELSE "claim")
    /\ lock' = Never
    /\ UNCHANGED <<now, hist, mem, sample, episode, marks, log, alerts, whole>>

\* The history cannot be read or written.
Fail(p) ==
    /\ Evaluating(p)
    /\ pc' = [pc EXCEPT ![p] = "idle"]
    /\ lock' = Never
    /\ mem' = [mem EXCEPT ![p] = NoHistory]
    /\ sample' = [sample EXCEPT ![p] = NoSample]
    /\ UNCHANGED <<now, hist, episode, marks, log, alerts, whole>>

-----------------------------------------------------------------------------
(* ClaimNotify and notifyDefer *)

End(p, from) ==
    /\ Go(p, from, "idle")
    /\ episode' = [episode EXCEPT ![p] = Never]

\* Mutant: a mark that exists does not stop the claim.
ClaimOver(p) ==
    /\ Go(p, "claim", "sweep") /\ UNCHANGED episode
    /\ marks' = marks \cup {episode[p]}
    /\ UNCHANGED <<now, hist, lock, mem, sample, log, alerts, whole>>

\* O_EXCL: one invocation creates the mark of an episode.
Claim(p) ==
    /\ \/ episode[p] \notin marks /\ Go(p, "claim", "sweep") /\ UNCHANGED episode
       \/ episode[p] \in marks /\ End(p, "claim")
    /\ marks' = marks \cup {episode[p]}
    /\ UNCHANGED <<now, hist, lock, mem, sample, log, alerts, whole>>

\* The marks of all other episodes go.
Sweep(p) ==
    /\ Go(p, "sweep", "send")
    /\ marks' = marks \cap {episode[p]}
    /\ UNCHANGED <<now, hist, lock, mem, sample, episode, log, alerts, whole>>

\* Counting one more alert than one tells all there is to tell.
Again == IF alerts = 2 THEN 2 ELSE alerts + 1

Send(p) ==
    /\ End(p, "send")
    /\ alerts' = Again
    /\ whole' = TRUE
    /\ UNCHANGED <<now, hist, lock, mem, sample, marks, log>>

\* Notify tries every channel and joins their errors: some may have delivered.
\* The claim is given up, and the next deferral claims.
SendFails(p) ==
    /\ End(p, "send")
    /\ marks' = marks \ {episode[p]}
    /\ alerts' \in {alerts, Again}
    /\ UNCHANGED <<now, hist, lock, mem, sample, log, whole>>

-----------------------------------------------------------------------------
Kill(p) ==
    /\ pc[p] # "idle"
    /\ pc' = [pc EXCEPT ![p] = "idle"]
    /\ mem' = [mem EXCEPT ![p] = NoHistory]
    /\ sample' = [sample EXCEPT ![p] = NoSample]
    /\ episode' = [episode EXCEPT ![p] = Never]
    /\ UNCHANGED <<now, hist, lock, marks, log, alerts, whole>>

\* A live pass ends, or touches its lock, before the lock looks abandoned.
InTime ==
    \A p \in Procs : Evaluating(p) \/ pc[p] = "release" => now - lock < StaleAfter

Tick ==
    /\ now < MaxClock
    /\ "slowPass" \in Faults \/ InTime
    /\ now' = now + 1
    /\ UNCHANGED <<hist, lock, pc, mem, sample, episode, marks, log, alerts, whole>>

\* The clock is set back, while no invocation runs.
SetBack ==
    /\ \A p \in Procs : pc[p] = "idle"
    /\ now > 0
    /\ now' = now - 1
    /\ UNCHANGED <<hist, lock, pc, mem, sample, episode, marks, log, alerts, whole>>

Pass(p) ==
    \/ Enter(p) \/ Judge(p) \/ RemoveStale(p) \/ Retry(p)
    \/ \E kind \in Kinds : Probe(p, kind)
    \/ Save(p) \/ Release(p) \/ Fail(p)
    \/ Claim(p) \/ Sweep(p) \/ Send(p) \/ SendFails(p)
    \/ Kill(p)

Next == Tick \/ SetBack \/ \E p \in Procs : Pass(p)

Spec == Init /\ [][Next]_vars

-----------------------------------------------------------------------------
(* Properties *)

\* The variables have their types, and an episode has a name while it lasts.
TypeOK ==
    /\ now \in Times
    /\ hist \in Histories /\ (hist.active <=> hist.deferSince # Never)
    /\ lock \in Times \cup {Never}
    /\ pc \in [Procs -> {"idle", "stale", "retry", "probe", "save", "release",
                         "claim", "sweep", "send"}]
    /\ mem \in [Procs -> Histories]
    /\ sample \in [Procs -> Samples]
    /\ episode \in [Procs -> Times \cup {Never}]
    /\ marks \subseteq Times
    /\ log \subseteq [at : Times, as : {"good", "over", "other"}]
    /\ alerts \in 0..2
    /\ whole \in BOOLEAN

\* The samples of the log show one streak that is at least that long at time
\* at, with no gap that could hide another sample.
Streak(samples, as, at, length) ==
    \E s \in samples :
        /\ s.as = as
        /\ at - s.at >= length
        /\ \A r \in samples :
               /\ r.at > s.at => r.as = as
               /\ r.at \in s.at..at - 1 =>
                      \E q \in samples : q.at - r.at \in 1..MaxSampleGap

\* An episode ends only when the samples that all invocations saved were good
\* for the whole recovery window, with no gap that could hide another.
RecoveryEarned ==
    [][hist.active /\ ~hist'.active =>
         Streak(log', "good", hist'.lastSampleAt, RecoverSustain)]_vars

\* A spike of the CPU alone opens no episode: it takes an excursion that every
\* sample of the window confirms.
ExcursionSustained ==
    [][~hist.active /\ hist'.active =>
         \A p \in Procs : Save(p) /\ ~Hard(sample[p]) =>
             Streak(log', "over", hist'.lastSampleAt, DeferSustain)]_vars

\* No two invocations load, judge and save the history at a time.
OneEvaluation == \A p, q \in Procs : Evaluating(p) /\ Evaluating(q) => p = q

\* An alert that reached every channel is the last of its episode, however many
\* invocations the episode defers, whichever are killed and whatever fails.
WholeAlertIsLast == whole => \A p \in Procs : pc[p] \notin {"sweep", "send"}

\* One episode sends at most one alert, as the comment of notifyDefer says.
\* False: one channel delivers, another fails, and the mark is given up.
OneAlert == alerts <= 1
=============================================================================
