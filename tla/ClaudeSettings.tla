--------------------------- MODULE ClaudeSettings ---------------------------
(***************************************************************************)
(* Mutate (internal/claudecfg/claudecfg.go): how dot changes the settings  *)
(* file that Claude Code and the user rewrite at any time.  The document   *)
(* is read and edited without the lock, read again under the lock, and     *)
(* written by a rename when it is still what was read.                     *)
(*                                                                         *)
(* The lock binds dot alone.  It is the lock that PIDLock implements: its  *)
(* steps are those of SlotLock.                                            *)
(*                                                                         *)
(* A configuration admits or not:                                          *)
(*   "lateWrite"  another program writes between the comparison and the    *)
(*                rename                                                   *)
(***************************************************************************)
EXTENDS Naturals, FiniteSets

CONSTANTS
    Writers,  \* dot processes; each makes the edit that has its name
    Others,   \* edits of other programs
    NoWriter, \* no process
    Windows   \* the windows that are hit

ASSUME ClaudeSettingsAssumption ==
    /\ NoWriter \notin Writers
    /\ Writers \cap Others = {}
    /\ Windows \subseteq {"lateWrite"}

mutateAttempts == 2

VARIABLES
    doc,     \* settings.json: the edits in it, and whether it is JSON
    place,   \* where Mutate stands in each process
    raw,     \* the document it read
    tries,   \* comparisons that failed
    writer,  \* the process that holds the lock
    done     \* edits made: acknowledged by Mutate, or by another program

mutateVars == <<doc, place, raw, tries, writer, done>>

SettingsLock == INSTANCE SlotLock WITH Procs <- Writers, Nobody <- NoWriter, holder <- writer

Docs == [edits : SUBSET (Writers \cup Others), valid : BOOLEAN]
Places == {"idle", "read", "acquire", "compare", "write", "leave"}

MutateInit ==
    /\ doc = [edits |-> {}, valid |-> TRUE]
    /\ place = [p \in Writers |-> "idle"]
    /\ raw = [p \in Writers |-> doc]
    /\ tries = [p \in Writers |-> 0]
    /\ writer = NoWriter
    /\ done = {}

GoOn(p, from, to) == place[p] = from /\ place' = [place EXCEPT ![p] = to]

Mutate(p) ==
    /\ GoOn(p, "idle", "read")
    /\ tries' = [tries EXCEPT ![p] = 0]
    /\ UNCHANGED <<doc, raw, writer, done>>

\* The edit applies to what was read.  Invalid JSON, and an edit that changes
\* nothing, end the run.
Read(p) ==
    /\ \/ doc.valid /\ p \notin doc.edits
          /\ GoOn(p, "read", IF writer = p THEN "compare" ELSE "acquire")
       \/ (~doc.valid \/ p \in doc.edits) /\ GoOn(p, "read", "leave")
    /\ raw' = [raw EXCEPT ![p] = doc]
    /\ UNCHANGED <<doc, tries, writer, done>>

\* AcquirePIDLock does not wait.
AcquireLock(p) ==
    /\ \/ SettingsLock!Enter(p) /\ GoOn(p, "acquire", "compare")
       \/ writer # NoWriter /\ GoOn(p, "acquire", "leave") /\ UNCHANGED writer
    /\ UNCHANGED <<doc, raw, tries, done>>

Same(p) == GoOn(p, "compare", "write") /\ UNCHANGED tries

Differs(p, next) ==
    /\ GoOn(p, "compare", next)
    /\ tries' = [tries EXCEPT ![p] = tries[p] + 1]

\* Mutant: the document is not read again under the lock.
CompareNever(p) ==
    /\ Same(p)
    /\ UNCHANGED <<doc, raw, writer, done>>

\* Another writer came between: edit its document instead, once.
Compare(p) ==
    /\ \/ doc = raw[p] /\ Same(p)
       \/ doc # raw[p]
          /\ Differs(p, IF tries[p] + 1 < mutateAttempts THEN "read" ELSE "leave")
    /\ UNCHANGED <<doc, raw, writer, done>>

\* EnsureFileAtomic
Write(p) ==
    /\ GoOn(p, "write", "leave")
    /\ doc' = [edits |-> raw[p].edits \cup {p}, valid |-> TRUE]
    /\ done' = done \cup {p}
    /\ UNCHANGED <<raw, tries, writer>>

\* The deferred release.
ReleaseLock(p) ==
    /\ GoOn(p, "leave", "idle")
    /\ \/ SettingsLock!Leave(p)
       \/ writer # p /\ UNCHANGED writer
    /\ UNCHANGED <<doc, raw, tries, done>>

\* A lock that a killed process held is reclaimed as stale.
KillMutate(p) ==
    /\ place[p] # "idle"
    /\ place' = [place EXCEPT ![p] = "idle"]
    /\ \/ SettingsLock!Leave(p)
       \/ writer # p /\ UNCHANGED writer
    /\ UNCHANGED <<doc, raw, tries, done>>

-----------------------------------------------------------------------------
(* Claude Code, and the user's editor.  Their writes are as quick as they   *)
(* like, but no lock keeps them out of the last moment of a write of dot.  *)

Elsewhere == "lateWrite" \in Windows \/ \A p \in Writers : place[p] # "write"

Other(e) ==
    /\ Elsewhere
    /\ doc.valid
    /\ e \notin doc.edits
    /\ doc' = [doc EXCEPT !.edits = @ \cup {e}]
    /\ done' = done \cup {e}
    /\ UNCHANGED <<place, raw, tries, writer>>

Retract(e) ==
    /\ Elsewhere
    /\ doc.valid
    /\ e \in doc.edits
    /\ doc' = [doc EXCEPT !.edits = @ \ {e}]
    /\ done' = done \ {e}
    /\ UNCHANGED <<place, raw, tries, writer>>

\* A typing error makes the file invalid until it is repaired.
Typo ==
    /\ Elsewhere
    /\ doc' = [doc EXCEPT !.valid = ~@]
    /\ UNCHANGED <<place, raw, tries, writer, done>>

MutateStep(p) == Read(p) \/ AcquireLock(p) \/ Compare(p) \/ Write(p) \/ ReleaseLock(p)

MutateNext ==
    \/ \E p \in Writers : Mutate(p) \/ MutateStep(p) \/ KillMutate(p)
    \/ \E e \in Others : Other(e)
    \/ \E e \in Writers \cup Others : Retract(e)
    \/ Typo

MutateSpec == MutateInit /\ [][MutateNext]_mutateVars

-----------------------------------------------------------------------------
(* Properties *)

\* The variables have their types, and Mutate compares twice at most.
MutateTypeOK ==
    /\ doc \in Docs
    /\ place \in [Writers -> Places]
    /\ raw \in [Writers -> Docs]
    /\ tries \in [Writers -> 0..mutateAttempts]
    /\ writer \in Writers \cup {NoWriter}
    /\ done \subseteq Writers \cup Others

\* The file holds the edits that were made and not taken back, of dot and of
\* every other program, and nothing else: a write of dot loses none of them
\* and brings none back.
NoEditLost == doc.edits = done

=============================================================================
