------------------------------ MODULE HostMerge ------------------------------
(***************************************************************************)
(* A host file that both Macs rewrite on their own (~/.claude.json) and    *)
(* that `dot peer sync` merges entry by entry: planHostMerges,             *)
(* mergePeerHostFiles, writeHostMerges and pushMergedCopy in               *)
(* internal/syncer/peer_host_merge.go, and the additive and create-only    *)
(* passes of peerHomeSync (peer_commands.go) around them.                  *)
(*                                                                         *)
(* One file listed under host_merge, on the two Macs; the decisions about  *)
(* several files are independent. An app on either Mac loads the file and  *)
(* saves it whole, from what it holds in memory, whenever it likes. A step *)
(* of the run is one look at a copy or one copy written; the run may stop  *)
(* between any two.                                                        *)
(*                                                                         *)
(* "race" in Races admits a save in the two windows that no check closes:  *)
(* here between the look at the size and mtime and the rename, on the peer *)
(* between the second read and the push.                                   *)
(***************************************************************************)
EXTENDS Naturals, FiniteSets

CONSTANTS
    Names,     \* entries of the configured top-level keys
    Others,    \* the values of everything else in the file
    NoDoc,     \* an app that is not running
    Absent,    \* no file
    Odd,       \* a symlink or a directory
    Text,      \* a regular file that is not one JSON object
    MaxStops,  \* runs that stop half-way
    Races      \* subset of {"race"}

ASSUME HostMergeAssumption ==
    /\ {NoDoc, Absent, Odd, Text} \cap [entries : SUBSET Names, other : Others] = {}
    /\ Cardinality({NoDoc, Absent, Odd, Text}) = 4
    /\ MaxStops \in Nat
    /\ Races \subseteq {"race"}

VARIABLES
    file,     \* the copy of each Mac
    mem,      \* what the app of each Mac last loaded or saved
    stage,    \* where the run stands; "idle" when there is none
    mode,     \* "both", "push" or "pull"
    attempt,  \* 0 while planning, then the attempt of the merge
    touched,  \* the copy here was written since the run looked at it
    kind,     \* what the run saw here: "absent", "odd" or "regular"
    peerData, \* the copy of the peer as the run read it
    result,   \* what both Macs are to get
    saved,    \* Macs whose copy was written by somebody since the run's write
    stops

mergeRun == <<stage, mode, attempt, touched, kind, peerData, result>>
mergeVars == <<file, mem, mergeRun, saved, stops>>

Macs == {"here", "peer"}
Docs == [entries : SUBSET Names, other : Others]

Contents == Docs \cup {Absent, Odd, Text}
Regular == Docs \cup {Text}
Kinds == {"absent", "odd", "regular"}

Directions == {"both", "push", "pull"}
Stages == {"idle", "look", "decide", "passes", "checkhere", "checkpeer", "write",
           "push", "pullonly", "pushonly"}
hostMergeAttempts == 3

\* Mutant: the newer copy replaces the older one, as the additive pass does.
MergeKeysNewest(newer, older) == newer

\* Every entry either copy has; everything else is the newer copy's.
MergeKeys(newer, older) ==
    [entries |-> newer.entries \cup older.entries, other |-> newer.other]

NoMerge ==
    /\ stage' = "idle"
    /\ mode' = "both"
    /\ attempt' = 0
    /\ touched' = FALSE
    /\ kind' = "absent"
    /\ peerData' = Absent
    /\ result' = NoDoc
    /\ saved' = {}

MergeInit ==
    /\ file \in [Macs -> Docs \cup {Absent}]
    /\ mem = [m \in Macs |-> NoDoc]
    /\ stage = "idle"
    /\ mode = "both"
    /\ attempt = 0
    /\ touched = FALSE
    /\ kind = "absent"
    /\ peerData = Absent
    /\ result = NoDoc
    /\ saved = {}
    /\ stops = 0

-----------------------------------------------------------------------------
(* The run *)

Goto(l) == stage' = l

\* The run returns with an error, or ends.
End == NoMerge /\ UNCHANGED <<file, mem, stops>>

\* A kill, a lost connection or an error of any call.
Stop ==
    /\ stage # "idle"
    /\ stops < MaxStops
    /\ stops' = stops + 1
    /\ NoMerge
    /\ UNCHANGED <<file, mem>>

StartMerge(m) ==
    /\ stage = "idle"
    /\ mode' = m
    /\ Goto("look")
    /\ UNCHANGED <<file, mem, attempt, touched, kind, peerData, result, saved, stops>>

KindOf(c) == IF c = Absent THEN "absent" ELSE IF c = Odd THEN "odd" ELSE "regular"

\* planHostMerges: Lstat here, then the peer's copy over ssh.
Look ==
    /\ stage = "look"
    /\ kind' = KindOf(file["here"])
    /\ touched' = FALSE
    /\ peerData' = file["peer"]
    /\ Goto("decide")
    /\ UNCHANGED <<file, mem, mode, attempt, result, saved, stops>>

\* Planned, refused or merged, a file one Mac lacks is the create-only pass's.
OneMacOnly == kind = "absent" \/ peerData = Absent

\* The copy here is read after the Lstat; a refusal depends on both.
Mergeable == kind = "regular" /\ peerData \in Docs /\ file["here"] \in Docs

Refused == ~OneMacOnly /\ ~Mergeable

\* What the run saw is of use until it writes or goes on without writing.
Discard == touched' = FALSE /\ kind' = "absent" /\ peerData' = Absent

Keep == UNCHANGED <<touched, kind, peerData>>

\* Where a decision with nothing to write leads.
Onwards ==
    /\ Goto(IF attempt = 0 THEN "passes" ELSE "pullonly")
    /\ Discard
    /\ UNCHANGED <<attempt, result>>

\* The plan writes nothing; a merge goes on to its checks.  The mtime of the
\* peer is read to the second and by its own clock, so either copy may count
\* as the newer one.
Decide ==
    /\ stage = "decide"
    /\ ~Refused
    /\ \/ /\ attempt = 0 \/ OneMacOnly \/ file["here"] = peerData
          /\ Onwards
       \/ /\ attempt > 0 /\ ~OneMacOnly /\ file["here"] # peerData
          /\ \/ result' = MergeKeys(file["here"], peerData)
             \/ result' = MergeKeys(peerData, file["here"])
          /\ Goto("checkhere")
          /\ Keep
          /\ UNCHANGED attempt
    /\ UNCHANGED <<file, mem, mode, saved, stops>>

\* A two-way run stops on a file it cannot merge; a one-way run holds it.
Decline ==
    /\ stage = "decide"
    /\ Refused
    /\ IF mode = "both"
       THEN End
       ELSE Onwards /\ UNCHANGED <<file, mem, mode, saved, stops>>

\* The workspace and tracked passes; then the merge, of a two-way run only.
Passes ==
    /\ stage = "passes"
    /\ IF mode = "both"
       THEN attempt' = 1 /\ Goto("look")
       ELSE UNCHANGED attempt /\ Goto("pullonly")
    /\ UNCHANGED <<file, mem, mode, touched, kind, peerData, result, saved, stops>>

\* A copy that changed under the decision: decide again, three times at most.
Again ==
    IF attempt = hostMergeAttempts
    THEN End
    ELSE /\ attempt' = attempt + 1
         /\ result' = NoDoc
         /\ Goto("look")
         /\ Discard
         /\ UNCHANGED <<file, mem, mode, saved, stops>>

\* The copy is as it was decided on: go on to l.
Unchanged(l) == Goto(l) /\ UNCHANGED <<file, mem, mode, attempt, result, saved, stops>>

\* Mutant: the copy here is not looked at again.
CheckHereSkipped ==
    /\ stage = "checkhere"
    /\ Keep
    /\ Unchanged("checkpeer")

\* writeHostMerges: size and mtime here ...
CheckHere ==
    /\ stage = "checkhere"
    /\ IF touched THEN Again ELSE Keep /\ Unchanged("checkpeer")

\* ... the peer's copy again, whole (unreachable counts as changed) ...
CheckPeer ==
    /\ stage = "checkpeer"
    /\ IF file["peer"] # peerData THEN Again ELSE Discard /\ Unchanged("write")

\* ... the write here, atomic, never over a symlink ...
Write ==
    /\ stage = "write"
    /\ IF file["here"] = Odd
       THEN End
       ELSE /\ file' = [file EXCEPT !["here"] = result]
            /\ saved' = {}
            /\ Goto("push")
            /\ UNCHANGED <<mem, mode, attempt, touched, kind, peerData, result, stops>>

\* Mutant: what is pushed is the live file, not the private copy.
PushLive ==
    /\ stage = "push"
    /\ file' = [file EXCEPT !["peer"] = file["here"]]
    /\ saved' = saved \ {"peer"}
    /\ Goto("pullonly")
    /\ UNCHANGED <<mem, mode, attempt, touched, kind, peerData, result, stops>>

\* ... and the merged bytes to the peer, from a private copy.
PushMerged ==
    /\ stage = "push"
    /\ file' = [file EXCEPT !["peer"] = result]
    /\ saved' = saved \ {"peer"}
    /\ Goto("pullonly")
    /\ UNCHANGED <<mem, mode, attempt, touched, kind, peerData, result, stops>>

\* Mutant: the create-only pass brings the peer's file and sends none.
CreateOnlyPull(from, to) ==
    IF to = "here" /\ file[to] = Absent /\ file[from] \in Regular
    THEN file' = [file EXCEPT ![to] = file[from]]
    ELSE UNCHANGED file

\* rsync --ignore-existing --no-links: a regular file, only where none is.
CreateOnly(from, to) ==
    IF file[to] = Absent /\ file[from] \in Regular
    THEN file' = [file EXCEPT ![to] = file[from]]
    ELSE UNCHANGED file

\* The pull half of peerHomeSync; the additive pass excludes the file.
PullOnly ==
    /\ stage = "pullonly"
    /\ IF mode = "push" THEN UNCHANGED file ELSE CreateOnly("peer", "here")
    /\ IF mode = "pull"
       THEN NoMerge /\ UNCHANGED <<mem, stops>>
       ELSE /\ Goto("pushonly")
            /\ UNCHANGED <<mem, mode, attempt, touched, kind, peerData, result,
                           saved, stops>>

\* The push half, and the end of the run.
PushOnly ==
    /\ stage = "pushonly"
    /\ CreateOnly("here", "peer")
    /\ NoMerge
    /\ UNCHANGED <<mem, stops>>

-----------------------------------------------------------------------------
(* The apps and the people at the two Macs *)

MayWrite(m) ==
    \/ "race" \in Races
    \/ m = "here" /\ stage \notin {"checkpeer", "write"}
    \/ m = "peer" /\ stage \notin {"write", "push"}

Written(m, c) ==
    /\ MayWrite(m)
    /\ file' = [file EXCEPT ![m] = c]
    /\ touched' = (touched \/ (m = "here" /\ stage \in {"decide", "checkhere"}))
    /\ saved' = IF stage \in {"push", "pullonly", "pushonly"} THEN saved \cup {m} ELSE saved
    /\ UNCHANGED <<stage, mode, attempt, kind, peerData, result, stops>>

Load(m) ==
    /\ file[m] \in Docs
    /\ mem' = [mem EXCEPT ![m] = file[m]]
    /\ UNCHANGED <<file, mergeRun, saved, stops>>

\* An entry added, removed or kept, the rest rewritten.
Changes(d) ==
    {e \in Docs : Cardinality((e.entries \ d.entries) \cup (d.entries \ e.entries)) <= 1}

\* The whole file, from memory, however old that is.
Save(m) ==
    /\ mem[m] # NoDoc
    /\ \E d \in Changes(mem[m]) : mem' = [mem EXCEPT ![m] = d] /\ Written(m, d)

\* A person removes the file, links it elsewhere or breaks it by hand.
ReplaceFile(m) ==
    /\ \E c \in {Absent, Odd, Text} : Written(m, c)
    /\ mem' = [mem EXCEPT ![m] = NoDoc]

-----------------------------------------------------------------------------

Merge == Look \/ Decide \/ Decline \/ Passes \/ CheckHere \/ CheckPeer \/ Write \/ PushMerged

Create == PullOnly \/ PushOnly

Begin == \E m \in Directions : StartMerge(m)

Apps == \E m \in Macs : Load(m) \/ Save(m) \/ ReplaceFile(m)

MergeNext == Begin \/ Merge \/ Create \/ Stop \/ Apps

MergeSpec == MergeInit /\ [][MergeNext]_mergeVars

\* The schedule runs two-way again and again, and a run goes on.
FairMergeSpec == MergeSpec /\ WF_mergeVars(Merge \/ Create) /\ SF_mergeVars(StartMerge("both"))

-----------------------------------------------------------------------------
(* Properties *)

MergeTypeOK ==
    /\ file \in [Macs -> Contents]
    /\ mem \in [Macs -> Docs \cup {NoDoc}]
    /\ stage \in Stages
    /\ mode \in Directions
    /\ attempt \in 0..hostMergeAttempts
    /\ touched \in BOOLEAN
    /\ kind \in Kinds
    /\ peerData \in Contents
    /\ result \in Docs \cup {NoDoc}
    /\ saved \subseteq Macs
    /\ stops \in 0..MaxStops

Present(m) == file[m] # Absent

Has(m, n) == file[m] \in Docs /\ n \in file[m].entries

\* No step of a run takes an entry off either Mac, whatever the apps saved
\* between its looks, and a one-way run leaves a copy that exists alone.
EntriesKept ==
    [][Apps \/ \A m \in Macs :
          /\ \A n \in Names : Has(m, n) => Has(m, n)'
          /\ mode # "both" /\ Present(m) => file'[m] = file[m]]_file

\* Once the merged copy is pushed, every entry it has is on both Macs, unless
\* somebody wrote that Mac's copy since: no other pass undoes the merge.
MergedOnBoth ==
    (stage \in {"pullonly", "pushonly"} /\ result # NoDoc) =>
        \A m \in Macs \ saved : file[m] = result

Agree == file["here"] = file["peer"]

\* A copy that is no JSON object, or no regular file, is for its owner.
Unmergeable == \E m \in Macs : file[m] \in {Odd, Text}

\* Once the apps leave the file alone, the runs make both copies equal, an
\* entry or a whole file that only one Mac has included.
Converges == (<>[][~Apps]_<<file, touched>>) => <>[](Agree \/ Unmergeable)

=============================================================================
