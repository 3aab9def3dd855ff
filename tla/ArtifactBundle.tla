--------------------------- MODULE ArtifactBundle ---------------------------
(***************************************************************************)
(* Artifacts of several files and the marker that commits them, in the     *)
(* three protocols of the repository:                                      *)
(*   "workflow"  staged members promoted under the bundle lock, the marker *)
(*               written last (hft_workflow.py; hft-capture, hft-features, *)
(*               hft-depth-replay and hft-simulate of cli.py);             *)
(*   "backtest"  the same with the summary as the marker, which the run    *)
(*               replaces and never removes (backtest.py);                 *)
(*   "record"    no lock: a reservation keeps the capture id for one run   *)
(*               (hft-record in cli.py, _run_shadow_service_locked).       *)
(*                                                                         *)
(* A run is a writer; what it writes is told from what others write by its *)
(* name alone, so the SHA-256 of a member is the name of its writer.  The  *)
(* members of a bundle are the files of its own marker: two markers that   *)
(* share a member are not modelled.  A run works through the steps in pc;  *)
(* a call that fails or an interrupt ends it by the way the code unwinds,  *)
(* a kill at once, and with each the kernel drops its lock.                *)
(***************************************************************************)
EXTENDS Integers, Sequences, FiniteSets, SequencesExt

CONSTANTS
  Writer, NoWriter,
  Stranger,     \* whoever else puts a file under the name of a member
  Members,      \* file names, in the order they are promoted in
  Protocol,     \* protocols to consider
  (* Bounds. *)
  MaxKills, MaxFailures, MaxReads

ASSUME BundleAssumption ==
  /\ NoWriter \notin Writer /\ Stranger \notin Writer \cup {NoWriter}
  /\ Members \in Seq(ToSet(Members)) /\ Members # <<>> /\ IsInjective(Members)
  /\ Protocol \subseteq {"workflow", "backtest", "record"}
  /\ {MaxKills, MaxFailures, MaxReads} \subseteq Nat

VARIABLES
  protocol,
  overwrite,    \* the --overwrite of each run; always TRUE for "backtest"
  files,        \* writer of each member, NoWriter where there is no file
  marker,       \* the writers its hashes name, or NoMarker
  reservation,  \* writer of the reservation file
  staged,       \* staging files of each run, in its directory
  lock,         \* holder of the bundle lock
  pc, at,       \* step of each run, and the member it is at
  sums,         \* hashes a run has computed for its marker
  kills, failures,
  torn,         \* observer: runs whose promotion nothing can undo completely
  reader,       \* the marker a verification has read, how many members it has
                \* checked, and (observer) whether it began on a whole bundle
  verdict,      \* what the last verification returned; "mixed" is an acceptance
                \* of a bundle that was not whole when it began
  reads

vars == <<protocol, overwrite, files, marker, reservation, staged, lock, pc, at,
          sums, kills, failures, torn, reader, verdict, reads>>

Member == ToSet(Members)
NoMarker == [m \in Member |-> NoWriter]
Absent == [m \in Member |-> NoWriter]
Owner == Writer \cup {NoWriter, Stranger}
Idle == [named |-> NoMarker, checked |-> 0, whole |-> FALSE]

world == <<protocol, overwrite, kills>>
faults == <<failures, torn>>
reading == <<reader, verdict, reads>>

Ended == {"done", "failed", "killed"}

Init ==
  /\ protocol \in Protocol
  /\ overwrite \in [Writer -> BOOLEAN]
  /\ protocol = "backtest" => overwrite = [w \in Writer |-> TRUE]
  /\ protocol = "record" => overwrite = [w \in Writer |-> FALSE]
  /\ files = Absent /\ marker = NoMarker /\ reservation = NoWriter
  /\ staged = [w \in Writer |-> {}] /\ lock = NoWriter
  /\ pc = [w \in Writer |-> "check"] /\ at = [w \in Writer |-> 1]
  /\ sums = [w \in Writer |-> NoMarker]
  /\ kills = 0 /\ failures = 0 /\ torn = {}
  /\ reader = Idle /\ verdict = "none" /\ reads = 0

Go(w, step) == pc' = [pc EXCEPT ![w] = step]

\* Faulty variant: a run that unwinds forgets the lock.
StillLocked(w) == lock

Released(w) == IF lock = w THEN NoWriter ELSE lock

\* The finally clauses: staging files go, the lock is dropped.
Unwind(w, outcome) ==
  /\ Go(w, outcome)
  /\ staged' = [staged EXCEPT ![w] = {}]
  /\ lock' = Released(w)

-----------------------------------------------------------------------------
(* A run *)

SomeFileExists == marker # NoMarker \/ files # Absent

\* The look at the final paths before any work; "backtest" does not look.
Check(w) ==
  /\ pc[w] = "check"
  /\ LET refused == CASE protocol = "workflow" -> ~overwrite[w] /\ SomeFileExists
                      [] protocol = "record" -> marker # NoMarker \/ reservation # NoWriter
                      [] OTHER -> FALSE
         next == CASE protocol = "workflow" -> "stage"
                   [] protocol = "record" -> "reserve"
                   [] OTHER -> "lock"
     IN Go(w, IF refused THEN "failed" ELSE next)
  /\ UNCHANGED <<world, reading, faults, files, marker, reservation, staged, lock, at, sums>>

\* A hard link under the name of the reservation: only one run gets it.
Reserve(w) ==
  /\ pc[w] = "reserve"
  /\ IF reservation = NoWriter
     THEN reservation' = w /\ Go(w, "promote")
     ELSE Go(w, "failed") /\ UNCHANGED reservation
  /\ UNCHANGED <<world, reading, faults, files, marker, staged, lock, at, sums>>

\* The complete contents, next to the final names.
Stage(w) ==
  /\ pc[w] = "stage"
  /\ staged' = [staged EXCEPT ![w] = Member]
  /\ Go(w, IF protocol = "workflow" THEN "lock" ELSE "hash")
  /\ UNCHANGED <<world, reading, faults, files, marker, reservation, lock, at, sums>>

\* Faulty variant: nobody waits for the lock.
LockAnyway(w) ==
  /\ pc[w] = "lock"
  /\ lock' = w
  /\ Go(w, IF protocol = "workflow" THEN "invalidate" ELSE "stage")
  /\ UNCHANGED <<world, reading, faults, files, marker, reservation, staged, at, sums>>

\* artifact_bundle_lock waits.
Lock(w) ==
  /\ pc[w] = "lock" /\ lock = NoWriter
  /\ lock' = w
  /\ Go(w, IF protocol = "workflow" THEN "invalidate" ELSE "stage")
  /\ UNCHANGED <<world, reading, faults, files, marker, reservation, staged, at, sums>>

\* Faulty variant: the old marker stays until the new one replaces it.
KeepMarker(w) ==
  /\ pc[w] = "invalidate"
  /\ Go(w, "promote")
  /\ UNCHANGED <<world, reading, faults, files, marker, reservation, staged, lock, at, sums>>

\* invalidate_artifact_completion, then the checks promote_staged_artifacts
\* makes of every destination before it touches one.
Invalidate(w) ==
  /\ pc[w] = "invalidate"
  /\ marker' = IF overwrite[w] THEN NoMarker ELSE marker
  /\ IF overwrite[w] \/ files = Absent
     THEN Go(w, "promote") /\ UNCHANGED <<staged, lock>>
     ELSE Unwind(w, "failed")
  /\ UNCHANGED <<world, reading, faults, files, reservation, at, sums>>

\* The member a run is at, and the step after it.
Current(w) == Members[at[w]]
Advance(w, again, next) ==
  /\ at' = [at EXCEPT ![w] = IF at[w] = Len(Members) THEN 1 ELSE @ + 1]
  /\ Go(w, IF at[w] = Len(Members) THEN next ELSE again)

\* promote_staged_artifacts undoes what it linked, never what it replaced.
Undoable(w) == protocol = "workflow" /\ ~overwrite[w]

\* Faulty variant: no undoing of what was linked before.
LeavePromoted(w, promoted) == Unwind(w, "failed") /\ UNCHANGED at

\* An exception during a promotion: the members in "promoted" are undone, the
\* last one first.
Abandon(w, promoted) ==
  IF Undoable(w)
  THEN Go(w, "undo") /\ at' = [at EXCEPT ![w] = promoted] /\ UNCHANGED <<staged, lock>>
  ELSE Unwind(w, "failed") /\ UNCHANGED at

\* One member: os.replace, or os.link where a file must not be there yet.  The
\* archive of a "record" run is named by its capture id.
Promote(w) ==
  /\ pc[w] = "promote"
  /\ IF ~overwrite[w] /\ files[Current(w)] # NoWriter
     THEN Abandon(w, at[w] - 1) /\ UNCHANGED files
     ELSE /\ files' = [files EXCEPT ![Current(w)] = w]
          /\ IF Undoable(w)
             THEN Go(w, "note") /\ UNCHANGED <<staged, at>>
             ELSE /\ staged' = [staged EXCEPT ![w] = @ \ {Current(w)}]
                  /\ Advance(w, "promote", IF protocol = "backtest" THEN "publish" ELSE "hash")
          /\ UNCHANGED lock
  /\ UNCHANGED <<world, reading, faults, marker, reservation, sums>>

\* The directory is synced and the member noted in "promoted".
Note(w) ==
  /\ pc[w] = "note"
  /\ Advance(w, "promote", "unlink")
  /\ UNCHANGED <<world, reading, faults, files, marker, reservation, staged, lock, sums>>

\* The second names of linked members go, inside the same try.
UnlinkStaged(w) ==
  /\ pc[w] = "unlink"
  /\ staged' = [staged EXCEPT ![w] = @ \ {Current(w)}]
  /\ Advance(w, "unlink", "hash")
  /\ UNCHANGED <<world, reading, faults, files, marker, reservation, lock, sums>>

\* The undoing: a destination is removed where its staging file is still there
\* and is the same file; then the exception goes on.
Undo(w) ==
  /\ pc[w] = "undo"
  /\ IF at[w] = 0
     THEN Unwind(w, "failed") /\ UNCHANGED <<files, at>>
     ELSE /\ files' = [files EXCEPT ![Current(w)] =
                         IF @ = w /\ Current(w) \in staged[w] THEN NoWriter ELSE @]
          /\ at' = [at EXCEPT ![w] = @ - 1]
          /\ UNCHANGED <<pc, staged, lock>>
  /\ UNCHANGED <<world, reading, faults, marker, reservation, sums>>

\* Someone creates a file of that name; one at a time.
Appear ==
  /\ \A m \in Member : files[m] # Stranger
  /\ \E m \in Member : files[m] = NoWriter /\ files' = [files EXCEPT ![m] = Stranger]
  /\ UNCHANGED <<world, reading, faults, marker, reservation, staged, lock, pc, at, sums>>

\* The hashes of the marker: of the files under their final names, or, in
\* "backtest", of the temporary ones.
Hash(w) ==
  /\ pc[w] = "hash"
  /\ sums' = [sums EXCEPT ![w][Current(w)] =
                IF protocol = "backtest" THEN w ELSE files[Current(w)]]
  /\ Advance(w, "hash", IF protocol = "backtest" THEN "promote" ELSE "publish")
  /\ UNCHANGED <<world, reading, faults, files, marker, reservation, staged, lock>>

\* The marker: linked, or replaced in "backtest"; a marker that is there refuses
\* the link, and the members stay.
Publish(w) ==
  /\ pc[w] = "publish"
  /\ IF protocol = "backtest" \/ marker = NoMarker
     THEN marker' = sums[w] /\ Go(w, "tidy") /\ UNCHANGED <<staged, lock>>
     ELSE UNCHANGED marker /\ Unwind(w, "failed")
  /\ UNCHANGED <<world, reading, faults, files, reservation, at, sums>>

\* What is left to do after the marker is there: temporary names go.
Tidy(w) ==
  /\ pc[w] = "tidy"
  /\ Unwind(w, "done")
  /\ UNCHANGED <<world, reading, faults, files, marker, reservation, at, sums>>

Fault == failures < MaxFailures /\ failures' = failures + 1

\* A call of a run raises OSError (an I/O error, a full disk).  Syncing a
\* directory and unlinking a staging file or an undone member swallow theirs.
Fail(w) ==
  /\ Fault
  /\ \/ /\ pc[w] \in {"reserve", "stage", "lock", "invalidate", "hash", "publish", "tidy"}
        /\ Unwind(w, "failed") /\ UNCHANGED <<at, torn>>
     \/ pc[w] = "promote" /\ Abandon(w, at[w] - 1) /\ UNCHANGED torn
     \/ pc[w] = "unlink" /\ Advance(w, "unlink", "hash") /\ UNCHANGED <<staged, lock, torn>>
     \/ /\ pc[w] = "undo" /\ at[w] > 0
        /\ at' = [at EXCEPT ![w] = @ - 1] /\ torn' = torn \cup {w}
        /\ UNCHANGED <<pc, staged, lock>>
  /\ UNCHANGED <<world, reading, files, marker, reservation, sums>>

\* KeyboardInterrupt, between any two steps.  It leaves what the bookkeeping does
\* not know of: a member linked and not noted, members whose staging files have
\* gone, members the undoing has not come to.
Interrupt(w) ==
  /\ Fault /\ pc[w] \notin Ended \cup {"check"}
  /\ CASE pc[w] \in {"promote", "note"} -> Abandon(w, at[w] - 1)
       [] pc[w] = "unlink" -> Abandon(w, Len(Members))
       [] OTHER -> Unwind(w, "failed") /\ UNCHANGED at
  /\ torn' = IF \/ pc[w] = "note"
                \/ pc[w] = "undo" /\ at[w] > 0
                \/ pc[w] = "unlink" /\ staged[w] # Member
             THEN torn \cup {w} ELSE torn
  /\ UNCHANGED <<world, reading, files, marker, reservation, sums>>

\* SIGKILL: nothing is undone.
Kill(w) ==
  /\ pc[w] \notin Ended \cup {"check"} /\ kills < MaxKills
  /\ kills' = kills + 1
  /\ Go(w, "killed") /\ lock' = Released(w)
  /\ UNCHANGED <<protocol, overwrite, reading, faults, files, marker, reservation,
                 staged, at, sums>>

-----------------------------------------------------------------------------
(* A reader: verify_artifact_completion, verify_backtest_artifacts *)

OpenMarker ==
  /\ reader = Idle /\ reads < MaxReads
  /\ reads' = reads + 1
  /\ IF marker = NoMarker
     THEN verdict' = "rejected" /\ UNCHANGED reader
     ELSE /\ verdict' = "none"
          /\ reader' = [named |-> marker, checked |-> 0, whole |-> files = marker]
  /\ UNCHANGED <<world, faults, files, marker, reservation, staged, lock, pc, at, sums>>

\* Faulty variant: only that the member exists is looked at.
VerifyPresence ==
  /\ reader # Idle
  /\ LET m == Members[reader.checked + 1]
         last == reader.checked + 1 = Len(Members)
     IN IF files[m] = NoWriter THEN reader' = Idle /\ verdict' = "rejected"
        ELSE IF last THEN /\ reader' = Idle
                          /\ verdict' = IF reader.whole THEN "verified" ELSE "mixed"
        ELSE reader' = [reader EXCEPT !.checked = @ + 1] /\ UNCHANGED verdict
  /\ UNCHANGED <<world, faults, files, marker, reservation, staged, lock, pc, at, sums, reads>>

\* The members are read one after the other, without the lock.
VerifyMember ==
  /\ reader # Idle
  /\ LET m == Members[reader.checked + 1]
         last == reader.checked + 1 = Len(Members)
     IN IF files[m] # reader.named[m] THEN reader' = Idle /\ verdict' = "rejected"
        ELSE IF last THEN /\ reader' = Idle
                          /\ verdict' = IF reader.whole THEN "verified" ELSE "mixed"
        ELSE reader' = [reader EXCEPT !.checked = @ + 1] /\ UNCHANGED verdict
  /\ UNCHANGED <<world, faults, files, marker, reservation, staged, lock, pc, at, sums, reads>>

Step(w) ==
  \/ Check(w) \/ Reserve(w) \/ Stage(w) \/ Lock(w) \/ Invalidate(w)
  \/ Promote(w) \/ Note(w) \/ UnlinkStaged(w) \/ Undo(w)
  \/ Hash(w) \/ Publish(w) \/ Tidy(w)

Next ==
  \/ \E w \in Writer : Step(w) \/ Fail(w) \/ Interrupt(w) \/ Kill(w)
  \/ Appear \/ OpenMarker \/ VerifyMember

Spec == Init /\ [][Next]_vars

\* A run goes on unless it waits for the lock; whether it then gets it is up to
\* the others, who all end.
Fairness == \A w \in Writer : WF_vars(Step(w))

FairSpec == Spec /\ Fairness

-----------------------------------------------------------------------------
(* Properties *)

Ahead == {"check", "reserve", "stage", "lock", "invalidate"}
Busy == Ahead \cup {"promote", "note", "unlink", "undo", "hash", "publish", "tidy"}

TypeOK ==
  /\ protocol \in Protocol /\ overwrite \in [Writer -> BOOLEAN]
  /\ files \in [Member -> Owner]
  /\ marker \in [Member -> Owner]
  /\ reservation \in Writer \cup {NoWriter}
  /\ staged \in [Writer -> SUBSET Member]
  /\ lock \in Writer \cup {NoWriter}
  /\ pc \in [Writer -> Busy \cup Ended]
  /\ at \in [Writer -> 0..Len(Members)]
  /\ sums \in [Writer -> [Member -> Owner]]
  /\ torn \subseteq Writer
  /\ kills \in 0..MaxKills /\ failures \in 0..MaxFailures /\ reads \in 0..MaxReads
  /\ reader \in [named : [Member -> Owner], checked : 0..(Len(Members) - 1),
                whole : BOOLEAN]
  /\ verdict \in {"none", "verified", "mixed", "rejected"}

WrittenBy(w) == [m \in Member |-> w]

\* A marker always names the files of one whole run; and where the marker is
\* invalidated before its members are replaced, or they are never replaced, it
\* is true of the files there at every moment, also after a failure or a kill.
MarkerIsTrue ==
  marker # NoMarker =>
    /\ \E w \in Writer : marker = WrittenBy(w)
    /\ protocol # "backtest" => files = marker

\* The bundle a verification accepts was whole when the verification began,
\* though it takes no lock and runs may replace members while it reads.
VerifiedWasWhole == verdict # "mixed"

\* A run without --overwrite that fails, because a call fails, a file of
\* another appears or it is interrupted, leaves all of its members or none,
\* unless the undoing fails itself or an interrupt comes between a link and its
\* note or while the staging files go.
NoPartialBundle ==
  protocol = "workflow" => \A w \in Writer \ torn :
    pc[w] = "failed" /\ ~overwrite[w] /\ (\E m \in Member : files[m] = w)
      => \A m \in Member : files[m] \in Writer

\* Nobody waits for the lock for ever: every run that asks for it comes to an
\* end, whoever fails or is killed while it holds the lock.
EveryRunEnds == \A w \in Writer : pc[w] = "lock" ~> pc[w] \in Ended

=============================================================================
