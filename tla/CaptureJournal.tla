--------------------------- MODULE CaptureJournal ---------------------------
(***************************************************************************)
(* The public-feed archive with a durable consumer (hft_archive.py) and    *)
(* its audit journal (hft_audit_journal.py).  An event is written to a     *)
(* buffered gzip partition and to the partition's journal, the journal is  *)
(* synced, the consumer commits the event to the shadow ledger; a finished *)
(* partition is published as manifest and data file and its journal is     *)
(* removed.  The next recorder rebuilds what a dead one left behind.       *)
(*                                                                         *)
(* Every system call whose loss or order matters is a step, so a process   *)
(* may be killed, and the power may fail, between any two of them.         *)
(*                                                                         *)
(* Abstractions.  An event is its rank of arrival.  A segment is one       *)
(* partition file stem; stems are never reused.  Data file and manifest    *)
(* are the sets of events they hold and certify, {} when there is no such  *)
(* file: an empty partition is never published.  Files named *.partial are *)
(* left out: they are private to one writer, synced before they are        *)
(* renamed and never read back.  Whether an event belongs to the open      *)
(* partition depends on a wall clock that may jump: it is a free choice.   *)
(*                                                                         *)
(* The file names are held as the sequence of their states since they were *)
(* last synced, and a power failure leaves any one of them: names change   *)
(* in order.  Whether a sync of one directory also settles the earlier     *)
(* changes of others (one journal for the whole file system), or           *)
(* directories stand alone, is a parameter.                                *)
(***************************************************************************)
EXTENDS Integers, FiniteSets, Sequences

CONSTANTS
  Recorder,     \* processes that record with a consumer
  Nobody,       \* the lock is free
  Shared,       \* TRUE: name changes of all directories reach the disk in order
  (* Bounds. *)
  MaxEvents,    \* events received
  MaxSegments,  \* partitions opened
  MaxKills,     \* processes killed
  MaxOutages,   \* power failures
  MaxFaults     \* failing calls and exceptions

ASSUME JournalAssumption ==
  /\ Nobody \notin Recorder
  /\ Shared \in BOOLEAN
  /\ {MaxEvents, MaxSegments, MaxKills, MaxOutages, MaxFaults} \subseteq Nat

VARIABLES
  lock,      \* holder of recorder.lock
  job,       \* what each recorder is doing
  wal,       \* contents of the journal files, page cache included
  disk,      \* contents of the journal files, synced
  names,     \* the file names: journals listed, data files and manifests
  heard,     \* number of events written so far
  opened,    \* number of segments opened so far
  ledger,    \* events the consumer has committed
  versions,  \* observer: contents every segment was ever published with
  kills, outages, faults

files == <<wal, disk, names>>
counts == <<kills, outages, faults>>
vars == <<lock, job, files, heard, opened, ledger, versions, counts>>

Event == 1..MaxEvents
Segment == 1..MaxSegments
NoSegment == 0

-----------------------------------------------------------------------------
(* Names and jobs *)

Now == names[Len(names)]
Listed == Now.listed
Bundle(s) == Now.bundle[s]

\* The histories of names after a change, and after a sync of the journal
\* directory or of a partition's.
Changed(now) == IF now = Now THEN names ELSE Append(names, now)
WithListed(listed) == [Now EXCEPT !.listed = listed]
WithBundle(s, pair) == [Now EXCEPT !.bundle[s] = pair]

Latest(history) == history[Len(history)]
Settled(history) ==
  IF Shared \/ \A i \in DOMAIN history : history[i] = Latest(history)
  THEN <<Latest(history)>> ELSE history
JournalSynced(history) ==
  Settled([i \in DOMAIN history |->
             [history[i] EXCEPT !.listed = Latest(history).listed]])
BundleSynced(history, s) ==
  Settled([i \in DOMAIN history |->
             [history[i] EXCEPT !.bundle[s] = Latest(history).bundle[s]]])

NoFiles == [data |-> {}, manifest |-> {}]
NoJournal == [header |-> FALSE, frames |-> {}, torn |-> FALSE]

\* A manifest certifies the data file next to it.
Verified(pair) == pair.data # {} /\ pair.manifest = pair.data

\* pc, the segment at hand, the events of the open partition (or to publish)
\* and where to go once the segment is dealt with.
Idle(pc) == [pc |-> pc, seg |-> NoSegment, events |-> {}, then |-> "off"]

At(r, pc) == job[r].pc = pc
Publishing(r) == job[r].pc \in {"manifest", "manifest_sync", "data", "data_sync"}
Recovering(r) == job[r].then = "recover"

\* A recorder that stops gives the lock back.
Becomes(r, j) ==
  /\ job' = [job EXCEPT ![r] = j]
  /\ lock' = IF j.pc = "off" /\ lock = r THEN Nobody ELSE lock
GoesOn(r, pc) == Becomes(r, [job[r] EXCEPT !.pc = pc])

Fault == faults < MaxFaults /\ faults' = faults + 1 /\ UNCHANGED <<kills, outages>>

Init ==
  /\ lock = Nobody
  /\ job = [r \in Recorder |-> Idle("off")]
  /\ wal = [s \in Segment |-> NoJournal]
  /\ disk = [s \in Segment |-> NoJournal]
  /\ names = <<[listed |-> {}, bundle |-> [s \in Segment |-> NoFiles]]>>
  /\ heard = 0 /\ opened = 0
  /\ ledger = {}
  /\ versions = [s \in Segment |-> {}]
  /\ kills = 0 /\ outages = 0 /\ faults = 0

-----------------------------------------------------------------------------
(* Recovery *)

\* Faulty variant: the lock is not looked at.
AcquireAnyway(r) ==
  /\ At(r, "off")
  /\ lock' = r
  /\ job' = [job EXCEPT ![r] = Idle("recover")]
  /\ UNCHANGED <<files, heard, opened, ledger, versions, counts>>

\* AuditJournalCoordinator.acquire
Acquire(r) ==
  /\ At(r, "off")
  /\ lock = Nobody
  /\ lock' = r
  /\ job' = [job EXCEPT ![r] = Idle("recover")]
  /\ UNCHANGED <<files, heard, opened, ledger, versions, counts>>

\* Faulty variant: the last complete frame is taken for a torn one.
FramesButLast(s) == {e \in wal[s].frames : \E f \in wal[s].frames : e < f}

\* _scan_journal: the complete frames, without a torn tail.
Frames(s) == wal[s].frames

\* _archive_matches
Matches(s) ==
  /\ Verified(Bundle(s))
  /\ Bundle(s).data = Frames(s)

Handles(r, s, pc, then) ==
  Becomes(r, [pc |-> pc, seg |-> s, events |-> Frames(s), then |-> then])

\* A journal without records is moved to the quarantine; one whose header is
\* incomplete ends the recorder as well.
SetsJournalAside(r, s) ==
  /\ Frames(s) = {}
  /\ names' = Changed(WithListed(Listed \ {s}))
  /\ Handles(r, s, "forget", IF wal[s].header THEN "recover" ELSE "off")

\* Already published: only the journal is left to remove.
FindsCommitted(r, s) ==
  /\ Matches(s)
  /\ Handles(r, s, "drop", "recover")
  /\ UNCHANGED names

\* What was published under the name, if anything, is set aside first.
FindsUncommitted(r, s) ==
  /\ Frames(s) # {} /\ ~Matches(s)
  /\ Handles(r, s, IF Bundle(s) = NoFiles THEN "manifest" ELSE "aside_data", "recover")
  /\ UNCHANGED names

\* _recover_one: journals are named after random capture ids, so they come in
\* any order.
Recover(r) ==
  /\ At(r, "recover")
  /\ \E s \in Listed :
       SetsJournalAside(r, s) \/ FindsCommitted(r, s) \/ FindsUncommitted(r, s)
  /\ UNCHANGED <<wal, disk, heard, opened, ledger, versions, counts>>

\* Faulty variant: the manifest goes first.
AsideDataLast(r) ==
  /\ At(r, "aside_data")
  /\ names' = Changed([Now EXCEPT !.bundle[job[r].seg].manifest = {}])
  /\ GoesOn(r, "aside_manifest")
  /\ UNCHANGED <<wal, disk, heard, opened, ledger, versions, counts>>

\* _quarantine of a data file and of its manifest, in this order.
AsideData(r) ==
  /\ At(r, "aside_data")
  /\ names' = Changed([Now EXCEPT !.bundle[job[r].seg].data = {}])
  /\ GoesOn(r, "aside_manifest")
  /\ UNCHANGED <<wal, disk, heard, opened, ledger, versions, counts>>

AsideManifest(r) ==
  /\ At(r, "aside_manifest")
  /\ names' = Changed(WithBundle(job[r].seg, NoFiles))
  /\ GoesOn(r, "aside_sync")
  /\ UNCHANGED <<wal, disk, heard, opened, ledger, versions, counts>>

SyncBundle(r) == names' = BundleSynced(names, job[r].seg)

AsideSync(r) ==
  /\ At(r, "aside_sync")
  /\ SyncBundle(r)
  /\ GoesOn(r, "manifest")
  /\ UNCHANGED <<wal, disk, heard, opened, ledger, versions, counts>>

\* Faulty variant: recording begins next to old journals.
RecoveredEarly(r) ==
  /\ At(r, "recover")
  /\ GoesOn(r, "ready")
  /\ UNCHANGED <<files, heard, opened, ledger, versions, counts>>

\* No journal is left: recording may begin.
Recovered(r) ==
  /\ At(r, "recover")
  /\ Listed = {}
  /\ GoesOn(r, "ready")
  /\ UNCHANGED <<files, heard, opened, ledger, versions, counts>>

-----------------------------------------------------------------------------
(* Recording *)

\* An event outside the open partition, or the first one.
Rotate(r) ==
  /\ At(r, "ready")
  /\ heard < MaxEvents /\ opened < MaxSegments
  /\ IF job[r].seg = NoSegment
     THEN GoesOn(r, "open")
     ELSE Becomes(r, [job[r] EXCEPT !.pc = "manifest", !.then = "open"])
  /\ UNCHANGED <<files, heard, opened, ledger, versions, counts>>

\* The duration is over, the event limit reached, a stop or an interrupt asked
\* for, or Upbit refuses the subscription: what is open is published.
Stop(r) ==
  /\ At(r, "ready")
  /\ IF job[r].seg = NoSegment
     THEN GoesOn(r, "off")
     ELSE Becomes(r, [job[r] EXCEPT !.pc = "manifest", !.then = "off"])
  /\ UNCHANGED <<files, heard, opened, ledger, versions, counts>>

\* DurableAuditJournal.create up to the header's write, which may fail midway.
CreateJournal(r) ==
  LET s == opened + 1
      Writes(complete) ==
        /\ wal' = [wal EXCEPT ![s].header = complete]
        /\ Becomes(r, [Idle(IF complete THEN "header_sync" ELSE "header_failed")
                       EXCEPT !.seg = s])
  IN /\ At(r, "open")
     /\ opened' = s
     /\ names' = Changed(WithListed(Listed \union {s}))
     /\ \/ Writes(TRUE) /\ UNCHANGED counts
        \/ Writes(FALSE) /\ Fault
     /\ UNCHANGED <<disk, heard, ledger, versions>>

SyncWal(r) == disk' = [disk EXCEPT ![job[r].seg] = wal[job[r].seg]]

SyncHeader(r) ==
  /\ At(r, "header_sync")
  /\ SyncWal(r)
  /\ GoesOn(r, "list_sync")
  /\ UNCHANGED <<wal, names, heard, opened, ledger, versions, counts>>

ListJournal(r) ==
  /\ At(r, "list_sync")
  /\ names' = JournalSynced(names)
  /\ GoesOn(r, "write")
  /\ UNCHANGED <<wal, disk, heard, opened, ledger, versions, counts>>

\* Any failure up to here takes the file away again and ends the recorder.
CreateFails(r) ==
  /\ \/ At(r, "header_failed") /\ UNCHANGED counts
     \/ (At(r, "header_sync") \/ At(r, "list_sync")) /\ Fault
  /\ LET gone == Changed(WithListed(Listed \ {job[r].seg}))
     IN names' \in {gone, JournalSynced(gone)}
  /\ Becomes(r, Idle("off"))
  /\ UNCHANGED <<wal, disk, heard, opened, ledger, versions>>

\* append_durable: the frame reaches the file whole or in part.
AppendFrame(r) ==
  LET s == job[r].seg
  IN /\ At(r, "write") \/ (At(r, "ready") /\ s # NoSegment)
     /\ heard < MaxEvents
     /\ heard' = heard + 1
     /\ \/ /\ wal' = [wal EXCEPT ![s].frames = @ \union {heard + 1}]
           /\ GoesOn(r, "sync")
           /\ UNCHANGED counts
        \/ /\ wal' = [wal EXCEPT ![s].torn = TRUE]
           /\ GoesOn(r, "failed")
           /\ Fault
     /\ UNCHANGED <<disk, names, opened, ledger, versions>>

\* Faulty variant: the frame is left to the page cache.
SyncFrameLater(r) ==
  /\ At(r, "sync")
  /\ Becomes(r, [job[r] EXCEPT !.pc = "consume", !.events = @ \union {heard}])
  /\ UNCHANGED <<files, heard, opened, ledger, versions, counts>>

SyncFrame(r) ==
  /\ At(r, "sync")
  /\ SyncWal(r)
  /\ Becomes(r, [job[r] EXCEPT !.pc = "consume", !.events = @ \union {heard}])
  /\ UNCHANGED <<wal, names, heard, opened, ledger, versions, counts>>

\* A tainted or empty partition is given up; its journal stays.
Abort(r) ==
  /\ \/ At(r, "failed") /\ UNCHANGED counts
     \/ (At(r, "write") \/ At(r, "sync")) /\ Fault
  /\ Becomes(r, Idle("off"))
  /\ UNCHANGED <<files, heard, opened, ledger, versions>>

\* on_record: the consumer commits, or it raises before or after its commit,
\* and then what is open is published before the recorder ends.
Consume(r) ==
  /\ At(r, "consume")
  /\ \/ /\ ledger' = ledger \union {heard}
        /\ GoesOn(r, "ready")
        /\ UNCHANGED counts
     \/ /\ ledger' \in {ledger, ledger \union {heard}}
        /\ Becomes(r, [job[r] EXCEPT !.pc = "manifest", !.then = "off"])
        /\ Fault
  /\ UNCHANGED <<files, heard, opened, versions>>

-----------------------------------------------------------------------------
(* Publishing: finalize, and _write_recovered_bundle in the same order *)

PromoteManifest(r) ==
  /\ At(r, "manifest")
  /\ names' = Changed([Now EXCEPT !.bundle[job[r].seg].manifest = job[r].events])
  /\ GoesOn(r, "manifest_sync")
  /\ UNCHANGED <<wal, disk, heard, opened, ledger, versions, counts>>

SyncManifest(r) ==
  /\ At(r, "manifest_sync")
  /\ SyncBundle(r)
  /\ GoesOn(r, "data")
  /\ UNCHANGED <<wal, disk, heard, opened, ledger, versions, counts>>

PromoteData(r) ==
  /\ At(r, "data")
  /\ names' = Changed([Now EXCEPT !.bundle[job[r].seg].data = job[r].events])
  /\ versions' = [versions EXCEPT ![job[r].seg] = @ \union {job[r].events}]
  /\ GoesOn(r, "data_sync")
  /\ UNCHANGED <<wal, disk, heard, opened, ledger, counts>>

SyncData(r) ==
  /\ At(r, "data_sync")
  /\ SyncBundle(r)
  /\ GoesOn(r, "drop")
  /\ UNCHANGED <<wal, disk, heard, opened, ledger, versions, counts>>

\* finalize's handler: names it has promoted are taken back, data first, the
\* directory is synced if possible, and the recorder aborts.
FinalizeFails(r) ==
  /\ Publishing(r) /\ ~Recovering(r)
  /\ Fault
  /\ GoesOn(r, "undo_data")
  /\ UNCHANGED <<files, heard, opened, ledger, versions>>

UndoData(r) ==
  /\ At(r, "undo_data")
  /\ names' = Changed([Now EXCEPT !.bundle[job[r].seg].data = {}])
  /\ GoesOn(r, "undo_manifest")
  /\ UNCHANGED <<wal, disk, heard, opened, ledger, versions, counts>>

UndoManifest(r) ==
  /\ At(r, "undo_manifest")
  /\ LET undone == Changed(WithBundle(job[r].seg, NoFiles))
     IN names' \in {undone, BundleSynced(undone, job[r].seg)}
  /\ Becomes(r, Idle("off"))
  /\ UNCHANGED <<wal, disk, heard, opened, ledger, versions, counts>>

\* discard_after_archive_commit, and the end of _recover_one.
DropJournal(r) ==
  /\ At(r, "drop")
  /\ names' = Changed(WithListed(Listed \ {job[r].seg}))
  /\ GoesOn(r, "forget")
  /\ UNCHANGED <<wal, disk, heard, opened, ledger, versions, counts>>

SyncDrop(r) ==
  /\ At(r, "forget")
  /\ names' = JournalSynced(names)
  /\ Becomes(r, Idle(job[r].then))
  /\ UNCHANGED <<wal, disk, heard, opened, ledger, versions, counts>>

\* The discard is best effort.
DiscardFails(r) ==
  /\ At(r, "drop") \/ At(r, "forget")
  /\ ~Recovering(r)
  /\ Fault
  /\ Becomes(r, Idle(job[r].then))
  /\ UNCHANGED <<files, heard, opened, ledger, versions>>

-----------------------------------------------------------------------------
(* The end of a process *)

\* kill -9; an OSError during a recovery ends the recorder in the same way.
Kill(r) ==
  /\ ~At(r, "off")
  /\ kills < MaxKills
  /\ kills' = kills + 1
  /\ Becomes(r, Idle("off"))
  /\ UNCHANGED <<files, heard, opened, ledger, versions, outages, faults>>

\* What may be left of a journal file: the synced part, all of it, or the
\* synced part and a torn frame.
Remains(s) ==
  {disk[s], wal[s]} \union
  IF wal[s] # disk[s] THEN {[disk[s] EXCEPT !.torn = TRUE]} ELSE {}

NamesSurvive ==
  IF Shared
  THEN \E i \in DOMAIN names : names' = <<names[i]>>
  ELSE \E i \in DOMAIN names, index \in [Segment -> DOMAIN names] :
         names' = <<[listed |-> names[i].listed,
                     bundle |-> [s \in Segment |-> names[index[s]].bundle[s]]]>>

PowerFails ==
  /\ outages < MaxOutages
  /\ outages' = outages + 1
  /\ job' = [r \in Recorder |-> Idle("off")]
  /\ lock' = Nobody
  /\ NamesSurvive
  /\ \E content \in [Segment -> UNION {Remains(s) : s \in Segment}] :
       /\ \A s \in Segment : content[s] \in Remains(s)
       /\ wal' = content /\ disk' = content
  /\ UNCHANGED <<heard, opened, ledger, versions, kills, faults>>

-----------------------------------------------------------------------------

RecoveryStep(r) ==
  \/ Acquire(r) \/ Recover(r) \/ AsideData(r) \/ AsideManifest(r)
  \/ AsideSync(r) \/ Recovered(r)

RecordingStep(r) ==
  \/ Rotate(r) \/ Stop(r) \/ CreateJournal(r) \/ SyncHeader(r) \/ ListJournal(r)
  \/ CreateFails(r) \/ AppendFrame(r) \/ SyncFrame(r) \/ Abort(r) \/ Consume(r)

PublishingStep(r) ==
  \/ PromoteManifest(r) \/ SyncManifest(r) \/ PromoteData(r) \/ SyncData(r)
  \/ FinalizeFails(r) \/ UndoData(r) \/ UndoManifest(r)
  \/ DropJournal(r) \/ SyncDrop(r) \/ DiscardFails(r)

Step(r) == RecoveryStep(r) \/ RecordingStep(r) \/ PublishingStep(r)

Next == PowerFails \/ \E r \in Recorder : Step(r) \/ Kill(r)

Spec == Init /\ [][Next]_vars

\* A recorder takes its next step, and launchd starts a dead one again
\* (KeepAlive).  Sessions end: events are bounded, and so is their duration.
FairSpec == Spec /\ \A r \in Recorder : WF_vars(Step(r))

-----------------------------------------------------------------------------
(* Properties *)

\* An event is kept by a journal that is listed, and by a verified partition.
InJournal(e, s, listed) == s \in listed /\ disk[s].header /\ e \in disk[s].frames
InBundle(e, pair) == Verified(pair) /\ e \in pair.data

\* The states of a partition's names that may be found next to a listing.
Beside(i) == IF Shared THEN {i} ELSE DOMAIN names

\* An event committed to the ledger has a public source that survives a power
\* failure at this very moment: a synced journal frame or a verified partition
\* (the promise of hft_audit_journal.py's header).
LedgerHasSource ==
  \A e \in ledger : \A i \in DOMAIN names : \E s \in Segment :
    \/ InJournal(e, s, names[i].listed)
    \/ \A k \in Beside(i) : InBundle(e, names[k].bundle[s])

\* Data is never seen, not even after a power failure, without the manifest
\* that certifies it: in finalize, in its undoing, and in recovery.
VerifierBeforeData ==
  \A s \in Segment : \A i \in DOMAIN names :
    names[i].bundle[s].data # {} => Verified(names[i].bundle[s])

\* Nobody recovers, moves or removes the journal of a partition being
\* recorded.
LiveJournalKept ==
  \A r \in Recorder :
    job[r].pc \in {"write", "sync", "consume", "ready"} =>
      job[r].seg = NoSegment \/ \A i \in DOMAIN names : job[r].seg \in names[i].listed

\* However often a partition is published, taken back and rebuilt, all of its
\* versions hold the same committed events.
VersionsAgree ==
  \A s \in Segment : \A v, w \in versions[s] : v \intersect ledger = w \intersect ledger

\* A committed event ends up in a verified partition.
EventuallyArchived ==
  \A e \in Event :
    e \in ledger ~> \E s \in Segment : InBundle(e, Bundle(s))

=============================================================================
