------------------------ MODULE CaptureJournalProofs ------------------------
(***************************************************************************)
(* The inductive invariant of the archive and its audit journal, and the   *)
(* safety properties it yields, for any number of recorders, events,       *)
(* partitions, kills, power failures and failing calls.                    *)
(***************************************************************************)
EXTENDS CaptureJournal, SequenceTheorems, TLAPS

-----------------------------------------------------------------------------
(* Types *)

Creating == {"header_failed", "header_sync", "list_sync"}
Live == {"write", "sync", "consume", "ready"}
Mending == {"aside_data", "aside_manifest", "aside_sync"}
Promoting == {"manifest", "manifest_sync", "data", "data_sync"}
Undoing == {"undo_data", "undo_manifest"}
Pc == {"off", "recover", "open", "failed", "drop", "forget"}
        \cup Creating \cup Live \cup Mending \cup Promoting \cup Undoing

Job == [pc : Pc, seg : {NoSegment} \cup Segment, events : SUBSET Event,
        then : {"off", "open", "recover"}]
File == [header : BOOLEAN, frames : SUBSET Event, torn : BOOLEAN]
Pair == [data : SUBSET Event, manifest : SUBSET Event]
NameState == [listed : SUBSET Segment, bundle : [Segment -> Pair]]

Counted ==
  /\ kills \in 0..MaxKills
  /\ outages \in 0..MaxOutages
  /\ faults \in 0..MaxFaults

TypeOK ==
  /\ lock \in Recorder \cup {Nobody}
  /\ job \in [Recorder -> Job]
  /\ wal \in [Segment -> File] /\ disk \in [Segment -> File]
  /\ names \in Seq(NameState) /\ names # <<>>
  /\ heard \in 0..MaxEvents /\ opened \in 0..MaxSegments
  /\ ledger \subseteq Event
  /\ versions \in [Segment -> SUBSET SUBSET Event]
  /\ Counted

-----------------------------------------------------------------------------
(* The inductive invariant *)

\* The one recorder at work holds the lock.
OneAtWork == \A r \in Recorder : job[r].pc # "off" <=> lock = r

\* What may survive on the disk under these names: data only with its
\* manifest, and for each committed event of a partition the journal or the
\* data.
Sound(n, last, synced, committed) ==
  /\ n.listed \subseteq 1..last
  /\ \A s \in Segment :
       /\ s > last => n.bundle[s] = NoFiles
       /\ n.bundle[s].data # {} => Verified(n.bundle[s])
       /\ Shared /\ s \notin n.listed =>
            \A e \in synced[s].frames \cap committed : InBundle(e, n.bundle[s])

NamesSound == \A i \in DOMAIN names : Sound(names[i], opened, disk, ledger)

\* An event is a frame of one journal; what is synced was written.
FramesApart ==
  \A s \in Segment :
    /\ wal[s].frames \subseteq 1..heard
    /\ disk[s].frames \subseteq wal[s].frames
    /\ disk[s].header => wal[s].header
    /\ \A t \in Segment \ {s} : wal[s].frames \cap wal[t].frames = {}
    /\ s > opened => wal[s] = NoJournal /\ disk[s] = NoJournal /\ versions[s] = {}

\* A committed event is a synced frame.
LedgerSynced ==
  \A e \in ledger : \E s \in Segment : disk[s].header /\ e \in disk[s].frames

\* A published version holds the committed frames of its journal and no frame
\* of another.
VersionsComplete ==
  \A s \in Segment : \A v \in versions[s] :
    /\ v \cap ledger = disk[s].frames \cap ledger
    /\ v \subseteq 1..heard
    /\ \A t \in Segment \ {s} : v \cap wal[t].frames = {}

\* A partition that has never been published.
Unpublished(s) == Bundle(s) = NoFiles /\ versions[s] = {}

\* A job and the files of its segment.
Fits(r) ==
  LET j == job[r] IN
  /\ j.pc \notin {"off", "recover", "open", "ready"} => j.seg \in 1..opened
  /\ j.pc = "recover" => j.seg = NoSegment
  /\ j.pc = "open" \/ j.then = "open" => opened < MaxSegments
  /\ j.pc \in Creating =>
       /\ Unpublished(j.seg) /\ j.seg \in Listed
       /\ wal[j.seg].frames = {} /\ j.events = {}
       /\ j.pc # "header_failed" => wal[j.seg].header
       /\ j.pc = "list_sync" => disk[j.seg].header
  /\ j.pc \in Live /\ j.seg # NoSegment =>
       /\ j.seg \in 1..opened /\ Unpublished(j.seg) /\ disk[j.seg].header
       /\ \A i \in DOMAIN names : j.seg \in names[i].listed
       /\ j.pc = "sync" => wal[j.seg].frames = j.events \cup {heard} /\ heard > 0
       /\ j.pc # "sync" => wal[j.seg].frames = j.events
       /\ j.pc = "consume" => heard \in j.events
       /\ j.pc \in {"consume", "ready"} => disk[j.seg].frames = j.events
  /\ j.pc \in Mending \cup Promoting \cup {"drop"} =>
       j.seg \in Listed /\ wal[j.seg].frames = j.events
  /\ j.pc \in Undoing => j.seg \in Listed
  /\ j.pc \in {"aside_sync", "manifest"} => Bundle(j.seg) = NoFiles
  /\ j.pc \in {"aside_manifest", "undo_manifest"} => Bundle(j.seg).data = {}
  /\ j.pc \in {"manifest_sync", "data"} =>
       Bundle(j.seg) = [data |-> {}, manifest |-> j.events]
  /\ j.pc \in {"data_sync", "drop"} =>
       Bundle(j.seg) = [data |-> j.events, manifest |-> j.events]

JobsFit == \A r \in Recorder : job[r].pc # "off" => Fits(r)

Inductive ==
  /\ TypeOK /\ OneAtWork /\ NamesSound /\ FramesApart
  /\ LedgerSynced /\ VersionsComplete /\ JobsFit

-----------------------------------------------------------------------------
(* Histories of the names *)

\* Every state in a history is sound.
AllSound(history) == \A i \in DOMAIN history : Sound(history[i], opened, disk, ledger)

History == {h \in Seq(NameState) : h # <<>>}

LEMMA LatestOf ==
  ASSUME NEW h \in History
  PROVE  /\ Len(h) \in DOMAIN h
         /\ DOMAIN h = 1..Len(h)
         /\ Latest(h) = h[Len(h)]
         /\ Latest(h) \in NameState
         /\ \A i \in DOMAIN h : h[i] \in NameState
<1>1. h \in Seq(NameState) /\ Len(h) \in Nat /\ Len(h) # 0
  BY LenProperties, EmptySeq DEF History
<1>2. DOMAIN h = 1..Len(h)
  BY <1>1, LenProperties
<1>3. \A i \in 1..Len(h) : h[i] \in NameState
  BY <1>1, ElementOfSeq
<1> QED
  BY <1>1, <1>2, <1>3 DEF Latest

LEMMA FunctionIsSeq ==
  ASSUME NEW S, NEW n \in Nat, NEW f \in [1..n -> S]
  PROVE  f \in Seq(S) /\ Len(f) = n
<1>1. f \in Seq(S)
  BY SeqDef
<1> QED
  BY <1>1, LenProperties

LEMMA SameNames ==
  ASSUME NEW m \in NameState, NEW n \in NameState, m.listed = n.listed, m.bundle = n.bundle
  PROVE  m = n
BY DEF NameState

LEMMA Single ==
  ASSUME NEW n \in NameState
  PROVE  /\ <<n>> \in History /\ DOMAIN <<n>> = {1} /\ <<n>>[1] = n
         /\ Latest(<<n>>) = n
BY DEF History, Latest

LEMMA Current ==
  ASSUME TypeOK
  PROVE  /\ names \in History /\ Now \in NameState /\ Now = Latest(names)
         /\ Len(names) \in DOMAIN names
         /\ Listed \subseteq Segment
         /\ \A s \in Segment : Bundle(s) \in Pair
<1>1. names \in History
  BY DEF TypeOK, History
<1> QED
  BY <1>1, LatestOf DEF Now, Latest, Listed, Bundle, NameState

LEMMA ChangedHistory ==
  ASSUME TypeOK, NEW now \in NameState
  PROVE  /\ Changed(now) \in History
         /\ Latest(Changed(now)) = now
         /\ \A i \in DOMAIN Changed(now) :
              Changed(now)[i] = now \/ \E k \in DOMAIN names : Changed(now)[i] = names[k]
<1>1. names \in History /\ Now = Latest(names) /\ names \in Seq(NameState)
  BY Current DEF TypeOK
<1>2. CASE now = Now
  BY <1>1, <1>2 DEF Changed
<1>3. CASE now # Now
  <2>1. Changed(now) = Append(names, now)
    BY <1>3 DEF Changed
  <2>2. /\ Append(names, now) \in Seq(NameState) /\ Append(names, now) # <<>>
        /\ Len(Append(names, now)) = Len(names) + 1
        /\ Append(names, now)[Len(names) + 1] = now
        /\ \A i \in 1..Len(names) : Append(names, now)[i] = names[i]
    BY <1>1, AppendProperties
  <2>3. DOMAIN Append(names, now) = 1..(Len(names) + 1) /\ DOMAIN names = 1..Len(names)
    BY <1>1, <2>2, LenProperties
  <2>4. \A i \in 1..(Len(names) + 1) : i = Len(names) + 1 \/ i \in 1..Len(names)
    BY <1>1, LenProperties
  <2> QED
    BY <2>1, <2>2, <2>3, <2>4 DEF History, Latest
<1> QED
  BY <1>2, <1>3

LEMMA SettledHistory ==
  ASSUME NEW h \in History
  PROVE  /\ Settled(h) \in History
         /\ Latest(Settled(h)) = Latest(h)
         /\ \A i \in DOMAIN Settled(h) :
              \/ Settled(h)[i] = Latest(h)
              \/ ~Shared /\ \E k \in DOMAIN h : Settled(h)[i] = h[k]
<1>1. CASE Settled(h) = <<Latest(h)>>
  BY <1>1, LatestOf, Single
<1>2. CASE Settled(h) # <<Latest(h)>>
  BY <1>2 DEF Settled
<1> QED
  BY <1>1, <1>2

\* A sync of the journal directory gives every state the latest listing.
LEMMA JournalSyncedHistory ==
  ASSUME NEW h \in History
  PROVE  /\ JournalSynced(h) \in History
         /\ Latest(JournalSynced(h)) = Latest(h)
         /\ \A i \in DOMAIN JournalSynced(h) :
              /\ JournalSynced(h)[i].listed = Latest(h).listed
              /\ \/ JournalSynced(h)[i] = Latest(h)
                 \/ /\ ~Shared
                    /\ \E k \in DOMAIN h : JournalSynced(h)[i].bundle = h[k].bundle
<1> DEFINE g == [i \in DOMAIN h |-> [h[i] EXCEPT !.listed = Latest(h).listed]]
<1>1. /\ Len(h) \in DOMAIN h /\ DOMAIN h = 1..Len(h) /\ Latest(h) = h[Len(h)]
      /\ Latest(h) \in NameState
      /\ \A i \in DOMAIN h : h[i] \in NameState
  BY LatestOf
<1>2. \A i \in DOMAIN h : /\ g[i] \in NameState
                          /\ g[i].listed = Latest(h).listed /\ g[i].bundle = h[i].bundle
  BY <1>1 DEF NameState
<1>3. g[Len(h)] = Latest(h)
  BY <1>1 DEF NameState
<1>4. Len(h) \in Nat
  BY LenProperties DEF History
<1>5. g \in Seq(NameState) /\ Len(g) = Len(h) /\ DOMAIN g = DOMAIN h
  <2>1. g \in [1..Len(h) -> NameState]
    BY <1>1, <1>2
  <2> HIDE DEF g
  <2> QED
    BY <1>1, <1>4, <2>1, FunctionIsSeq
<1>6. JournalSynced(h) = Settled(g)
  BY DEF JournalSynced
<1> HIDE DEF g
<1>7. g \in History /\ Latest(g) = Latest(h)
  BY <1>1, <1>3, <1>5 DEF History, Latest
<1>8. /\ Settled(g) \in History
      /\ Latest(Settled(g)) = Latest(g)
      /\ \A i \in DOMAIN Settled(g) :
              \/ Settled(g)[i] = Latest(g)
              \/ ~Shared /\ \E k \in DOMAIN g : Settled(g)[i] = g[k]
  BY <1>7, SettledHistory
<1> QED
  BY <1>2, <1>5, <1>6, <1>7, <1>8

\* A sync of a partition's directory gives every state its latest bundle.
LEMMA BundleSyncedHistory ==
  ASSUME NEW h \in History, NEW s \in Segment
  PROVE  /\ BundleSynced(h, s) \in History
         /\ Latest(BundleSynced(h, s)) = Latest(h)
         /\ \A i \in DOMAIN BundleSynced(h, s) :
              \/ BundleSynced(h, s)[i] = Latest(h)
              \/ /\ ~Shared
                 /\ \E k \in DOMAIN h :
                      /\ BundleSynced(h, s)[i].listed = h[k].listed
                      /\ \A t \in Segment :
                           BundleSynced(h, s)[i].bundle[t] =
                             IF t = s THEN Latest(h).bundle[s] ELSE h[k].bundle[t]
<1> DEFINE g == [i \in DOMAIN h |-> [h[i] EXCEPT !.bundle[s] = Latest(h).bundle[s]]]
<1>1. /\ Len(h) \in DOMAIN h /\ DOMAIN h = 1..Len(h) /\ Latest(h) = h[Len(h)]
      /\ Latest(h) \in NameState
      /\ \A i \in DOMAIN h : h[i] \in NameState
  BY LatestOf
<1>2. \A i \in DOMAIN h :
        /\ g[i] \in NameState
        /\ g[i].listed = h[i].listed
        /\ \A t \in Segment :
             g[i].bundle[t] = IF t = s THEN Latest(h).bundle[s] ELSE h[i].bundle[t]
  BY <1>1 DEF NameState
<1>3. g[Len(h)] = Latest(h)
  <2>1. Latest(h).bundle \in [Segment -> Pair]
    BY <1>1 DEF NameState
  <2>2. [Latest(h).bundle EXCEPT ![s] = Latest(h).bundle[s]] = Latest(h).bundle
    BY <2>1
  <2>3. g[Len(h)].bundle = [Latest(h).bundle EXCEPT ![s] = Latest(h).bundle[s]]
    BY <1>1 DEF NameState
  <2>4. g[Len(h)].listed = Latest(h).listed /\ g[Len(h)] \in NameState
    BY <1>1, <1>2
  <2>5. g[Len(h)].bundle = Latest(h).bundle
    BY <2>2, <2>3
  <2> HIDE DEF g
  <2> QED
    BY <1>1, <2>4, <2>5, SameNames
<1>4. Len(h) \in Nat
  BY LenProperties DEF History
<1>5. g \in Seq(NameState) /\ Len(g) = Len(h) /\ DOMAIN g = DOMAIN h
  <2>1. g \in [1..Len(h) -> NameState]
    BY <1>1, <1>2
  <2> HIDE DEF g
  <2> QED
    BY <1>1, <1>4, <2>1, FunctionIsSeq
<1>6. BundleSynced(h, s) = Settled(g)
  BY DEF BundleSynced
<1> HIDE DEF g
<1>7. g \in History /\ Latest(g) = Latest(h)
  BY <1>1, <1>3, <1>5 DEF History, Latest
<1>8. /\ Settled(g) \in History
      /\ Latest(Settled(g)) = Latest(g)
      /\ \A i \in DOMAIN Settled(g) :
              \/ Settled(g)[i] = Latest(g)
              \/ ~Shared /\ \E k \in DOMAIN g : Settled(g)[i] = g[k]
  BY <1>7, SettledHistory
<1> QED
  BY <1>2, <1>5, <1>6, <1>7, <1>8

LEMMA ChangedSound ==
  ASSUME TypeOK, NamesSound, NEW now \in NameState, Sound(now, opened, disk, ledger)
  PROVE  AllSound(Changed(now))
BY ChangedHistory DEF AllSound, NamesSound

LEMMA JournalSyncedSound ==
  ASSUME NEW h \in History, AllSound(h)
  PROVE  AllSound(JournalSynced(h))
<1> SUFFICES ASSUME NEW i \in DOMAIN JournalSynced(h)
             PROVE  Sound(JournalSynced(h)[i], opened, disk, ledger)
  BY DEF AllSound
<1>1. Sound(Latest(h), opened, disk, ledger)
  BY LatestOf DEF AllSound
<1>2. CASE JournalSynced(h)[i] = Latest(h)
  BY <1>1, <1>2
<1>3. CASE JournalSynced(h)[i] # Latest(h)
  <2>1. /\ ~Shared
        /\ JournalSynced(h)[i].listed = Latest(h).listed
        /\ \E k \in DOMAIN h : JournalSynced(h)[i].bundle = h[k].bundle
    BY <1>3, JournalSyncedHistory
  <2> QED
    BY <1>1, <2>1 DEF AllSound, Sound
<1> QED
  BY <1>2, <1>3

LEMMA BundleSyncedSound ==
  ASSUME NEW h \in History, NEW s \in Segment, AllSound(h)
  PROVE  AllSound(BundleSynced(h, s))
<1> SUFFICES ASSUME NEW i \in DOMAIN BundleSynced(h, s)
             PROVE  Sound(BundleSynced(h, s)[i], opened, disk, ledger)
  BY DEF AllSound
<1>1. Sound(Latest(h), opened, disk, ledger)
  BY LatestOf DEF AllSound
<1>2. CASE BundleSynced(h, s)[i] = Latest(h)
  BY <1>1, <1>2
<1>3. CASE BundleSynced(h, s)[i] # Latest(h)
  <2> DEFINE b == BundleSynced(h, s)[i]
  <2>1. PICK k \in DOMAIN h :
          /\ b.listed = h[k].listed
          /\ \A t \in Segment :
               b.bundle[t] = IF t = s THEN Latest(h).bundle[s] ELSE h[k].bundle[t]
    BY <1>3, BundleSyncedHistory
  <2>2. ~Shared
    BY <1>3, BundleSyncedHistory
  <2>3. Sound(h[k], opened, disk, ledger)
    BY <2>1 DEF AllSound
  <2> HIDE DEF b
  <2>4. Sound(b, opened, disk, ledger)
    BY <1>1, <2>1, <2>2, <2>3 DEF Sound
  <2> QED
    BY <2>4 DEF b
<1> QED
  BY <1>2, <1>3

-----------------------------------------------------------------------------
(* The recorder at work *)

LEMMA OnlyWorker ==
  ASSUME TypeOK, OneAtWork, NEW r \in Recorder, job[r].pc # "off",
         NEW j \in Job, Becomes(r, j)
  PROVE  /\ job' \in [Recorder -> Job] /\ job'[r] = j
         /\ lock' \in Recorder \cup {Nobody}
         /\ OneAtWork'
         /\ \A q \in Recorder \ {r} : job'[q].pc = "off"
<1>1. lock = r /\ \A q \in Recorder \ {r} : job[q].pc = "off"
  BY DEF OneAtWork
<1>2. job' \in [Recorder -> Job] /\ job'[r] = j /\ \A q \in Recorder \ {r} : job'[q] = job[q]
  BY DEF TypeOK, Becomes
<1>3. lock' = IF j.pc = "off" THEN Nobody ELSE lock
  BY <1>1 DEF Becomes
<1> QED
  BY <1>1, <1>2, <1>3, JournalAssumption DEF OneAtWork, TypeOK

LEMMA WorkerFits ==
  ASSUME NEW r \in Recorder,
         \A q \in Recorder \ {r} : job'[q].pc = "off",
         job'[r].pc # "off" => Fits(r)'
  PROVE  JobsFit'
BY DEF JobsFit

\* What no step of a recorder but those named below changes.
Contents == <<wal, disk, heard, opened, ledger, versions>>

LEMMA SameContents ==
  ASSUME Inductive, UNCHANGED Contents
  PROVE  FramesApart' /\ LedgerSynced' /\ VersionsComplete'
BY DEF Inductive, Contents, FramesApart, LedgerSynced, VersionsComplete

LEMMA Works ==
  ASSUME Inductive, NEW r \in Recorder, job[r].pc # "off", NEW j \in Job, Becomes(r, j),
         j.pc # "off" => Fits(r)',
         names' \in History, AllSound(names'),
         UNCHANGED Contents, Counted'
  PROVE  Inductive'
<1>1. /\ job' \in [Recorder -> Job] /\ job'[r] = j
      /\ lock' \in Recorder \cup {Nobody}
      /\ OneAtWork'
      /\ \A q \in Recorder \ {r} : job'[q].pc = "off"
  BY OnlyWorker DEF Inductive
<1>2. TypeOK'
  BY <1>1 DEF Inductive, TypeOK, History, Contents
<1>3. NamesSound'
  BY DEF AllSound, NamesSound, Contents
<1>4. JobsFit'
  BY <1>1, WorkerFits
<1> QED
  BY <1>1, <1>2, <1>3, <1>4, SameContents DEF Inductive

LEMMA NamesKept ==
  ASSUME Inductive, UNCHANGED names
  PROVE  names' \in History /\ AllSound(names')
BY Current DEF Inductive, AllSound, NamesSound

LEMMA CountsKept ==
  ASSUME TypeOK, UNCHANGED counts \/ Fault
  PROVE  Counted'
<1>1. CASE UNCHANGED counts
  BY <1>1 DEF TypeOK, Counted, counts
<1>2. CASE Fault
  <2>1. faults \in Nat /\ MaxFaults \in Nat /\ faults < MaxFaults /\ faults' = faults + 1
    BY <1>2, JournalAssumption DEF TypeOK, Counted, Fault
  <2>2. faults' \in 0..MaxFaults
    BY <2>1
  <2> QED
    BY <1>2, <2>2 DEF TypeOK, Counted, Fault
<1> QED
  BY <1>1, <1>2

LEMMA IdleJob ==
  ASSUME NEW pc \in Pc
  PROVE  /\ Idle(pc) \in Job /\ Idle(pc).pc = pc /\ Idle(pc).seg = NoSegment
         /\ Idle(pc).events = {} /\ Idle(pc).then = "off"
BY DEF Idle, Job

LEMMA MovedJob ==
  ASSUME TypeOK, NEW r \in Recorder, NEW pc \in Pc
  PROVE  LET j == [job[r] EXCEPT !.pc = pc]
         IN /\ j \in Job /\ j.pc = pc
            /\ j.seg = job[r].seg /\ j.events = job[r].events /\ j.then = job[r].then
BY DEF TypeOK, Job

LEMMA PublishingJob ==
  ASSUME TypeOK, NEW r \in Recorder, NEW then \in {"off", "open"}
  PROVE  LET j == [job[r] EXCEPT !.pc = "manifest", !.then = then]
         IN /\ j \in Job /\ j.pc = "manifest" /\ j.then = then
            /\ j.seg = job[r].seg /\ j.events = job[r].events
BY DEF TypeOK, Job, Pc, Promoting

\* An idle job asks nothing of the files, except room for the next partition.
LEMMA IdleFits ==
  ASSUME NEW r \in Recorder, NEW pc \in {"off", "recover", "open"},
         job'[r] = Idle(pc), pc = "open" => opened' < MaxSegments
  PROVE  Fits(r)'
BY DEF Fits, Idle, Creating, Live, Mending, Promoting, Undoing

LEMMA AtCurrent ==
  ASSUME Inductive, NEW r \in Recorder, job[r].pc # "off"
  PROVE  Fits(r) /\ lock = r /\ job[r] \in Job /\ (\A q \in Recorder \ {r} : job[q].pc = "off")
BY DEF Inductive, JobsFit, OneAtWork, TypeOK

\* A live journal is in the current listing.
LEMMA LiveListed ==
  ASSUME TypeOK, NEW r \in Recorder, Fits(r), job[r].pc \in Live, job[r].seg # NoSegment
  PROVE  job[r].seg \in Listed
BY Current DEF Fits, Listed, Now

-----------------------------------------------------------------------------
(* Steps that change no file *)

LEMMA AcquireKeeps ==
  ASSUME Inductive, NEW r \in Recorder, Acquire(r)
  PROVE  Inductive'
<1>1. UNCHANGED names /\ UNCHANGED Contents /\ UNCHANGED counts
  BY DEF Acquire, files, Contents
<1>2. job' = [job EXCEPT ![r] = Idle("recover")] /\ lock' = r /\ lock = Nobody
  BY DEF Acquire
<1>3. Idle("recover") \in Job /\ Idle("recover").pc = "recover"
  BY IdleJob DEF Pc
<1>4. job \in [Recorder -> Job]
  BY DEF Inductive, TypeOK
<1>5. /\ job' \in [Recorder -> Job] /\ job'[r] = Idle("recover")
      /\ \A q \in Recorder \ {r} : job'[q] = job[q]
  BY <1>2, <1>3, <1>4
<1>6. \A q \in Recorder : job[q].pc = "off"
  BY <1>2, JournalAssumption DEF Inductive, OneAtWork
<1>7. \A q \in Recorder \ {r} : job'[q].pc = "off"
  BY <1>5, <1>6
<1>8. OneAtWork'
  BY <1>2, <1>3, <1>5, <1>7 DEF OneAtWork
<1>9. Fits(r)'
  BY <1>5, IdleFits
<1>10. JobsFit'
  BY <1>7, <1>9, WorkerFits
<1>11. TypeOK' /\ NamesSound'
  BY <1>1, <1>2, <1>5 DEF Inductive, TypeOK, NamesSound, Contents, Counted, counts
<1> QED
  BY <1>1, <1>8, <1>10, <1>11, SameContents DEF Inductive

LEMMA Thinks ==
  ASSUME Inductive, NEW r \in Recorder, job[r].pc # "off", NEW j \in Job, Becomes(r, j),
         j.pc # "off" => Fits(r)',
         UNCHANGED names, UNCHANGED Contents, UNCHANGED counts \/ Fault
  PROVE  Inductive'
BY NamesKept, CountsKept, Works DEF Inductive

LEMMA RecoveredKeeps ==
  ASSUME Inductive, NEW r \in Recorder, Recovered(r)
  PROVE  Inductive'
<1>1. /\ job[r].pc = "recover" /\ UNCHANGED names /\ UNCHANGED Contents
      /\ UNCHANGED counts /\ Becomes(r, [job[r] EXCEPT !.pc = "ready"])
  BY DEF Recovered, At, GoesOn, files, Contents
<1> DEFINE j == [job[r] EXCEPT !.pc = "ready"]
<1>2. /\ j \in Job /\ j.pc = "ready" /\ j.seg = job[r].seg /\ j.then = job[r].then
  BY MovedJob DEF Inductive, Pc, Live
<1>3. Fits(r) /\ job'[r] = j
  BY <1>1, <1>2, AtCurrent, OnlyWorker DEF Inductive
<1> HIDE DEF j
<1>4. Fits(r)'
  BY <1>1, <1>2, <1>3 DEF Fits, Creating, Live, Mending, Promoting, Undoing, Contents
<1> QED
  BY <1>1, <1>2, <1>4, Thinks DEF j

LEMMA RotateStopKeep ==
  ASSUME Inductive, NEW r \in Recorder, Rotate(r) \/ Stop(r)
  PROVE  Inductive'
<1>1. /\ job[r].pc = "ready" /\ UNCHANGED names /\ UNCHANGED Contents
      /\ UNCHANGED counts
  BY DEF Rotate, Stop, At, files, Contents
<1>2. Fits(r) /\ job[r] \in Job
  BY <1>1, AtCurrent
<1>3. CASE job[r].seg = NoSegment
  <2>1. PICK pc \in {"off", "open"} :
          /\ Becomes(r, [job[r] EXCEPT !.pc = pc])
          /\ pc = "open" => opened < MaxSegments
    BY <1>3 DEF Rotate, Stop, GoesOn
  <2> DEFINE j == [job[r] EXCEPT !.pc = pc]
  <2>2. /\ j \in Job /\ j.pc = pc /\ j.seg = job[r].seg /\ j.then = job[r].then
    BY MovedJob DEF Inductive, Pc
  <2>3. job'[r] = j
    BY <1>1, <2>1, <2>2, OnlyWorker DEF Inductive
  <2> HIDE DEF j
  <2>4. pc = "open" => Fits(r)'
    BY <1>1, <1>2, <2>1, <2>2, <2>3
       DEF Fits, Creating, Live, Mending, Promoting, Undoing, Contents
  <2> QED
    BY <1>1, <2>1, <2>2, <2>4, Thinks DEF j
<1>4. CASE job[r].seg # NoSegment
  <2>1. PICK then \in {"off", "open"} :
          /\ Becomes(r, [job[r] EXCEPT !.pc = "manifest", !.then = then])
          /\ then = "open" => opened < MaxSegments
    BY <1>4 DEF Rotate, Stop
  <2> DEFINE j == [job[r] EXCEPT !.pc = "manifest", !.then = then]
  <2>2. /\ j \in Job /\ j.pc = "manifest" /\ j.then = then
        /\ j.seg = job[r].seg /\ j.events = job[r].events
    BY PublishingJob DEF Inductive
  <2>3. job'[r] = j
    BY <1>1, <2>1, <2>2, OnlyWorker DEF Inductive
  <2> HIDE DEF j
  <2>4. job[r].seg \in Listed
    BY <1>1, <1>2, <1>4, LiveListed DEF Inductive, Live
  <2>5. Fits(r)'
    BY <1>1, <1>2, <1>4, <2>1, <2>2, <2>3, <2>4
       DEF Fits, Unpublished, Bundle, Listed, Now, Creating, Live, Mending, Promoting,
           Undoing, Contents
  <2> QED
    BY <1>1, <2>1, <2>2, <2>5, Thinks DEF j
<1> QED
  BY <1>3, <1>4

LEMMA EndsKeep ==
  ASSUME Inductive, NEW r \in Recorder, Abort(r) \/ Kill(r)
  PROVE  Inductive'
<1>1. /\ job[r].pc # "off" /\ UNCHANGED names /\ UNCHANGED Contents
      /\ Becomes(r, Idle("off"))
  BY DEF Abort, Kill, At, files, Contents
<1>2. Counted'
  BY CountsKept, JournalAssumption DEF Abort, Kill, Inductive, TypeOK, Counted
<1>3. Idle("off") \in Job /\ Idle("off").pc = "off"
  BY IdleJob DEF Pc
<1> QED
  BY <1>1, <1>2, <1>3, NamesKept, Works

LEMMA FinalizeFailsKeeps ==
  ASSUME Inductive, NEW r \in Recorder, FinalizeFails(r)
  PROVE  Inductive'
<1>1. /\ job[r].pc \in Promoting /\ UNCHANGED names /\ UNCHANGED Contents
      /\ Fault /\ Becomes(r, [job[r] EXCEPT !.pc = "undo_data"])
  BY DEF FinalizeFails, GoesOn, Publishing, files, Contents, Promoting
<1> DEFINE j == [job[r] EXCEPT !.pc = "undo_data"]
<1>2. /\ j \in Job /\ j.pc = "undo_data" /\ j.seg = job[r].seg /\ j.then = job[r].then
      /\ j.events = job[r].events
  BY MovedJob DEF Inductive, Pc, Undoing
<1>3. job[r].pc # "off"
  BY <1>1 DEF Promoting
<1>4. Fits(r) /\ job'[r] = j
  BY <1>1, <1>2, <1>3, AtCurrent, OnlyWorker DEF Inductive
<1> HIDE DEF j
<1>5. Fits(r)'
  BY <1>1, <1>2, <1>4
     DEF Fits, Bundle, Listed, Now, Creating, Live, Mending, Promoting, Undoing, Contents
<1> QED
  BY <1>1, <1>2, <1>3, <1>5, Thinks DEF j

LEMMA DiscardFailsKeeps ==
  ASSUME Inductive, NEW r \in Recorder, DiscardFails(r)
  PROVE  Inductive'
<1>1. /\ job[r].pc \in {"drop", "forget"} /\ UNCHANGED names /\ UNCHANGED Contents
      /\ Fault /\ Becomes(r, Idle(job[r].then))
  BY DEF DiscardFails, At, files, Contents
<1>2. Fits(r) /\ job[r].then \in {"off", "open", "recover"}
  BY <1>1, AtCurrent DEF Job
<1>3. Idle(job[r].then) \in Job /\ Idle(job[r].then).pc = job[r].then
  BY <1>2, IdleJob DEF Pc
<1>4. job'[r] = Idle(job[r].then)
  BY <1>1, <1>3, OnlyWorker DEF Inductive
<1>5. job[r].then = "open" => opened' < MaxSegments
  BY <1>1, <1>2 DEF Fits, Contents
<1>6. Fits(r)'
  BY <1>2, <1>4, <1>5, IdleFits
<1> QED
  BY <1>1, <1>3, <1>6, Thinks

-----------------------------------------------------------------------------
(* Steps that change names *)

LEMMA Relisting ==
  ASSUME TypeOK, NamesSound, NEW listed \in SUBSET Segment, listed \subseteq 1..opened,
         \A s \in Listed \ listed : \A e \in disk[s].frames \cap ledger :
            InBundle(e, Bundle(s))
  PROVE  /\ WithListed(listed) \in NameState
         /\ WithListed(listed).listed = listed
         /\ WithListed(listed).bundle = Now.bundle
         /\ Sound(WithListed(listed), opened, disk, ledger)
<1>1. Now \in NameState /\ Sound(Now, opened, disk, ledger)
  BY Current DEF NamesSound, Now
<1>2. /\ WithListed(listed) \in NameState
      /\ WithListed(listed).listed = listed
      /\ WithListed(listed).bundle = Now.bundle
  BY <1>1 DEF WithListed, NameState
<1> QED
  BY <1>1, <1>2 DEF Sound, Listed, Bundle

LEMMA Rebundling ==
  ASSUME TypeOK, NamesSound, NEW s \in Segment, s <= opened, s \in Listed,
         NEW pair \in Pair, pair.data # {} => Verified(pair)
  PROVE  /\ WithBundle(s, pair) \in NameState
         /\ WithBundle(s, pair).listed = Listed
         /\ WithBundle(s, pair).bundle[s] = pair
         /\ \A t \in Segment \ {s} : WithBundle(s, pair).bundle[t] = Bundle(t)
         /\ Sound(WithBundle(s, pair), opened, disk, ledger)
<1>1. Now \in NameState /\ Sound(Now, opened, disk, ledger)
  BY Current DEF NamesSound, Now
<1>2. /\ WithBundle(s, pair) \in NameState
      /\ WithBundle(s, pair).listed = Listed
      /\ WithBundle(s, pair).bundle[s] = pair
      /\ \A t \in Segment \ {s} : WithBundle(s, pair).bundle[t] = Bundle(t)
  BY <1>1 DEF WithBundle, NameState, Listed, Bundle
<1>3. opened \in Nat /\ s \in Nat
  BY JournalAssumption DEF TypeOK, Segment
<1> QED
  BY <1>1, <1>2, <1>3 DEF Sound, Listed, Bundle

LEMMA OneName ==
  ASSUME TypeOK, NEW s \in Segment, NEW events \in SUBSET Event
  PROVE  /\ [Now EXCEPT !.bundle[s].data = events]
              = WithBundle(s, [data |-> events, manifest |-> Bundle(s).manifest])
         /\ [Now EXCEPT !.bundle[s].manifest = events]
              = WithBundle(s, [data |-> Bundle(s).data, manifest |-> events])
         /\ [data |-> events, manifest |-> Bundle(s).manifest] \in Pair
         /\ [data |-> Bundle(s).data, manifest |-> events] \in Pair
<1>1. Now \in NameState /\ Bundle(s) \in Pair /\ Bundle(s) = Now.bundle[s]
  BY Current DEF Bundle
<1>2. [Now.bundle[s] EXCEPT !.data = events]
        = [data |-> events, manifest |-> Bundle(s).manifest]
  BY <1>1 DEF Pair
<1>3. [Now.bundle[s] EXCEPT !.manifest = events]
        = [data |-> Bundle(s).data, manifest |-> events]
  BY <1>1 DEF Pair
<1> QED
  BY <1>1, <1>2, <1>3 DEF WithBundle, Pair, NameState

LEMMA AfterChange ==
  ASSUME TypeOK, NEW now \in NameState, names' = Changed(now)
  PROVE  Now' = now /\ names' \in History
<1>1. Changed(now) \in History /\ Latest(Changed(now)) = now
  BY ChangedHistory
<1> QED
  BY <1>1 DEF Now, Latest

LEMMA AfterJournalSync ==
  ASSUME NEW h \in History, names' = JournalSynced(h)
  PROVE  /\ Now' = Latest(h) /\ names' \in History
         /\ \A i \in DOMAIN names' : names'[i].listed = Latest(h).listed
<1>1. JournalSynced(h) \in History /\ Latest(JournalSynced(h)) = Latest(h)
  BY JournalSyncedHistory
<1>2. Now' = Latest(names')
  BY DEF Now, Latest
<1> QED
  BY <1>1, <1>2, JournalSyncedHistory

LEMMA AfterBundleSync ==
  ASSUME NEW h \in History, NEW s \in Segment, names' = BundleSynced(h, s)
  PROVE  Now' = Latest(h) /\ names' \in History
<1>1. BundleSynced(h, s) \in History /\ Latest(BundleSynced(h, s)) = Latest(h)
  BY BundleSyncedHistory
<1>2. Now' = Latest(names')
  BY DEF Now, Latest
<1> QED
  BY <1>1, <1>2

LEMMA AtHand ==
  ASSUME Inductive, NEW r \in Recorder,
         job[r].pc \notin {"off", "recover", "open", "ready"}
  PROVE  job[r].seg \in Segment /\ job[r].seg <= opened /\ job[r].seg \in 1..opened
<1>1. job[r].seg \in 1..opened
  BY AtCurrent DEF Fits
<1>2. opened \in Nat /\ opened <= MaxSegments /\ MaxSegments \in Nat
  BY JournalAssumption DEF Inductive, TypeOK
<1> QED
  BY <1>1, <1>2 DEF Segment

LEMMA Renames ==
  ASSUME Inductive, NEW r \in Recorder, job[r].pc # "off", NEW j \in Job, Becomes(r, j),
         NEW now \in NameState, Sound(now, opened, disk, ledger), names' = Changed(now),
         j.pc # "off" => Fits(r)',
         UNCHANGED Contents, UNCHANGED counts
  PROVE  Inductive'
<1>1. names' \in History
  BY AfterChange DEF Inductive
<1>2. AllSound(names')
  BY ChangedSound DEF Inductive
<1> QED
  BY <1>1, <1>2, CountsKept, Works DEF Inductive

LEMMA SyncsBundle ==
  ASSUME Inductive, NEW r \in Recorder, job[r].pc # "off", NEW j \in Job, Becomes(r, j),
         NEW s \in Segment, names' = BundleSynced(names, s),
         j.pc # "off" => Fits(r)',
         UNCHANGED Contents, UNCHANGED counts
  PROVE  Inductive'
<1>1. names \in History /\ AllSound(names)
  BY Current DEF Inductive, AllSound, NamesSound
<1>2. names' \in History /\ AllSound(names')
  BY <1>1, AfterBundleSync, BundleSyncedSound
<1> QED
  BY <1>2, CountsKept, Works DEF Inductive

LEMMA SyncsJournal ==
  ASSUME Inductive, NEW r \in Recorder, job[r].pc # "off", NEW j \in Job, Becomes(r, j),
         names' = JournalSynced(names),
         j.pc # "off" => Fits(r)',
         UNCHANGED Contents, UNCHANGED counts
  PROVE  Inductive'
<1>1. names \in History /\ AllSound(names)
  BY Current DEF Inductive, AllSound, NamesSound
<1>2. names' \in History /\ AllSound(names')
  BY <1>1, AfterJournalSync, JournalSyncedSound
<1> QED
  BY <1>2, CountsKept, Works DEF Inductive

LEMMA AsideKeeps ==
  ASSUME Inductive, NEW r \in Recorder, AsideData(r) \/ AsideManifest(r) \/ AsideSync(r)
  PROVE  Inductive'
<1>1. PICK pc \in {"aside_manifest", "aside_sync", "manifest"} :
         /\ Becomes(r, [job[r] EXCEPT !.pc = pc])
         /\ pc = "aside_manifest" => AsideData(r)
         /\ pc = "aside_sync" => AsideManifest(r)
         /\ pc = "manifest" => AsideSync(r)
  BY DEF AsideData, AsideManifest, AsideSync, GoesOn
<1>2. job[r].pc \in Mending /\ UNCHANGED Contents /\ UNCHANGED counts
  BY DEF AsideData, AsideManifest, AsideSync, At, Mending, Contents
<1> DEFINE j == [job[r] EXCEPT !.pc = pc]
           s == job[r].seg
<1>3. /\ j \in Job /\ j.pc = pc /\ j.seg = s /\ j.then = job[r].then
      /\ j.events = job[r].events
  BY MovedJob DEF Inductive, Pc, Mending, Promoting
<1>4. job[r].pc # "off" /\ job[r].pc \notin {"off", "recover", "open", "ready"}
  BY <1>2 DEF Mending
<1>5. Fits(r) /\ job'[r] = j
  BY <1>1, <1>3, <1>4, AtCurrent, OnlyWorker DEF Inductive
<1>6. s \in Segment /\ s <= opened /\ s \in 1..opened
  BY <1>4, AtHand
<1>7. s \in Listed /\ wal[s].frames = job[r].events
  BY <1>2, <1>5 DEF Fits
<1> HIDE DEF j, s
<1>8. ASSUME Now'.listed = Listed, j.pc = "aside_manifest" => Now'.bundle[s].data = {},
             j.pc \in {"aside_sync", "manifest"} => Now'.bundle[s] = NoFiles
      PROVE  Fits(r)'
  BY <1>2, <1>3, <1>5, <1>6, <1>7, <1>8
     DEF Fits, Bundle, Listed, Creating, Live, Mending, Promoting, Undoing, Contents
<1>9. CASE pc \in {"aside_manifest", "aside_sync"}
  <2>1. PICK pair \in Pair : /\ pair.data = {} /\ names' = Changed(WithBundle(s, pair))
                             /\ pc = "aside_sync" => pair = NoFiles
    <3>1. CASE pc = "aside_manifest"
      <4>1. names' = Changed([Now EXCEPT !.bundle[s].data = {}])
        BY <1>1, <3>1 DEF AsideData, s
      <4> DEFINE left == [data |-> {}, manifest |-> Bundle(s).manifest]
      <4>2. names' = Changed(WithBundle(s, left)) /\ left \in Pair
        BY <1>6, <4>1, OneName DEF Inductive
      <4> QED
        BY <3>1, <4>2
    <3>2. CASE pc = "aside_sync"
      <4>1. NoFiles \in Pair /\ NoFiles.data = {}
        BY DEF NoFiles, Pair
      <4> QED
        BY <1>1, <3>2, <4>1 DEF AsideManifest, s
    <3> QED
      BY <1>9, <3>1, <3>2
  <2> DEFINE now == WithBundle(s, pair)
  <2>2. /\ now \in NameState /\ now.listed = Listed /\ now.bundle[s] = pair
        /\ Sound(now, opened, disk, ledger)
    BY <1>6, <1>7, <2>1, Rebundling DEF Inductive
  <2> HIDE DEF now
  <2>3. names' = Changed(now)
    BY <2>1 DEF now
  <2>4. Now' = now
    BY <2>2, <2>3, AfterChange DEF Inductive
  <2>5. Fits(r)'
    BY <1>3, <1>8, <1>9, <2>1, <2>2, <2>4
  <2> QED
    BY <1>1, <1>2, <1>3, <1>4, <2>2, <2>3, <2>5, Renames DEF j
<1>10. CASE pc = "manifest"
  <2>1. names' = BundleSynced(names, s) /\ job[r].pc = "aside_sync"
    BY <1>1, <1>10 DEF AsideSync, SyncBundle, At, s
  <2>2. Now' = Now
    BY <1>6, <2>1, Current, AfterBundleSync DEF Inductive
  <2>3. Now.bundle[s] = NoFiles
    BY <1>5, <2>1 DEF Fits, Bundle, s
  <2>4. Fits(r)'
    BY <1>3, <1>8, <1>10, <2>2, <2>3 DEF Listed
  <2> QED
    BY <1>1, <1>2, <1>3, <1>4, <1>6, <2>1, <2>4, SyncsBundle DEF j
<1> QED
  BY <1>9, <1>10

LEMMA PromoteManifestKeeps ==
  ASSUME Inductive, NEW r \in Recorder, PromoteManifest(r)
  PROVE  Inductive'
<1> DEFINE j == [job[r] EXCEPT !.pc = "manifest_sync"]
           s == job[r].seg
<1>1. /\ job[r].pc = "manifest" /\ Becomes(r, j) /\ UNCHANGED Contents /\ UNCHANGED counts
      /\ names' = Changed([Now EXCEPT !.bundle[s].manifest = job[r].events])
  BY DEF PromoteManifest, At, GoesOn, Contents
<1>2. /\ j \in Job /\ j.pc = "manifest_sync" /\ j.seg = s /\ j.then = job[r].then
      /\ j.events = job[r].events
  BY MovedJob DEF Inductive, Pc, Promoting
<1>3. Fits(r) /\ job'[r] = j /\ job[r].events \in SUBSET Event
  BY <1>1, <1>2, AtCurrent, OnlyWorker DEF Inductive, Job
<1>4. s \in Segment /\ s <= opened /\ s \in 1..opened
  BY <1>1, AtHand
<1>5. s \in Listed /\ wal[s].frames = job[r].events /\ Bundle(s) = NoFiles
  BY <1>1, <1>3 DEF Fits, Promoting
<1> HIDE DEF j, s
<1> DEFINE pair == [data |-> {}, manifest |-> job[r].events]
           now == WithBundle(s, pair)
<1>6. names' = Changed(now) /\ pair \in Pair /\ pair.data = {}
  <2>1. [data |-> Bundle(s).data, manifest |-> job[r].events] = pair
    BY <1>5 DEF NoFiles
  <2>2. [Now EXCEPT !.bundle[s].manifest = job[r].events]
          = WithBundle(s, [data |-> Bundle(s).data, manifest |-> job[r].events])
    BY <1>3, <1>4, OneName DEF Inductive
  <2>3. pair \in Pair
    BY <1>3 DEF Pair
  <2> QED
    BY <1>1, <2>1, <2>2, <2>3
<1>7. /\ now \in NameState /\ now.listed = Listed /\ now.bundle[s] = pair
      /\ Sound(now, opened, disk, ledger)
  <2> HIDE DEF pair
  <2> QED
    BY <1>4, <1>5, <1>6, Rebundling DEF Inductive
<1> HIDE DEF now
<1>8. Now' = now
  BY <1>6, <1>7, AfterChange DEF Inductive
<1>9. Fits(r)'
  BY <1>1, <1>2, <1>3, <1>4, <1>5, <1>7, <1>8
     DEF Fits, Bundle, Listed, Creating, Live, Mending, Promoting, Undoing, Contents
<1> QED
  BY <1>1, <1>2, <1>6, <1>7, <1>9, Renames

LEMMA SyncPublishedKeeps ==
  ASSUME Inductive, NEW r \in Recorder, SyncManifest(r) \/ SyncData(r)
  PROVE  Inductive'
<1>1. PICK pc \in {"data", "drop"} :
         /\ Becomes(r, [job[r] EXCEPT !.pc = pc])
         /\ pc = "data" => job[r].pc = "manifest_sync"
         /\ pc = "drop" => job[r].pc = "data_sync"
  BY DEF SyncManifest, SyncData, GoesOn, At
<1> DEFINE j == [job[r] EXCEPT !.pc = pc]
           s == job[r].seg
<1>2. /\ UNCHANGED Contents /\ UNCHANGED counts
      /\ names' = BundleSynced(names, s)
  BY DEF SyncManifest, SyncData, SyncBundle, Contents
<1>3. /\ j \in Job /\ j.pc = pc /\ j.seg = s /\ j.then = job[r].then
      /\ j.events = job[r].events
  BY MovedJob DEF Inductive, Pc, Promoting
<1>4. job[r].pc \in {"manifest_sync", "data_sync"}
  BY <1>1
<1>5. Fits(r) /\ job'[r] = j
  BY <1>1, <1>3, <1>4, AtCurrent, OnlyWorker DEF Inductive
<1>6. s \in Segment /\ s \in 1..opened
  BY <1>4, AtHand
<1> HIDE DEF j, s
<1>7. Now' = Now
  BY <1>2, <1>6, Current, AfterBundleSync DEF Inductive
<1>8. Fits(r)'
  BY <1>1, <1>2, <1>3, <1>4, <1>5, <1>6, <1>7
     DEF Fits, Bundle, Listed, Creating, Live, Mending, Promoting, Undoing, Contents, s
<1> QED
  BY <1>1, <1>2, <1>3, <1>4, <1>6, <1>8, SyncsBundle DEF j

LEMMA UndoDataKeeps ==
  ASSUME Inductive, NEW r \in Recorder, UndoData(r)
  PROVE  Inductive'
<1> DEFINE j == [job[r] EXCEPT !.pc = "undo_manifest"]
           s == job[r].seg
           pair == [data |-> {}, manifest |-> Bundle(s).manifest]
           now == WithBundle(s, pair)
<1>1. /\ job[r].pc = "undo_data" /\ Becomes(r, j) /\ UNCHANGED Contents /\ UNCHANGED counts
      /\ names' = Changed([Now EXCEPT !.bundle[s].data = {}])
  BY DEF UndoData, At, GoesOn, Contents
<1>2. /\ j \in Job /\ j.pc = "undo_manifest" /\ j.seg = s /\ j.then = job[r].then
      /\ j.events = job[r].events
  BY MovedJob DEF Inductive, Pc, Undoing
<1>3. Fits(r) /\ job'[r] = j
  BY <1>1, <1>2, AtCurrent, OnlyWorker DEF Inductive
<1>4. s \in Segment /\ s <= opened /\ s \in 1..opened
  BY <1>1, AtHand
<1>5. s \in Listed
  BY <1>1, <1>3 DEF Fits, Undoing
<1> HIDE DEF j, s
<1>6. names' = Changed(now) /\ pair \in Pair /\ pair.data = {}
  BY <1>1, <1>4, OneName DEF Inductive
<1>7. /\ now \in NameState /\ now.listed = Listed /\ now.bundle[s].data = {}
      /\ Sound(now, opened, disk, ledger)
  <2> HIDE DEF pair
  <2> QED
    BY <1>4, <1>5, <1>6, Rebundling DEF Inductive
<1> HIDE DEF now
<1>8. Now' = now
  BY <1>6, <1>7, AfterChange DEF Inductive
<1>9. Fits(r)'
  BY <1>1, <1>2, <1>3, <1>4, <1>5, <1>7, <1>8
     DEF Fits, Bundle, Listed, Creating, Live, Mending, Promoting, Undoing, Contents
<1> QED
  BY <1>1, <1>2, <1>6, <1>7, <1>9, Renames

LEMMA UndoManifestKeeps ==
  ASSUME Inductive, NEW r \in Recorder, UndoManifest(r)
  PROVE  Inductive'
<1> DEFINE s == job[r].seg
           now == WithBundle(s, NoFiles)
<1>1. /\ job[r].pc = "undo_manifest" /\ Becomes(r, Idle("off"))
      /\ UNCHANGED Contents /\ UNCHANGED counts
      /\ names' \in {Changed(now), BundleSynced(Changed(now), s)}
  BY DEF UndoManifest, At, Contents
<1>2. Idle("off") \in Job /\ Idle("off").pc = "off"
  BY IdleJob DEF Pc
<1>3. s \in Segment /\ s <= opened /\ s \in Listed
  BY <1>1, AtHand, AtCurrent DEF Fits, Undoing
<1>4. NoFiles \in Pair /\ NoFiles.data = {}
  BY DEF NoFiles, Pair
<1> HIDE DEF s
<1>5. now \in NameState /\ Sound(now, opened, disk, ledger)
  BY <1>3, <1>4, Rebundling DEF Inductive
<1> HIDE DEF now
<1>6. Changed(now) \in History /\ AllSound(Changed(now))
  BY <1>5, ChangedHistory, ChangedSound DEF Inductive
<1>7. names' \in History /\ AllSound(names')
  BY <1>1, <1>3, <1>6, BundleSyncedHistory, BundleSyncedSound
<1> QED
  BY <1>1, <1>2, <1>7, CountsKept, Works DEF Inductive

\* No synced and committed frame is lost with the journal of a published
\* partition.
LEMMA DropKeeps ==
  ASSUME Inductive, NEW r \in Recorder, DropJournal(r)
  PROVE  Inductive'
<1> DEFINE j == [job[r] EXCEPT !.pc = "forget"]
           s == job[r].seg
           now == WithListed(Listed \ {s})
<1>1. /\ job[r].pc = "drop" /\ Becomes(r, j) /\ UNCHANGED Contents /\ UNCHANGED counts
      /\ names' = Changed(now)
  BY DEF DropJournal, At, GoesOn, Contents
<1>2. /\ j \in Job /\ j.pc = "forget" /\ j.seg = s /\ j.then = job[r].then
      /\ j.events = job[r].events
  BY MovedJob DEF Inductive, Pc
<1>3. Fits(r) /\ job'[r] = j
  BY <1>1, <1>2, AtCurrent, OnlyWorker DEF Inductive
<1>4. s \in Segment /\ s \in 1..opened
  BY <1>1, AtHand
<1>5. Bundle(s).data = wal[s].frames /\ Bundle(s).manifest = wal[s].frames
  BY <1>1, <1>3 DEF Fits
<1>6. \A e \in disk[s].frames : InBundle(e, Bundle(s))
  BY <1>4, <1>5 DEF Inductive, FramesApart, InBundle, Verified
<1>7. Listed \ {s} \in SUBSET Segment /\ Listed \ {s} \subseteq 1..opened
  BY Current DEF Inductive, NamesSound, Sound, Listed, Now
<1> HIDE DEF j, s
<1>8. now \in NameState /\ Sound(now, opened, disk, ledger)
  BY <1>6, <1>7, Relisting DEF Inductive
<1> HIDE DEF now
<1>9. Fits(r)'
  BY <1>1, <1>2, <1>3, <1>4
     DEF Fits, Creating, Live, Mending, Promoting, Undoing, Contents
<1> QED
  BY <1>1, <1>2, <1>8, <1>9, Renames

LEMMA SyncDropKeeps ==
  ASSUME Inductive, NEW r \in Recorder, SyncDrop(r)
  PROVE  Inductive'
<1>1. /\ job[r].pc = "forget" /\ UNCHANGED Contents
      /\ UNCHANGED counts /\ Becomes(r, Idle(job[r].then))
      /\ names' = JournalSynced(names)
  BY DEF SyncDrop, At, Contents
<1>2. Fits(r) /\ job[r].then \in {"off", "open", "recover"}
  BY <1>1, AtCurrent DEF Job
<1>3. Idle(job[r].then) \in Job /\ Idle(job[r].then).pc = job[r].then
  BY <1>2, IdleJob DEF Pc
<1>4. job'[r] = Idle(job[r].then)
  BY <1>1, <1>3, OnlyWorker DEF Inductive
<1>5. job[r].then = "open" => opened' < MaxSegments
  BY <1>1, <1>2 DEF Fits, Contents
<1>6. Fits(r)'
  BY <1>2, <1>4, <1>5, IdleFits
<1> QED
  BY <1>1, <1>3, <1>6, SyncsJournal

LEMMA ListJournalKeeps ==
  ASSUME Inductive, NEW r \in Recorder, ListJournal(r)
  PROVE  Inductive'
<1> DEFINE j == [job[r] EXCEPT !.pc = "write"]
           s == job[r].seg
<1>1. /\ job[r].pc = "list_sync" /\ Becomes(r, j) /\ UNCHANGED Contents /\ UNCHANGED counts
      /\ names' = JournalSynced(names)
  BY DEF ListJournal, At, GoesOn, Contents
<1>2. /\ j \in Job /\ j.pc = "write" /\ j.seg = s /\ j.then = job[r].then
      /\ j.events = job[r].events
  BY MovedJob DEF Inductive, Pc, Live
<1>3. Fits(r) /\ job'[r] = j
  BY <1>1, <1>2, AtCurrent, OnlyWorker DEF Inductive
<1>4. s \in Segment /\ s \in 1..opened
  BY <1>1, AtHand
<1>5. names \in History /\ Now = Latest(names)
  BY Current DEF Inductive
<1>6. /\ Now' = Now
      /\ \A i \in DOMAIN names' : names'[i].listed = Listed
  BY <1>1, <1>5, AfterJournalSync DEF Listed
<1>7. /\ Unpublished(s) /\ s \in Listed /\ wal[s].frames = {} /\ job[r].events = {}
      /\ disk[s].header
  BY <1>1, <1>3 DEF Fits, Creating
<1> HIDE DEF j, s
<1>8. \A i \in DOMAIN names' : s \in names'[i].listed
  BY <1>6, <1>7
<1>9. Fits(r)'
  BY <1>1, <1>2, <1>3, <1>4, <1>6, <1>7, <1>8
     DEF Fits, Unpublished, Bundle, Listed, Creating, Live, Mending, Promoting, Undoing,
         Contents
<1> QED
  BY <1>1, <1>2, <1>9, SyncsJournal

LEMMA CreateFailsKeeps ==
  ASSUME Inductive, NEW r \in Recorder, CreateFails(r)
  PROVE  Inductive'
<1> DEFINE s == job[r].seg
           now == WithListed(Listed \ {s})
<1>1. /\ job[r].pc \in Creating /\ UNCHANGED Contents /\ (UNCHANGED counts \/ Fault)
      /\ Becomes(r, Idle("off"))
      /\ names' \in {Changed(now), JournalSynced(Changed(now))}
  BY DEF CreateFails, At, Creating, Contents
<1>2. Idle("off") \in Job /\ Idle("off").pc = "off"
  BY IdleJob DEF Pc
<1>3. job[r].pc \notin {"off", "recover", "open", "ready"}
  BY <1>1 DEF Creating
<1>4. Fits(r) /\ s \in Segment
  BY <1>3, AtCurrent, AtHand
<1>5. wal[s].frames = {}
  BY <1>1, <1>4 DEF Fits
<1>6. disk[s].frames = {}
  BY <1>4, <1>5 DEF Inductive, FramesApart
<1>7. Listed \ {s} \in SUBSET Segment /\ Listed \ {s} \subseteq 1..opened
  BY Current DEF Inductive, NamesSound, Sound, Listed, Now
<1> HIDE DEF s
<1>8. now \in NameState /\ Sound(now, opened, disk, ledger)
  BY <1>6, <1>7, Relisting DEF Inductive
<1> HIDE DEF now
<1>9. Changed(now) \in History /\ AllSound(Changed(now))
  BY <1>8, ChangedHistory, ChangedSound DEF Inductive
<1>10. names' \in History /\ AllSound(names')
  BY <1>1, <1>9, JournalSyncedHistory, JournalSyncedSound
<1> QED
  BY <1>1, <1>2, <1>3, <1>10, CountsKept, Works DEF Inductive

LEMMA RecoverKeeps ==
  ASSUME Inductive, NEW r \in Recorder, Recover(r)
  PROVE  Inductive'
<1>1. /\ job[r].pc = "recover" /\ UNCHANGED Contents /\ UNCHANGED counts
  BY DEF Recover, At, Contents
<1>2. PICK s \in Listed :
         SetsJournalAside(r, s) \/ FindsCommitted(r, s) \/ FindsUncommitted(r, s)
  BY DEF Recover
<1>3. s \in Segment /\ s \in 1..opened /\ Listed \subseteq 1..opened
  BY Current DEF Inductive, NamesSound, Sound, Listed, Now
<1>4. wal[s].frames \in SUBSET Event
  BY <1>3 DEF Inductive, TypeOK, File
<1>5. CASE SetsJournalAside(r, s)
  <2>1. PICK then \in {"off", "recover"} :
          Becomes(r, [pc |-> "forget", seg |-> s, events |-> Frames(s), then |-> then])
    BY <1>5 DEF SetsJournalAside, Handles
  <2> DEFINE j == [pc |-> "forget", seg |-> s, events |-> Frames(s), then |-> then]
             now == WithListed(Listed \ {s})
  <2>2. names' = Changed(now) /\ wal[s].frames = {}
    BY <1>5 DEF SetsJournalAside, Frames
  <2>3. j \in Job /\ j.pc = "forget" /\ j.seg = s /\ j.then \in {"off", "recover"}
    BY <1>3, <1>4, <2>1 DEF Job, Pc, Frames
  <2>4. job'[r] = j
    BY <1>1, <2>1, <2>3, OnlyWorker DEF Inductive
  <2> HIDE DEF j
  <2>5. disk[s].frames = {}
    BY <1>3, <2>2 DEF Inductive, FramesApart
  <2>6. Listed \ {s} \in SUBSET Segment
    BY Current DEF Inductive
  <2>7. now \in NameState /\ Sound(now, opened, disk, ledger)
    BY <1>3, <2>5, <2>6, Relisting DEF Inductive
  <2> HIDE DEF now
  <2>8. Fits(r)'
    BY <1>1, <1>3, <2>3, <2>4
       DEF Fits, Creating, Live, Mending, Promoting, Undoing, Contents
  <2> QED
    BY <1>1, <2>1, <2>2, <2>3, <2>7, <2>8, Renames DEF j
<1>6. CASE FindsCommitted(r, s) \/ FindsUncommitted(r, s)
  <2>1. PICK pc \in {"drop", "manifest", "aside_data"} :
          /\ Becomes(r, [pc |-> pc, seg |-> s, events |-> Frames(s), then |-> "recover"])
          /\ pc = "drop" => Matches(s)
          /\ pc = "manifest" => Bundle(s) = NoFiles
    BY <1>6 DEF FindsCommitted, FindsUncommitted, Handles
  <2> DEFINE j == [pc |-> pc, seg |-> s, events |-> Frames(s), then |-> "recover"]
  <2>2. UNCHANGED names
    BY <1>6 DEF FindsCommitted, FindsUncommitted
  <2>3. /\ j \in Job /\ j.pc = pc /\ j.seg = s /\ j.then = "recover"
        /\ j.events = wal[s].frames
    BY <1>3, <1>4, <2>1 DEF Job, Pc, Frames, Promoting, Mending
  <2>4. job'[r] = j
    BY <1>1, <2>1, <2>3, OnlyWorker DEF Inductive
  <2> HIDE DEF j
  <2>5. pc = "drop" => Bundle(s) = [data |-> wal[s].frames, manifest |-> wal[s].frames]
    <3>1. Bundle(s) \in Pair
      BY <1>3, Current DEF Inductive
    <3> QED
      BY <2>1, <3>1 DEF Matches, Verified, Frames, Pair
  <2>6. Fits(r)'
    BY <1>1, <1>2, <1>3, <2>1, <2>2, <2>3, <2>4, <2>5
       DEF Fits, Bundle, Listed, Now, Creating, Live, Mending, Promoting, Undoing, Contents
  <2> QED
    BY <1>1, <2>1, <2>2, <2>3, <2>6, Thinks DEF j
<1> QED
  BY <1>2, <1>5, <1>6

-----------------------------------------------------------------------------
(* Steps that change what the files hold *)

FilesTyped ==
  /\ wal \in [Segment -> File] /\ disk \in [Segment -> File]
  /\ heard \in 0..MaxEvents /\ opened \in 0..MaxSegments
  /\ ledger \subseteq Event
  /\ versions \in [Segment -> SUBSET SUBSET Event]

LEMMA WorksOn ==
  ASSUME Inductive, NEW r \in Recorder, job[r].pc # "off", NEW j \in Job, Becomes(r, j),
         Fits(r)', names' \in History, FilesTyped', Counted',
         NamesSound', FramesApart', LedgerSynced', VersionsComplete'
  PROVE  Inductive'
<1>1. /\ job' \in [Recorder -> Job] /\ job'[r] = j
      /\ lock' \in Recorder \cup {Nobody}
      /\ OneAtWork'
      /\ \A q \in Recorder \ {r} : job'[q].pc = "off"
  BY OnlyWorker DEF Inductive
<1>2. TypeOK'
  BY <1>1 DEF Inductive, TypeOK, History, FilesTyped
<1>3. JobsFit'
  BY <1>1, WorkerFits
<1> QED
  BY <1>1, <1>2, <1>3 DEF Inductive

\* The committed frames of a journal have been synced.
LEMMA CommittedSynced ==
  ASSUME Inductive, NEW s \in Segment, NEW e \in wal[s].frames, e \in ledger
  PROVE  e \in disk[s].frames
<1>1. PICK t \in Segment : e \in disk[t].frames
  BY DEF Inductive, LedgerSynced
<1>2. e \in wal[t].frames
  BY <1>1 DEF Inductive, FramesApart
<1>3. t = s
  BY <1>2 DEF Inductive, FramesApart
<1> QED
  BY <1>1, <1>3

LEMMA PromoteDataKeeps ==
  ASSUME Inductive, NEW r \in Recorder, PromoteData(r)
  PROVE  Inductive'
<1> DEFINE j == [job[r] EXCEPT !.pc = "data_sync"]
           s == job[r].seg
           events == job[r].events
           pair == [data |-> events, manifest |-> events]
           now == WithBundle(s, pair)
<1>1. /\ job[r].pc = "data" /\ Becomes(r, j)
      /\ UNCHANGED <<wal, disk, heard, opened, ledger>> /\ UNCHANGED counts
      /\ names' = Changed([Now EXCEPT !.bundle[s].data = events])
      /\ versions' = [versions EXCEPT ![s] = @ \union {events}]
  BY DEF PromoteData, At, GoesOn
<1>2. /\ j \in Job /\ j.pc = "data_sync" /\ j.seg = s /\ j.then = job[r].then
      /\ j.events = events
  BY MovedJob DEF Inductive, Pc, Promoting
<1>3. Fits(r) /\ job'[r] = j /\ events \in SUBSET Event
  BY <1>1, <1>2, AtCurrent, OnlyWorker DEF Inductive, Job
<1>4. s \in Segment /\ s <= opened /\ s \in 1..opened
  BY <1>1, AtHand
<1>5. s \in Listed /\ wal[s].frames = events /\ Bundle(s).manifest = events
  BY <1>1, <1>3 DEF Fits, Promoting
<1> HIDE DEF j, s, events
<1>6. names' = Changed(now) /\ pair \in Pair /\ (pair.data # {} => Verified(pair))
  <2>1. [data |-> events, manifest |-> Bundle(s).manifest] = pair
    BY <1>5
  <2>2. [Now EXCEPT !.bundle[s].data = events]
          = WithBundle(s, [data |-> events, manifest |-> Bundle(s).manifest])
    BY <1>3, <1>4, OneName DEF Inductive
  <2>3. pair \in Pair /\ (pair.data # {} => Verified(pair))
    BY <1>3 DEF Pair, Verified
  <2> QED
    BY <1>1, <2>1, <2>2, <2>3
<1>7. /\ now \in NameState /\ now.listed = Listed /\ now.bundle[s] = pair
      /\ Sound(now, opened, disk, ledger)
  <2> HIDE DEF pair
  <2> QED
    BY <1>4, <1>5, <1>6, Rebundling DEF Inductive
<1> HIDE DEF now
<1>8. Now' = now /\ names' \in History /\ AllSound(names')
  BY <1>6, <1>7, AfterChange, ChangedSound DEF Inductive
<1>9. NamesSound'
  BY <1>1, <1>8 DEF NamesSound, AllSound
<1>10. Fits(r)'
  BY <1>1, <1>2, <1>3, <1>4, <1>5, <1>7, <1>8
     DEF Fits, Bundle, Listed, Creating, Live, Mending, Promoting, Undoing
<1>11. versions \in [Segment -> SUBSET SUBSET Event]
  BY DEF Inductive, TypeOK
<1>12. /\ versions' \in [Segment -> SUBSET SUBSET Event]
       /\ \A t \in Segment : t # s => versions'[t] = versions[t]
       /\ versions'[s] = versions[s] \cup {events}
  BY <1>1, <1>3, <1>4, <1>11
<1>13. FilesTyped'
  BY <1>1, <1>12 DEF Inductive, TypeOK, FilesTyped
<1>14. FramesApart' /\ LedgerSynced'
  <2>1. opened \in Nat
    BY JournalAssumption DEF Inductive, TypeOK
  <2>2. \A t \in Segment : t > opened => t # s
    BY <1>4, <2>1
  <2> QED
    BY <1>1, <1>12, <2>2 DEF Inductive, FramesApart, LedgerSynced
<1>15. events \cap ledger = disk[s].frames \cap ledger
  <2>1. disk[s].frames \subseteq events
    BY <1>4, <1>5 DEF Inductive, FramesApart
  <2> QED
    BY <1>4, <1>5, <2>1, CommittedSynced
<1>16. events \subseteq 1..heard /\ \A t \in Segment \ {s} : events \cap wal[t].frames = {}
  BY <1>4, <1>5 DEF Inductive, FramesApart
<1>17. VersionsComplete'
  BY <1>1, <1>4, <1>12, <1>15, <1>16 DEF Inductive, VersionsComplete
<1> QED
  BY <1>1, <1>2, <1>8, <1>9, <1>10, <1>13, <1>14, <1>17, CountsKept, WorksOn
     DEF Inductive

LEMMA CreateJournalKeeps ==
  ASSUME Inductive, NEW r \in Recorder, CreateJournal(r)
  PROVE  Inductive'
<1> DEFINE s == opened + 1
           now == WithListed(Listed \cup {s})
<1>1. /\ job[r].pc = "open" /\ opened' = s /\ names' = Changed(now)
      /\ UNCHANGED <<disk, heard, ledger, versions>>
  BY DEF CreateJournal, At
<1>2. PICK complete \in BOOLEAN :
        /\ wal' = [wal EXCEPT ![s].header = complete]
        /\ Becomes(r, [Idle(IF complete THEN "header_sync" ELSE "header_failed")
                       EXCEPT !.seg = s])
  BY DEF CreateJournal
<1>3. Counted'
  BY CountsKept DEF CreateJournal, Inductive
<1>4. Fits(r)
  BY <1>1, AtCurrent
<1>5. opened \in Nat /\ opened < MaxSegments /\ MaxSegments \in Nat
  BY <1>1, <1>4, JournalAssumption DEF Inductive, TypeOK, Fits
<1>6. s \in Segment /\ s > opened /\ s \in 1..s /\ opened' \in 0..MaxSegments
      /\ s # NoSegment
  BY <1>1, <1>5 DEF Segment, NoSegment
<1>7. wal[s] = NoJournal /\ disk[s] = NoJournal /\ versions[s] = {}
  BY <1>6 DEF Inductive, FramesApart
<1> DEFINE j == [pc |-> IF complete THEN "header_sync" ELSE "header_failed", seg |-> s,
                 events |-> {}, then |-> "off"]
<1>8. Becomes(r, j)
  BY <1>2 DEF Idle
<1>9. /\ j \in Job /\ j.pc \in {"header_sync", "header_failed"} /\ j.seg = s
      /\ j.events = {} /\ j.then = "off" /\ (complete = FALSE => j.pc = "header_failed")
  BY <1>6 DEF Job, Pc, Creating
<1>10. job'[r] = j
  BY <1>1, <1>8, <1>9, OnlyWorker DEF Inductive
<1> HIDE DEF j
<1>11. wal \in [Segment -> File]
  BY DEF Inductive, TypeOK
<1>12. /\ wal' \in [Segment -> File]
       /\ \A t \in Segment : t # s => wal'[t] = wal[t]
       /\ wal'[s].frames = {} /\ wal'[s].header = complete
  BY <1>2, <1>6, <1>7, <1>11 DEF File, NoJournal
<1>13. \A n \in NameState : Sound(n, opened, disk, ledger) => Sound(n, opened', disk', ledger')
  <2>1. \A t \in Segment : t > s => t > opened
    BY <1>5 DEF Segment
  <2>2. 1..opened \subseteq 1..s
    BY <1>5
  <2> QED
    BY <1>1, <2>1, <2>2 DEF Sound
<1>14. Now \in NameState /\ Sound(Now, opened', disk', ledger')
  BY <1>13, Current DEF Inductive, NamesSound, Now
<1>15. /\ now \in NameState /\ now.listed = Listed \cup {s} /\ now.bundle = Now.bundle
  BY <1>6, <1>14 DEF WithListed, NameState, Listed
<1> HIDE DEF now
<1>16. Sound(now, opened', disk', ledger')
  BY <1>1, <1>6, <1>14, <1>15 DEF Sound, Listed
<1>17. Now' = now /\ names' \in History
  BY <1>1, <1>15, AfterChange DEF Inductive
<1>18. \A i \in DOMAIN names : Sound(names[i], opened', disk', ledger')
  BY <1>13, Current, LatestOf DEF Inductive, NamesSound
<1>19. NamesSound'
  BY <1>1, <1>15, <1>16, <1>18, ChangedHistory DEF NamesSound, Inductive
<1>20. Now.bundle[s] = NoFiles
  BY <1>6, Current DEF Inductive, NamesSound, Sound, Now
<1>21. Fits(r)'
  BY <1>1, <1>6, <1>7, <1>9, <1>10, <1>12, <1>15, <1>17, <1>20
     DEF Fits, Unpublished, Bundle, Listed, Creating, Live, Mending, Promoting, Undoing
<1>22. FilesTyped'
  BY <1>1, <1>6, <1>12 DEF Inductive, TypeOK, FilesTyped
<1>23. FramesApart'
  <2>1. \A t \in Segment : t > s => t > opened /\ t # s
    BY <1>5 DEF Segment
  <2> QED
    BY <1>1, <1>6, <1>7, <1>12, <2>1 DEF Inductive, FramesApart, NoJournal
<1>24. LedgerSynced'
  BY <1>1 DEF Inductive, LedgerSynced
<1>25. VersionsComplete'
  BY <1>1, <1>6, <1>12 DEF Inductive, VersionsComplete
<1>26. job[r].pc # "off"
  BY <1>1
<1> QED
  BY <1>3, <1>8, <1>9, <1>17, <1>19, <1>21, <1>22, <1>23, <1>24, <1>25, <1>26, WorksOn

\* What a sync of a journal adds to the disk has not been committed.
LEMMA SyncWalKeeps ==
  ASSUME Inductive, NEW s \in Segment, s <= opened, disk' = [disk EXCEPT ![s] = wal[s]],
         UNCHANGED <<wal, names, heard, opened, ledger, versions>>
  PROVE  FilesTyped' /\ NamesSound' /\ FramesApart' /\ LedgerSynced' /\ VersionsComplete'
<1>1. wal \in [Segment -> File] /\ disk \in [Segment -> File]
  BY DEF Inductive, TypeOK
<1>2. /\ disk' \in [Segment -> File] /\ disk'[s] = wal[s]
      /\ \A t \in Segment : t # s => disk'[t] = disk[t]
  BY <1>1
<1>3. \A t \in Segment : disk'[t].frames \cap ledger = disk[t].frames \cap ledger
  <2>1. disk[s].frames \subseteq wal[s].frames
    BY DEF Inductive, FramesApart
  <2> QED
    BY <1>2, <2>1, CommittedSynced
<1>4. FilesTyped'
  BY <1>2 DEF Inductive, TypeOK, FilesTyped
<1>5. NamesSound'
  BY <1>3 DEF Inductive, NamesSound, Sound
<1>6. FramesApart'
  <2>1. \A t \in Segment : t > opened => t # s
    BY JournalAssumption DEF Inductive, TypeOK, Segment
  <2> QED
    BY <1>2, <2>1 DEF Inductive, FramesApart
<1>7. LedgerSynced'
  BY <1>2 DEF Inductive, FramesApart, LedgerSynced
<1>8. VersionsComplete'
  BY <1>3 DEF Inductive, VersionsComplete
<1> QED
  BY <1>4, <1>5, <1>6, <1>7, <1>8

LEMMA SyncHeaderKeeps ==
  ASSUME Inductive, NEW r \in Recorder, SyncHeader(r)
  PROVE  Inductive'
<1> DEFINE j == [job[r] EXCEPT !.pc = "list_sync"]
           s == job[r].seg
<1>1. /\ job[r].pc = "header_sync" /\ Becomes(r, j) /\ UNCHANGED counts
      /\ disk' = [disk EXCEPT ![s] = wal[s]]
      /\ UNCHANGED <<wal, names, heard, opened, ledger, versions>>
  BY DEF SyncHeader, SyncWal, At, GoesOn
<1>2. /\ j \in Job /\ j.pc = "list_sync" /\ j.seg = s /\ j.then = job[r].then
      /\ j.events = job[r].events
  BY MovedJob DEF Inductive, Pc, Creating
<1>3. Fits(r) /\ job'[r] = j
  BY <1>1, <1>2, AtCurrent, OnlyWorker DEF Inductive
<1>4. s \in Segment /\ s \in 1..opened /\ s <= opened
  BY <1>1, AtHand
<1> HIDE DEF j
<1>5. disk'[s] = wal[s] /\ disk[s] \in File
  BY <1>1, <1>4 DEF Inductive, TypeOK
<1> HIDE DEF s
<1>6. Fits(r)'
  BY <1>1, <1>2, <1>3, <1>4, <1>5
     DEF Fits, Unpublished, Bundle, Listed, Now, Creating, Live, Mending, Promoting,
         Undoing, s
<1>7. FilesTyped' /\ NamesSound' /\ FramesApart' /\ LedgerSynced' /\ VersionsComplete'
  BY <1>1, <1>4, SyncWalKeeps
<1> QED
  BY <1>1, <1>2, <1>6, <1>7, NamesKept, CountsKept, WorksOn DEF Inductive

LEMMA SyncFrameKeeps ==
  ASSUME Inductive, NEW r \in Recorder, SyncFrame(r)
  PROVE  Inductive'
<1> DEFINE j == [job[r] EXCEPT !.pc = "consume", !.events = @ \union {heard}]
           s == job[r].seg
<1>1. /\ job[r].pc = "sync" /\ Becomes(r, j) /\ UNCHANGED counts
      /\ disk' = [disk EXCEPT ![s] = wal[s]]
      /\ UNCHANGED <<wal, names, heard, opened, ledger, versions>>
  BY DEF SyncFrame, SyncWal, At
<1>2. s \in Segment /\ s \in 1..opened /\ s <= opened /\ s # NoSegment
  BY <1>1, AtHand DEF Segment, NoSegment
<1>3. Fits(r) /\ job[r] \in Job
  BY <1>1, AtCurrent
<1>4. wal[s].frames = job[r].events \cup {heard} /\ heard \in Event
  <2>1. heard \in Nat /\ heard <= MaxEvents /\ MaxEvents \in Nat
    BY JournalAssumption DEF Inductive, TypeOK
  <2> QED
    BY <1>1, <1>2, <1>3, <2>1 DEF Fits, Live, Event
<1>5. /\ j \in Job /\ j.pc = "consume" /\ j.seg = s /\ j.then = job[r].then
      /\ j.events = wal[s].frames
  BY <1>3, <1>4 DEF Job, Pc, Live
<1>6. job'[r] = j
  BY <1>1, <1>5, OnlyWorker DEF Inductive
<1> HIDE DEF j
<1>7. disk'[s] = wal[s]
  BY <1>1, <1>2 DEF Inductive, TypeOK
<1>8. wal[s].header
  BY <1>1, <1>2, <1>3 DEF Fits, Live, Inductive, FramesApart
<1> HIDE DEF s
<1>9. Fits(r)'
  BY <1>1, <1>2, <1>3, <1>4, <1>5, <1>6, <1>7, <1>8
     DEF Fits, Unpublished, Bundle, Listed, Now, Creating, Live, Mending, Promoting,
         Undoing, s
<1>10. FilesTyped' /\ NamesSound' /\ FramesApart' /\ LedgerSynced' /\ VersionsComplete'
  BY <1>1, <1>2, SyncWalKeeps
<1> QED
  BY <1>1, <1>5, <1>9, <1>10, NamesKept, CountsKept, WorksOn DEF Inductive

LEMMA AppendFrameKeeps ==
  ASSUME Inductive, NEW r \in Recorder, AppendFrame(r)
  PROVE  Inductive'
<1> DEFINE s == job[r].seg
           e == heard + 1
<1>1. /\ job[r].pc \in {"write", "ready"} /\ (job[r].pc = "ready" => s # NoSegment)
      /\ heard < MaxEvents /\ heard' = e
      /\ UNCHANGED <<disk, names, opened, ledger, versions>>
  BY DEF AppendFrame, At
<1>2. PICK whole \in BOOLEAN :
         /\ wal' = IF whole THEN [wal EXCEPT ![s].frames = @ \union {e}]
                            ELSE [wal EXCEPT ![s].torn = TRUE]
         /\ Becomes(r, [job[r] EXCEPT !.pc = IF whole THEN "sync" ELSE "failed"])
         /\ UNCHANGED counts \/ Fault
  BY DEF AppendFrame, GoesOn
<1>3. Fits(r) /\ job[r] \in Job
  BY <1>1, AtCurrent
<1>4. heard \in Nat /\ MaxEvents \in Nat /\ opened \in Nat /\ opened <= MaxSegments
  BY JournalAssumption DEF Inductive, TypeOK
<1>5. s \in 1..opened /\ s # NoSegment
  BY <1>1, <1>3, <1>4 DEF Fits, Live, NoSegment
<1>6. s \in Segment
  BY <1>4, <1>5, JournalAssumption DEF Segment
<1>7. e \in Event /\ e \in 1..e /\ e \notin 1..heard /\ 1..heard \subseteq 1..e
      /\ e \in 0..MaxEvents /\ e > 0
  BY <1>1, <1>4 DEF Event
<1> DEFINE pc == IF whole THEN "sync" ELSE "failed"
           j == [job[r] EXCEPT !.pc = pc]
<1>8. pc \in Pc
  BY DEF Pc, Live
<1>9. /\ j \in Job /\ j.pc = pc /\ j.seg = s /\ j.then = job[r].then
      /\ j.events = job[r].events
  BY <1>8, MovedJob DEF Inductive
<1>10. job'[r] = j
  BY <1>1, <1>2, <1>9, OnlyWorker DEF Inductive
<1>11. wal \in [Segment -> File]
  BY DEF Inductive, TypeOK
<1> HIDE DEF j, s, e
<1>12. /\ wal' \in [Segment -> File]
       /\ \A t \in Segment : t # s => wal'[t] = wal[t]
       /\ wal'[s].header = wal[s].header
       /\ wal'[s].frames = IF whole THEN wal[s].frames \cup {e} ELSE wal[s].frames
  BY <1>2, <1>6, <1>7, <1>11 DEF File
<1>13. /\ Unpublished(s) /\ disk[s].header
       /\ \A i \in DOMAIN names : s \in names[i].listed
       /\ wal[s].frames = job[r].events
  BY <1>1, <1>3, <1>5 DEF Fits, Live, s
<1>14. Fits(r)'
  <2>1. CASE whole
    <3>1. j.pc = "sync" /\ wal'[s].frames = j.events \cup {heard'} /\ heard' > 0
      BY <1>1, <1>7, <1>9, <1>12, <1>13, <2>1
    <3> QED
      BY <1>1, <1>3, <1>5, <1>9, <1>10, <1>13, <3>1
         DEF Fits, Unpublished, Bundle, Listed, Now, Creating, Live, Mending, Promoting,
             Undoing
  <2>2. CASE ~whole
    BY <1>1, <1>3, <1>5, <1>9, <1>10, <2>2
       DEF Fits, Creating, Live, Mending, Promoting, Undoing
  <2> QED
    BY <2>1, <2>2
<1>15. FilesTyped'
  BY <1>1, <1>7, <1>12 DEF Inductive, TypeOK, FilesTyped
<1>16. NamesSound' /\ LedgerSynced'
  BY <1>1 DEF Inductive, NamesSound, LedgerSynced
<1>17. \A t \in Segment : wal[t].frames \subseteq 1..heard
  BY DEF Inductive, FramesApart
<1>18. FramesApart'
  <2>1. \A t \in Segment : t > opened => t # s
    BY <1>4, <1>5 DEF Segment
  <2>2. \A t \in Segment : wal'[t].frames \subseteq 1..e /\ disk[t].frames \subseteq wal'[t].frames
    BY <1>7, <1>12, <1>17 DEF Inductive, FramesApart
  <2>3. \A t, u \in Segment : t # u => wal'[t].frames \cap wal'[u].frames = {}
    BY <1>7, <1>12, <1>17 DEF Inductive, FramesApart
  <2> QED
    BY <1>1, <1>12, <2>1, <2>2, <2>3 DEF Inductive, FramesApart
<1>19. VersionsComplete'
  <2>1. SUFFICES ASSUME NEW t \in Segment, NEW v \in versions[t]
                 PROVE  /\ v \cap ledger = disk[t].frames \cap ledger
                        /\ v \subseteq 1..e
                        /\ \A u \in Segment \ {t} : v \cap wal'[u].frames = {}
    BY <1>1 DEF VersionsComplete
  <2>2. /\ v \cap ledger = disk[t].frames \cap ledger
        /\ v \subseteq 1..heard
        /\ \A u \in Segment \ {t} : v \cap wal[u].frames = {}
    BY DEF Inductive, VersionsComplete
  <2> QED
    BY <1>7, <1>12, <2>2
<1>20. job[r].pc # "off"
  BY <1>1
<1> QED
  BY <1>1, <1>2, <1>9, <1>14, <1>15, <1>16, <1>18, <1>19, <1>20, NamesKept, CountsKept,
     WorksOn DEF Inductive, j

\* The committed event has been synced, and its partition has never been
\* published: every surviving state of the names lists its journal.
LEMMA ConsumeKeeps ==
  ASSUME Inductive, NEW r \in Recorder, Consume(r)
  PROVE  Inductive'
<1> DEFINE s == job[r].seg
<1>1. /\ job[r].pc = "consume"
      /\ ledger' \in {ledger, ledger \cup {heard}}
      /\ UNCHANGED <<wal, disk, names, heard, opened, versions>>
      /\ UNCHANGED counts \/ Fault
  BY DEF Consume, At, files
<1>2. PICK j \in Job :
        /\ Becomes(r, j) /\ j.pc \in {"ready", "manifest"} /\ j.seg = s
        /\ j.events = job[r].events /\ (j.then = job[r].then \/ j.then = "off")
  <2>1. CASE Becomes(r, [job[r] EXCEPT !.pc = "ready"])
    BY <2>1, MovedJob DEF Inductive, Pc, Live
  <2>2. CASE Becomes(r, [job[r] EXCEPT !.pc = "manifest", !.then = "off"])
    BY <2>2, PublishingJob DEF Inductive
  <2> QED
    BY <2>1, <2>2 DEF Consume, GoesOn
<1>3. Fits(r) /\ job'[r] = j
  BY <1>1, <1>2, AtCurrent, OnlyWorker DEF Inductive
<1>4. s \in Segment /\ s \in 1..opened /\ s # NoSegment
  BY <1>1, AtHand DEF Segment, NoSegment
<1>5. /\ Unpublished(s) /\ disk[s].header
      /\ \A i \in DOMAIN names : s \in names[i].listed
      /\ wal[s].frames = job[r].events /\ disk[s].frames = job[r].events
      /\ heard \in job[r].events
  BY <1>1, <1>3, <1>4 DEF Fits, Live
<1>6. s \in Listed
  BY <1>5, Current DEF Listed, Now, Inductive
<1> HIDE DEF s
<1>7. Fits(r)'
  BY <1>1, <1>2, <1>3, <1>4, <1>5, <1>6
     DEF Fits, Unpublished, Bundle, Listed, Now, Creating, Live, Mending, Promoting, Undoing
<1>8. heard \in disk[s].frames /\ heard \in wal[s].frames
  BY <1>5
<1>9. \A t \in Segment \ {s} : heard \notin wal[t].frames /\ heard \notin disk[t].frames
  BY <1>4, <1>8 DEF Inductive, FramesApart
<1>10. FilesTyped'
  <2>1. heard \in Event
    BY <1>4, <1>8 DEF Inductive, TypeOK, File
  <2> QED
    BY <1>1, <2>1 DEF Inductive, TypeOK, FilesTyped
<1>11. NamesSound'
  BY <1>1, <1>5, <1>9 DEF Inductive, NamesSound, Sound
<1>12. FramesApart'
  BY <1>1 DEF Inductive, FramesApart
<1>13. LedgerSynced'
  BY <1>1, <1>4, <1>5, <1>8 DEF Inductive, LedgerSynced
<1>14. VersionsComplete'
  <2>1. SUFFICES ASSUME NEW t \in Segment, NEW v \in versions[t]
                 PROVE  v \cap ledger' = disk[t].frames \cap ledger'
    BY <1>1 DEF VersionsComplete, Inductive
  <2>2. t # s
    BY <1>5 DEF Unpublished
  <2>3. heard \notin disk[t].frames /\ heard \notin v
    BY <1>4, <1>8, <1>9, <2>2 DEF Inductive, VersionsComplete
  <2>4. v \cap ledger = disk[t].frames \cap ledger
    BY DEF Inductive, VersionsComplete
  <2> QED
    BY <1>1, <2>3, <2>4
<1>15. job[r].pc # "off"
  BY <1>1
<1> QED
  BY <1>1, <1>2, <1>7, <1>10, <1>11, <1>12, <1>13, <1>14, <1>15, NamesKept, CountsKept,
     WorksOn DEF Inductive

-----------------------------------------------------------------------------
(* A power failure *)

\* Whatever survives is a sound state of the names.
LEMMA SurvivorSound ==
  ASSUME Inductive, NamesSurvive
  PROVE  names' \in History /\ AllSound(names')
<1>1. \A i \in DOMAIN names : names[i] \in NameState /\ Sound(names[i], opened, disk, ledger)
  BY Current, LatestOf DEF Inductive, NamesSound
<1>2. SUFFICES \E n \in NameState : Sound(n, opened, disk, ledger) /\ names' = <<n>>
  BY Single DEF AllSound
<1>3. CASE Shared
  BY <1>1, <1>3 DEF NamesSurvive
<1>4. CASE ~Shared
  <2>1. PICK i \in DOMAIN names, index \in [Segment -> DOMAIN names] :
           names' = <<[listed |-> names[i].listed,
                       bundle |-> [s \in Segment |-> names[index[s]].bundle[s]]]>>
    BY <1>4 DEF NamesSurvive
  <2> DEFINE n == [listed |-> names[i].listed,
                   bundle |-> [s \in Segment |-> names[index[s]].bundle[s]]]
  <2>2. \A s \in Segment : index[s] \in DOMAIN names
    BY <2>1
  <2>3. n \in NameState
    BY <1>1, <2>2 DEF NameState
  <2>4. /\ n.listed = names[i].listed
        /\ \A s \in Segment : n.bundle[s] = names[index[s]].bundle[s]
    OBVIOUS
  <2> HIDE DEF n
  <2>5. Sound(n, opened, disk, ledger)
    BY <1>1, <1>4, <2>1, <2>2, <2>4 DEF Sound
  <2> QED
    BY <2>1, <2>3, <2>5 DEF n
<1> QED
  BY <1>3, <1>4

LEMMA PowerFailsKeeps ==
  ASSUME Inductive, PowerFails
  PROVE  Inductive'
<1>1. /\ outages < MaxOutages /\ outages' = outages + 1
      /\ job' = [r \in Recorder |-> Idle("off")] /\ lock' = Nobody
      /\ UNCHANGED <<heard, opened, ledger, versions, kills, faults>>
  BY DEF PowerFails
<1>2. names' \in History /\ AllSound(names')
  BY SurvivorSound DEF PowerFails
<1>3. wal \in [Segment -> File] /\ disk \in [Segment -> File]
  BY DEF Inductive, TypeOK
<1>4. PICK content \in [Segment -> UNION {Remains(s) : s \in Segment}] :
         /\ \A s \in Segment : content[s] \in Remains(s)
         /\ wal' = content /\ disk' = content
  BY DEF PowerFails
<1>5. \A s \in Segment :
        /\ content[s] \in File
        /\ \/ content[s].frames = disk[s].frames /\ content[s].header = disk[s].header
           \/ content[s].frames = wal[s].frames /\ content[s].header = wal[s].header
  <2> SUFFICES ASSUME NEW s \in Segment
               PROVE  /\ content[s] \in File
                      /\ \/ /\ content[s].frames = disk[s].frames
                            /\ content[s].header = disk[s].header
                         \/ /\ content[s].frames = wal[s].frames
                            /\ content[s].header = wal[s].header
    OBVIOUS
  <2>1. content[s] \in {disk[s], wal[s], [disk[s] EXCEPT !.torn = TRUE]}
    BY <1>4 DEF Remains
  <2>2. wal[s] \in File /\ disk[s] \in File
    BY <1>3
  <2> QED
    BY <2>1, <2>2 DEF File
<1>6. content \in [Segment -> File]
  BY <1>4, <1>5
<1>7. \A s \in Segment :
        /\ disk[s].frames \subseteq wal[s].frames
        /\ disk[s].header => wal[s].header
        /\ wal[s].frames \cap ledger = disk[s].frames \cap ledger
  BY CommittedSynced DEF Inductive, FramesApart
<1>8. \A s \in Segment :
        /\ content[s].frames \subseteq wal[s].frames
        /\ disk[s].frames \subseteq content[s].frames
        /\ disk[s].header => content[s].header
        /\ content[s].frames \cap ledger = disk[s].frames \cap ledger
  BY <1>5, <1>7
<1>9. Idle("off") \in Job /\ Idle("off").pc = "off"
  BY IdleJob DEF Pc
<1>10. TypeOK'
  BY <1>1, <1>2, <1>4, <1>6, <1>9, JournalAssumption
     DEF Inductive, TypeOK, Counted, History
<1>11. OneAtWork' /\ JobsFit'
  BY <1>1, <1>9, JournalAssumption DEF OneAtWork, JobsFit
<1>12. NamesSound'
  BY <1>1, <1>2, <1>4, <1>8 DEF NamesSound, AllSound, Sound
<1>13. FramesApart'
  <2>1. \A s \in Segment : s > opened => content[s] = NoJournal
    <3>1. \A s \in Segment : s > opened => wal[s] = NoJournal /\ disk[s] = NoJournal
      BY DEF Inductive, FramesApart
    <3> QED
      BY <1>4, <3>1 DEF Remains
  <2> QED
    BY <1>1, <1>4, <1>8, <2>1 DEF Inductive, FramesApart
<1>14. LedgerSynced'
  BY <1>1, <1>4, <1>8 DEF Inductive, LedgerSynced
<1>15. VersionsComplete'
  BY <1>1, <1>4, <1>8 DEF Inductive, VersionsComplete
<1> QED
  BY <1>10, <1>11, <1>12, <1>13, <1>14, <1>15 DEF Inductive

-----------------------------------------------------------------------------
(* The invariant *)

LEMMA InductiveInit == ASSUME Init PROVE Inductive
<1> DEFINE n == [listed |-> {}, bundle |-> [s \in Segment |-> NoFiles]]
<1>1. names = <<n>> /\ n \in NameState
  BY DEF Init, NameState, NoFiles, Pair
<1>2. \A s \in Segment : n.bundle[s] = NoFiles
  OBVIOUS
<1>3. n.listed = {}
  OBVIOUS
<1> HIDE DEF n
<1>4. names \in History /\ \A i \in DOMAIN names : names[i] = n
  BY <1>1, Single
<1>5. /\ NoJournal \in File /\ NoJournal.frames = {}
      /\ Idle("off") \in Job /\ Idle("off").pc = "off"
  BY IdleJob DEF NoJournal, File, Pc
<1>6. TypeOK
  BY <1>4, <1>5, JournalAssumption DEF Init, TypeOK, History, Counted
<1>7. OneAtWork /\ JobsFit
  BY <1>5, JournalAssumption DEF Init, OneAtWork, JobsFit
<1>8. NamesSound
  <2>1. ledger = {} /\ NoFiles.data = {}
    BY DEF Init, NoFiles
  <2>2. Sound(n, opened, disk, ledger)
    BY <1>2, <1>3, <2>1 DEF Sound
  <2> QED
    BY <1>4, <2>2 DEF NamesSound
<1>9. FramesApart /\ LedgerSynced /\ VersionsComplete
  BY <1>5 DEF Init, FramesApart, LedgerSynced, VersionsComplete
<1> QED
  BY <1>6, <1>7, <1>8, <1>9 DEF Inductive

LEMMA InductiveNext == ASSUME Inductive, Next PROVE Inductive'
<1>1. CASE PowerFails
  BY <1>1, PowerFailsKeeps
<1>2. ASSUME NEW r \in Recorder, RecoveryStep(r) PROVE Inductive'
  BY <1>2, AcquireKeeps, RecoverKeeps, AsideKeeps, RecoveredKeeps DEF RecoveryStep
<1>3. ASSUME NEW r \in Recorder, RecordingStep(r) PROVE Inductive'
  BY <1>3, RotateStopKeep, CreateJournalKeeps, SyncHeaderKeeps, ListJournalKeeps,
     CreateFailsKeeps, AppendFrameKeeps, SyncFrameKeeps, EndsKeep, ConsumeKeeps
     DEF RecordingStep
<1>4. ASSUME NEW r \in Recorder, PublishingStep(r) PROVE Inductive'
  BY <1>4, PromoteManifestKeeps, SyncPublishedKeeps, PromoteDataKeeps, FinalizeFailsKeeps,
     UndoDataKeeps, UndoManifestKeeps, DropKeeps, SyncDropKeeps, DiscardFailsKeeps
     DEF PublishingStep
<1> QED
  BY <1>1, <1>2, <1>3, <1>4, EndsKeep DEF Next, Step

LEMMA InductiveStutter == ASSUME Inductive, UNCHANGED vars PROVE Inductive'
<1>1. UNCHANGED <<lock, job, names, wal, disk, heard, opened, ledger, versions, kills,
                  outages, faults>>
  BY DEF vars, files, counts
<1>2. TypeOK' /\ OneAtWork' /\ NamesSound' /\ JobsFit'
  <2>1. TypeOK' /\ OneAtWork' /\ NamesSound'
    BY <1>1 DEF Inductive, TypeOK, Counted, OneAtWork, NamesSound
  <2>2. \A r \in Recorder : Fits(r)' <=> Fits(r)
    BY <1>1 DEF Fits, Unpublished, Bundle, Listed, Now
  <2>3. JobsFit'
    BY <1>1, <2>2 DEF Inductive, JobsFit
  <2> QED
    BY <2>1, <2>3
<1>3. UNCHANGED Contents
  BY <1>1 DEF Contents
<1> QED
  BY <1>2, <1>3, SameContents DEF Inductive

\* The archive and its journals keep the inductive invariant whatever the
\* recorders do and wherever they are killed.
THEOREM Correct == Spec => []Inductive
<1>1. Inductive /\ [Next]_vars => Inductive'
  BY InductiveNext, InductiveStutter
<1> QED
  BY <1>1, InductiveInit, PTL DEF Spec

\* Every variable keeps its type: in particular no event or segment number is
\* ever used beyond the bounds (hft_archive.py, hft_audit_journal.py).
THEOREM TypeCorrect == Spec => []TypeOK
<1>1. Inductive => TypeOK
  BY DEF Inductive
<1> QED
  BY <1>1, Correct, PTL

\* Data is never found without its manifest, whichever of the promotions,
\* undoings and quarantines a kill or a power failure cuts short
\* (HftArchiveWriter.finalize, _write_recovered_bundle, _quarantine).
THEOREM DataVerified == Spec => []VerifierBeforeData
<1>1. Inductive => VerifierBeforeData
  BY DEF Inductive, NamesSound, Sound, VerifierBeforeData
<1> QED
  BY <1>1, Correct, PTL

\* No recovery takes the journal of a partition being recorded away
\* (AuditJournalCoordinator.acquire and recover).
THEOREM LiveKept == Spec => []LiveJournalKept
<1>1. Inductive => LiveJournalKept
  BY DEF Inductive, JobsFit, Fits, LiveJournalKept, Live
<1> QED
  BY <1>1, Correct, PTL

\* All versions of a partition, however often it is published and rebuilt,
\* hold the same committed events.
THEOREM VersionsAlike == Spec => []VersionsAgree
<1>1. Inductive => VersionsAgree
  BY DEF Inductive, VersionsComplete, VersionsAgree
<1> QED
  BY <1>1, Correct, PTL

\* On a file system that keeps the order of name changes, a committed event
\* has a source that survives a power failure (the promise of
\* hft_audit_journal.py's header).
THEOREM SourceKept == ASSUME Shared PROVE Spec => []LedgerHasSource
<1>1. ASSUME Inductive PROVE LedgerHasSource
  <2>1. SUFFICES ASSUME NEW e \in ledger, NEW i \in DOMAIN names
                 PROVE  \E s \in Segment : InJournal(e, s, names[i].listed)
                                             \/ InBundle(e, names[i].bundle[s])
    BY DEF LedgerHasSource, Beside
  <2>2. PICK s \in Segment : disk[s].header /\ e \in disk[s].frames
    BY <1>1 DEF Inductive, LedgerSynced
  <2>3. Sound(names[i], opened, disk, ledger)
    BY <1>1 DEF Inductive, NamesSound
  <2> QED
    BY <2>2, <2>3 DEF Sound, InJournal
<1> QED
  BY <1>1, Correct, PTL

=============================================================================
