------------------------ MODULE ArtifactBundleProofs ------------------------
(***************************************************************************)
(* The inductive invariant of the artifact bundles and the three safety    *)
(* properties it yields, for any number of runs and of members, in all     *)
(* three protocols, with any number of kills, failures and interrupts.     *)
(*                                                                         *)
(* The invariant has a part for each run, one for the marker and one for   *)
(* the reader.  Only a run that holds the bundle, by the lock or by its    *)
(* reservation, is past the invalidation of the old marker; the others     *)
(* have nothing under the final names that could get mixed up.             *)
(***************************************************************************)
EXTENDS ArtifactBundle, TLAPS

Index == 1..Len(Members)

\* The run that holds the bundle.
Holder(w) == IF protocol = "record" THEN reservation = w ELSE lock = w

\* Steps the holder alone takes, and those after which a run writes no member.
Inside == {"invalidate", "promote", "note", "unlink", "undo", "hash", "publish", "tidy"}
Over == Ended \cup {"tidy"}

\* The steps of each protocol.
Routed(w) ==
  /\ protocol = "backtest" => overwrite[w] /\ pc[w] \notin {"reserve", "invalidate"}
  /\ protocol = "record" => ~overwrite[w] /\ pc[w] \notin {"stage", "lock", "invalidate"}
  /\ protocol = "workflow" => pc[w] # "reserve"
  /\ pc[w] \in Ahead => at[w] = 1
  /\ pc[w] \in Busy \ {"undo"} => at[w] # 0
  /\ pc[w] \in {"note", "unlink", "undo"} => Undoable(w)
  /\ pc[w] \in Inside => Holder(w)
  /\ protocol = "backtest" /\ pc[w] = "stage" => Holder(w)

\* The members promoted so far, and the old marker gone.
Promoted(w) ==
  protocol # "backtest" =>
    /\ pc[w] \in {"promote", "note", "unlink", "undo", "hash", "publish"} => marker = NoMarker
    /\ pc[w] = "promote" => \A i \in Index : i < at[w] => files[Members[i]] = w
    /\ pc[w] = "note" => \A i \in Index : i <= at[w] => files[Members[i]] = w
    /\ pc[w] \in {"unlink", "hash", "publish", "tidy"} => \A m \in Member : files[m] = w

\* The hashes computed so far.
Hashed(w) ==
  /\ pc[w] = "hash" => \A i \in Index : i < at[w] => sums[w][Members[i]] = w
  /\ pc[w] = "publish" \/ (protocol = "backtest" /\ pc[w] = "promote")
       => \A m \in Member : sums[w][m] = w

\* The members after the k-th are not those of a run.
NoneAfter(w, k) == \A i \in Index : i > k => files[Members[i]] # w

\* A run that must not overwrite finds nothing of others; it leaves all or
\* nothing where the undoing knows and reaches all that was linked.
Refusing(w) ==
  protocol = "workflow" =>
    /\ pc[w] \in Ahead => \A m \in Member : files[m] # w
    /\ pc[w] \in {"lock", "invalidate"} => staged[w] = Member
    /\ pc[w] \in {"promote", "note", "undo"} /\ ~overwrite[w]
         => \A m \in Member : files[m] \in {w, NoWriter, Stranger}
    /\ pc[w] = "promote" /\ ~overwrite[w] => staged[w] = Member /\ NoneAfter(w, at[w] - 1)
    /\ pc[w] = "note" => staged[w] = Member /\ NoneAfter(w, at[w])
    /\ pc[w] = "undo" /\ w \notin torn => staged[w] = Member /\ NoneAfter(w, at[w])
    /\ pc[w] = "failed" /\ ~overwrite[w] /\ w \notin torn /\ (\E m \in Member : files[m] = w)
         => \A m \in Member : files[m] \in Writer

Run(w) == Routed(w) /\ Promoted(w) /\ Hashed(w) /\ Refusing(w)

\* A marker is that of a run that writes no more members; nobody holds a free bundle.
Marked ==
  /\ marker # NoMarker => \E w \in Writer :
       /\ \A m \in Member : marker[m] = w
       /\ pc[w] \in Over
  /\ protocol # "backtest" /\ marker # NoMarker => files = marker
  /\ protocol = "record" /\ reservation = NoWriter => marker = NoMarker

\* A reader that began on a mixed bundle has a member ahead that gives it away.
Reading ==
  /\ verdict # "mixed"
  /\ reader # Idle /\ ~reader.whole => \E v \in Writer :
       /\ \A m \in Member : reader.named[m] = v
       /\ protocol = "backtest" /\ pc[v] \in Over
       /\ \E i \in Index : i > reader.checked /\ files[Members[i]] # v

Inductive == TypeOK /\ (\A w \in Writer : Run(w)) /\ Marked /\ Reading

-----------------------------------------------------------------------------
(* Members, steps and the runs beside *)

LEMMA MemberFacts ==
  /\ Len(Members) \in Nat \ {0}
  /\ \A i \in Index : Members[i] \in Member
  /\ \A m \in Member : \E i \in Index : Members[i] = m
  /\ \A i \in Index, j \in Index : Members[i] = Members[j] => i = j
  /\ 1 \in Index
<1>1. Members \in Seq(ToSet(Members)) /\ Members # <<>>
      /\ \A i, j \in DOMAIN Members : Members[i] = Members[j] => i = j
  BY BundleAssumption DEF IsInjective
<1>2. DOMAIN Members = Index /\ Len(Members) \in Nat
  BY <1>1 DEF Index
<1>3. Len(Members) # 0
  BY <1>1
<1> QED
  BY <1>1, <1>2, <1>3 DEF Member, ToSet, Index

LEMMA NoWriterFact == NoWriter \notin Writer /\ Stranger \notin Writer /\ Stranger # NoWriter
                      /\ NoWriter \in Owner /\ Stranger \in Owner /\ Writer \subseteq Owner
                      /\ Protocol \subseteq {"workflow", "backtest", "record"}
                      /\ MaxKills \in Nat /\ MaxFailures \in Nat /\ MaxReads \in Nat
BY BundleAssumption DEF Owner

\* A run beside one that changes nothing it has to do with.
LEMMA BesideQuiet ==
  ASSUME NEW v \in Writer, Run(v), pc'[v] = pc[v], at'[v] = at[v], sums'[v] = sums[v],
         staged'[v] = staged[v], UNCHANGED <<protocol, overwrite, files, marker>>,
         Holder(v) => Holder(v)', v \in torn => v \in torn'
  PROVE  Run(v)'
<1>1. Routed(v)'
  BY DEF Run, Routed, Undoable
<1>2. Promoted(v)' /\ Hashed(v)'
  BY DEF Run, Promoted, Hashed
<1>3. Refusing(v)'
  BY DEF Run, Refusing, NoneAfter
<1> QED
  BY <1>1, <1>2, <1>3 DEF Run

\* A run beside the holder, whose files it can only lose.
LEMMA BesideHolder ==
  ASSUME NEW v \in Writer, Run(v), ~Holder(v), pc'[v] = pc[v], at'[v] = at[v],
         sums'[v] = sums[v], staged'[v] = staged[v], UNCHANGED <<protocol, overwrite>>,
         v \in torn => v \in torn',
         \A m \in Member : files'[m] = v => files[m] = v,
         (\A m \in Member : files[m] \in Writer) /\ (\E m \in Member : files'[m] = v)
            => \A m \in Member : files'[m] \in Writer
  PROVE  Run(v)'
<1>1. pc[v] \notin Inside /\ (protocol = "backtest" => pc[v] # "stage")
  BY DEF Run, Routed
<1>2. Routed(v)'
  BY <1>1 DEF Run, Routed, Inside
<1>3. Promoted(v)' /\ Hashed(v)' /\ Refusing(v)'
  BY <1>1 DEF Run, Promoted, Hashed, Refusing, Inside
<1> QED
  BY <1>2, <1>3 DEF Run

\* Only one run holds the bundle.
LEMMA OneHolder == ASSUME NEW v, NEW w, Holder(v), Holder(w) PROVE v = w
BY DEF Holder

\* What finished runs and markers promise survives a step of another run.
LEMMA MarkedKept ==
  ASSUME Marked, UNCHANGED <<protocol, files, marker>>,
         \A v \in Writer : pc[v] \in Over => pc'[v] \in Over,
         reservation' = NoWriter => reservation = NoWriter
  PROVE  Marked'
BY DEF Marked

LEMMA ReadingKept ==
  ASSUME Reading, UNCHANGED <<protocol, reader, verdict>>,
         \A v \in Writer : pc[v] \in Over => pc'[v] \in Over,
         protocol = "backtest" => \A v \in Writer, m \in Member :
           pc[v] \in Over /\ files[m] # v => files'[m] # v
  PROVE  Reading'
<1>1. ASSUME reader # Idle, ~reader.whole
      PROVE  \E v \in Writer :
               /\ \A m \in Member : reader.named[m] = v
               /\ protocol = "backtest" /\ pc'[v] \in Over
               /\ \E i \in Index : i > reader.checked /\ files'[Members[i]] # v
  <2>1. PICK v \in Writer :
               /\ \A m \in Member : reader.named[m] = v
               /\ protocol = "backtest" /\ pc[v] \in Over
               /\ \E i \in Index : i > reader.checked /\ files[Members[i]] # v
    BY <1>1 DEF Reading
  <2> QED
    BY <2>1, MemberFacts
<1> QED
  BY <1>1 DEF Reading

\* A step that leaves the files and the marker alone.
LEMMA QuietInductive ==
  ASSUME Inductive, NEW w \in Writer, TypeOK', Run(w)', pc[w] \in Over => pc'[w] \in Over,
         torn \subseteq torn', UNCHANGED <<protocol, overwrite, files, marker, reader, verdict>>,
         \A v \in Writer \ {w} :
           /\ pc'[v] = pc[v] /\ at'[v] = at[v]
           /\ sums'[v] = sums[v] /\ staged'[v] = staged[v]
           /\ Holder(v) => Holder(v)',
         reservation' = NoWriter => reservation = NoWriter
  PROVE  Inductive'
<1>1. \A v \in Writer : Run(v)'
  BY BesideQuiet DEF Inductive
<1>2. \A v \in Writer : pc[v] \in Over => pc'[v] \in Over
  OBVIOUS
<1>3. Marked' /\ Reading'
  BY <1>2, MarkedKept, ReadingKept DEF Inductive
<1> QED
  BY <1>1, <1>3 DEF Inductive

-----------------------------------------------------------------------------
(* The steps *)

LEMMA InitInductive == Init => Inductive
<1> SUFFICES ASSUME Init PROVE Inductive
  OBVIOUS
<1>1. TypeOK
  BY MemberFacts, NoWriterFact
     DEF Init, TypeOK, Absent, NoMarker, Idle, Ahead, Busy, Ended, Index
<1>2. ASSUME NEW w \in Writer PROVE Run(w)
  <2>1. pc[w] = "check" /\ at[w] = 1 /\ \A m \in Member : files[m] = NoWriter
    BY DEF Init, Absent
  <2>2. /\ protocol = "backtest" => overwrite[w]
        /\ protocol = "record" => ~overwrite[w]
    BY DEF Init
  <2>3. Routed(w)
    BY <2>1, <2>2 DEF Routed, Inside
  <2>4. Promoted(w) /\ Hashed(w) /\ Refusing(w)
    BY <2>1, NoWriterFact DEF Promoted, Hashed, Refusing
  <2> QED
    BY <2>3, <2>4 DEF Run
<1>3. Marked /\ Reading
  BY DEF Init, Marked, Reading
<1> QED
  BY <1>1, <1>2, <1>3 DEF Inductive

\* The first look.
LEMMA CheckInductive ==
  ASSUME Inductive, NEW w \in Writer, Check(w)
  PROVE  Inductive'
<1>1. PICK x \in {"failed", "stage", "reserve", "lock"} :
        /\ pc' = [pc EXCEPT ![w] = x]
        /\ x = "stage" => protocol = "workflow"
        /\ x = "reserve" => protocol = "record"
        /\ x = "lock" => protocol = "backtest"
  <2>1. protocol \in {"workflow", "backtest", "record"}
    BY NoWriterFact DEF Inductive, TypeOK
  <2> QED
    BY <2>1 DEF Check, Go
<1>2. /\ pc[w] = "check"
      /\ UNCHANGED <<protocol, overwrite, kills, reader, verdict, reads, failures, torn, files,
                     marker, reservation, staged, lock, at, sums>>
  BY DEF Check, world, reading, faults
<1>3. /\ pc \in [Writer -> Busy \cup Ended] /\ Run(w) /\ pc'[w] = x
      /\ \A v \in Writer \ {w} : pc'[v] = pc[v]
  BY <1>1 DEF Inductive, TypeOK
<1>4. TypeOK'
  BY <1>1, <1>2 DEF Inductive, TypeOK, Busy, Ahead, Ended
<1>5. Routed(w)'
  BY <1>1, <1>2, <1>3 DEF Run, Routed, Ahead, Inside
<1>6. Promoted(w)' /\ Hashed(w)' /\ Refusing(w)'
  BY <1>1, <1>2, <1>3 DEF Run, Promoted, Hashed, Refusing, Ahead
<1>7. Run(w)'
  BY <1>5, <1>6 DEF Run
<1> QED
  BY <1>2, <1>3, <1>4, <1>7, QuietInductive DEF Holder, Over, Ended

\* The reservation is made, once for all runs.
LEMMA ReserveInductive ==
  ASSUME Inductive, NEW w \in Writer, Reserve(w)
  PROVE  Inductive'
<1>1. /\ pc[w] = "reserve"
      /\ \/ reservation = NoWriter /\ reservation' = w /\ pc' = [pc EXCEPT ![w] = "promote"]
         \/ reservation # NoWriter /\ reservation' = reservation
            /\ pc' = [pc EXCEPT ![w] = "failed"]
      /\ UNCHANGED <<protocol, overwrite, kills, reader, verdict, reads, failures, torn, files,
                     marker, staged, lock, at, sums>>
  BY DEF Reserve, Go, world, reading, faults
<1>2. /\ pc \in [Writer -> Busy \cup Ended] /\ Run(w) /\ protocol = "record"
      /\ \A v \in Writer \ {w} : pc'[v] = pc[v]
  BY <1>1, NoWriterFact DEF Inductive, TypeOK, Run, Routed
<1>3. TypeOK'
  <2>1. pc' \in [Writer -> Busy \cup Ended] /\ reservation' \in Writer \cup {NoWriter}
    <3>1. "promote" \in Busy \cup Ended /\ "failed" \in Busy \cup Ended
      BY DEF Busy, Ended
    <3>2. reservation \in Writer \cup {NoWriter}
      BY DEF Inductive, TypeOK
    <3> QED
      BY <1>1, <1>2, <3>1, <3>2
  <2>2. UNCHANGED <<protocol, overwrite, kills, reader, verdict, reads, failures, torn, files,
                    marker, staged, lock, at, sums>>
    BY <1>1
  <2> QED
    BY <2>1, <2>2 DEF Inductive, TypeOK
<1>4. at[w] = 1 /\ \A i \in Index : ~(i < at[w])
  BY <1>1, <1>2 DEF Run, Routed, Ahead, Index
<1>5. reservation = NoWriter => marker = NoMarker
  BY <1>2 DEF Inductive, Marked
<1>6. Routed(w)'
  BY <1>1, <1>2 DEF Run, Routed, Ahead, Inside, Holder
<1>7. Promoted(w)' /\ Hashed(w)' /\ Refusing(w)'
  BY <1>1, <1>2, <1>4, <1>5 DEF Run, Promoted, Hashed, Refusing
<1>8. Run(w)'
  BY <1>6, <1>7 DEF Run
<1>9. \A v \in Writer \ {w} : Holder(v) => Holder(v)'
  BY <1>1, <1>2, NoWriterFact DEF Holder
<1> QED
  BY <1>1, <1>2, <1>3, <1>8, <1>9, NoWriterFact, QuietInductive DEF Over, Ended

\* The contents are staged.
LEMMA StageInductive ==
  ASSUME Inductive, NEW w \in Writer, Stage(w)
  PROVE  Inductive'
<1> DEFINE x == IF protocol = "workflow" THEN "lock" ELSE "hash"
<1>1. /\ pc[w] = "stage" /\ staged' = [staged EXCEPT ![w] = Member]
      /\ pc' = [pc EXCEPT ![w] = x]
      /\ UNCHANGED <<protocol, overwrite, kills, reader, verdict, reads, failures, torn, files,
                     marker, reservation, lock, at, sums>>
  BY DEF Stage, Go, world, reading, faults
<1>2. /\ pc \in [Writer -> Busy \cup Ended] /\ staged \in [Writer -> SUBSET Member]
      /\ Run(w) /\ protocol \in {"workflow", "backtest", "record"}
  BY NoWriterFact DEF Inductive, TypeOK
<1>3. /\ pc'[w] = x /\ staged'[w] = Member
      /\ \A v \in Writer \ {w} : pc'[v] = pc[v] /\ staged'[v] = staged[v]
  BY <1>1, <1>2
<1>4. protocol # "record" /\ at[w] = 1 /\ \A i \in Index : ~(i < at[w])
  BY <1>1, <1>2 DEF Run, Routed, Ahead, Index
<1>5. TypeOK'
  BY <1>1 DEF Inductive, TypeOK, Busy, Ahead, Ended
<1>6. Routed(w)'
  BY <1>1, <1>2, <1>3, <1>4 DEF Run, Routed, Ahead, Inside, Holder
<1>7. Promoted(w)' /\ Hashed(w)'
  BY <1>1, <1>2, <1>3, <1>4 DEF Run, Promoted, Hashed
<1>8. Refusing(w)'
  BY <1>1, <1>2, <1>3, <1>4 DEF Run, Refusing, Ahead
<1>9. Run(w)'
  BY <1>6, <1>7, <1>8 DEF Run
<1>10. \A v \in Writer \ {w} : Holder(v) => Holder(v)'
  BY <1>1 DEF Holder
<1> QED
  BY <1>1, <1>3, <1>5, <1>9, <1>10, QuietInductive DEF Over, Ended

\* The lock is taken.
LEMMA LockInductive ==
  ASSUME Inductive, NEW w \in Writer, Lock(w)
  PROVE  Inductive'
<1> DEFINE x == IF protocol = "workflow" THEN "invalidate" ELSE "stage"
<1>1. /\ pc[w] = "lock" /\ lock = NoWriter /\ lock' = w
      /\ pc' = [pc EXCEPT ![w] = x]
      /\ UNCHANGED <<protocol, overwrite, kills, reader, verdict, reads, failures, torn, files,
                     marker, reservation, staged, at, sums>>
  BY DEF Lock, Go, world, reading, faults
<1>2. /\ pc \in [Writer -> Busy \cup Ended]
      /\ Run(w) /\ protocol \in {"workflow", "backtest", "record"}
  BY NoWriterFact DEF Inductive, TypeOK
<1>3. pc'[w] = x /\ \A v \in Writer \ {w} : pc'[v] = pc[v]
  BY <1>1, <1>2
<1>4. protocol # "record" /\ at[w] = 1
  BY <1>1, <1>2 DEF Run, Routed, Ahead
<1>5. TypeOK'
  BY <1>1 DEF Inductive, TypeOK, Busy, Ahead, Ended
<1>6. Routed(w)'
  BY <1>1, <1>2, <1>3, <1>4 DEF Run, Routed, Ahead, Inside, Holder
<1>7. Promoted(w)' /\ Hashed(w)' /\ Refusing(w)'
  BY <1>1, <1>2, <1>3, <1>4 DEF Run, Promoted, Hashed, Refusing, Ahead
<1>8. Run(w)'
  BY <1>6, <1>7 DEF Run
<1>9. \A v \in Writer \ {w} : Holder(v) => Holder(v)'
  BY <1>1, <1>4, NoWriterFact DEF Holder
<1> QED
  BY <1>1, <1>3, <1>5, <1>8, <1>9, QuietInductive DEF Over, Ended

\* A run that ends without undoing anything, or after the undoing, leaves no part
\* of a bundle that it does not know of.
LEMMA FailedRun ==
  ASSUME Inductive, NEW w \in Writer, pc[w] \in Busy, pc'[w] = "failed",
         UNCHANGED <<protocol, overwrite, files>>,
         pc[w] = "promote" => ~Undoable(w), pc[w] \notin {"note", "unlink"},
         pc[w] = "undo" => w \in torn' \/ (w \notin torn /\ at[w] = 0)
  PROVE  Run(w)'
<1>1. Run(w)
  BY DEF Inductive
<1>2. Routed(w)'
  BY <1>1 DEF Run, Routed, Ahead, Inside, Busy, Ended
<1>3. Promoted(w)' /\ Hashed(w)'
  BY DEF Promoted, Hashed
<1>4. Refusing(w)'
  <2> SUFFICES ASSUME protocol = "workflow", ~overwrite[w], w \notin torn',
                      NEW m \in Member, files[m] = w, NEW k \in Member
               PROVE  files[k] \in Writer
    BY DEF Refusing, Ahead
  <2>1. pc[w] # "undo"
    <3>1. ASSUME pc[w] = "undo" PROVE FALSE
      <4>1. at[w] = 0 /\ NoneAfter(w, at[w])
        BY <1>1, <3>1 DEF Run, Refusing
      <4>2. PICK i \in Index : Members[i] = m
        BY MemberFacts
      <4> QED
        BY <4>1, <4>2 DEF NoneAfter, Index
    <3> QED
      BY <3>1
  <2>2. pc[w] \notin Ahead /\ pc[w] # "promote"
    BY <1>1 DEF Run, Refusing, Undoable
  <2>3. pc[w] \in {"hash", "publish", "tidy"}
    BY <2>1, <2>2 DEF Busy
  <2> QED
    BY <1>1, <2>3 DEF Run, Promoted
<1> QED
  BY <1>2, <1>3, <1>4 DEF Run

\* What unwinding does to the variables.
LEMMA Unwound ==
  ASSUME TypeOK, NEW w \in Writer, NEW x \in Ended, Unwind(w, x)
  PROVE  /\ pc' \in [Writer -> Busy \cup Ended] /\ staged' \in [Writer -> SUBSET Member]
         /\ lock' \in Writer \cup {NoWriter} /\ pc'[w] = x
         /\ \A v \in Writer \ {w} : pc'[v] = pc[v] /\ staged'[v] = staged[v]
         /\ \A v \in Writer \ {w} : lock = v => lock' = v
<1>1. /\ pc' = [pc EXCEPT ![w] = x] /\ staged' = [staged EXCEPT ![w] = {}]
      /\ lock' = IF lock = w THEN NoWriter ELSE lock
  BY DEF Unwind, Go, Released
<1> QED
  BY <1>1 DEF TypeOK

\* A step of the holder.
LEMMA HolderInductive ==
  ASSUME Inductive, NEW w \in Writer, Holder(w), TypeOK', Run(w)', Marked', Reading',
         UNCHANGED <<protocol, overwrite>>, torn \subseteq torn',
         \A v \in Writer \ {w} :
           /\ pc'[v] = pc[v] /\ at'[v] = at[v]
           /\ sums'[v] = sums[v] /\ staged'[v] = staged[v],
         \/ \A m \in Member : files'[m] \in {files[m], w}
         \/ \A m \in Member : files'[m] \in {w, NoWriter, Stranger}
  PROVE  Inductive'
<1>1. ASSUME NEW v \in Writer, v # w PROVE Run(v)'
  <2>1. Run(v) /\ ~Holder(v)
    BY <1>1, OneHolder DEF Inductive
  <2>2. \A m \in Member : files'[m] = v => files[m] = v
    BY <1>1, NoWriterFact
  <2>3. (\A m \in Member : files[m] \in Writer) /\ (\E m \in Member : files'[m] = v)
          => \A m \in Member : files'[m] \in Writer
    BY <1>1, NoWriterFact
  <2> QED
    BY <1>1, <2>1, <2>2, <2>3, BesideHolder
<1> QED
  BY <1>1 DEF Inductive

\* The old marker goes, or the run refuses to overwrite.
LEMMA InvalidateInductive ==
  ASSUME Inductive, NEW w \in Writer, Invalidate(w)
  PROVE  Inductive'
<1>1. /\ pc[w] = "invalidate"
      /\ UNCHANGED <<protocol, overwrite, kills, reader, verdict, reads, failures, torn, files,
                     reservation, at, sums>>
      /\ marker' = IF overwrite[w] THEN NoMarker ELSE marker
  BY DEF Invalidate, world, reading, faults
<1>2. /\ TypeOK /\ Run(w) /\ Marked /\ Reading /\ pc \in [Writer -> Busy \cup Ended]
      /\ protocol \in {"workflow", "backtest", "record"}
  BY NoWriterFact DEF Inductive, TypeOK
<1>3. protocol = "workflow" /\ Holder(w) /\ at[w] = 1 /\ staged[w] = Member
      /\ \A m \in Member : files[m] # w
  BY <1>1, <1>2 DEF Run, Routed, Refusing, Ahead, Inside
<1>4. marker' \in [Member -> Owner]
  BY <1>1, <1>2, NoWriterFact DEF TypeOK, NoMarker
<1>5. marker' = NoMarker \/ marker' = marker
  BY <1>1
<1>6. CASE (overwrite[w] \/ files = Absent) /\ pc' = [pc EXCEPT ![w] = "promote"]
           /\ UNCHANGED <<staged, lock>>
  <2>1. pc' \in [Writer -> Busy \cup Ended] /\ pc'[w] = "promote"
        /\ \A v \in Writer \ {w} : pc'[v] = pc[v]
    BY <1>2, <1>6 DEF Busy
  <2>2. TypeOK'
    BY <1>1, <1>2, <1>4, <1>6, <2>1 DEF TypeOK
  <2>3. marker' = NoMarker
    BY <1>1, <1>2, <1>3, <1>6 DEF Marked, Absent, NoMarker
  <2>4. \A i \in Index : ~(i < at[w])
    BY <1>3 DEF Index
  <2>5. ~overwrite[w] => \A m \in Member : files[m] = NoWriter
    BY <1>6 DEF Absent
  <2>6. Routed(w)'
    BY <1>1, <1>2, <1>3, <1>6, <2>1 DEF Run, Routed, Inside, Ahead, Holder
  <2>7. Promoted(w)' /\ Hashed(w)' /\ Refusing(w)'
    BY <1>1, <1>3, <1>6, <2>1, <2>3, <2>4, <2>5, MemberFacts
       DEF Promoted, Hashed, Refusing, NoneAfter, Ahead
  <2>8. Run(w)'
    BY <2>6, <2>7 DEF Run
  <2>9. \A v \in Writer : pc[v] \in Over => pc'[v] \in Over
    BY <1>1, <2>1 DEF Over, Ended
  <2>10. Marked' /\ Reading'
    BY <1>1, <1>2, <1>3, <2>3, <2>9, ReadingKept DEF Marked
  <2> QED
    BY <1>1, <1>3, <1>6, <2>1, <2>2, <2>8, <2>10, HolderInductive
<1>7. CASE ~overwrite[w] /\ Unwind(w, "failed")
  <2>1. /\ pc' \in [Writer -> Busy \cup Ended] /\ staged' \in [Writer -> SUBSET Member]
        /\ lock' \in Writer \cup {NoWriter} /\ pc'[w] = "failed"
        /\ \A v \in Writer \ {w} : pc'[v] = pc[v] /\ staged'[v] = staged[v]
    BY <1>2, <1>7, Unwound DEF Ended
  <2>2. TypeOK' /\ marker' = marker
    BY <1>1, <1>2, <1>4, <1>7, <2>1 DEF TypeOK
  <2>3. Run(w)'
    BY <1>1, <2>1, FailedRun DEF Busy, Ahead
  <2>4. \A v \in Writer : pc[v] \in Over => pc'[v] \in Over
    BY <1>1, <2>1 DEF Over, Ended
  <2>5. Marked' /\ Reading'
    BY <1>1, <1>2, <2>2, <2>4, MarkedKept, ReadingKept
  <2> QED
    BY <1>1, <1>3, <2>1, <2>2, <2>3, <2>5, HolderInductive
<1> QED
  BY <1>6, <1>7 DEF Invalidate, Go

\* A promotion is given up: its members are undone, or stay where they replaced others.
LEMMA AbandonInductive ==
  ASSUME Inductive, NEW w \in Writer, NEW k \in 0..Len(Members), Abandon(w, k),
         pc[w] \in {"promote", "note", "unlink"},
         UNCHANGED <<protocol, overwrite, kills, reader, verdict, reads, files, marker,
                     reservation, sums>>,
         failures' \in 0..MaxFailures, torn \subseteq torn', torn' \subseteq Writer,
         Undoable(w) /\ w \notin torn' => staged[w] = Member /\ NoneAfter(w, k)
  PROVE  Inductive'
<1>1. TypeOK /\ Run(w) /\ pc[w] \in Busy /\ pc[w] \notin Over
  BY DEF Inductive, Busy, Over, Ended
<1>2. CASE Undoable(w)
  <2>1. pc' = [pc EXCEPT ![w] = "undo"] /\ at' = [at EXCEPT ![w] = k] /\ UNCHANGED <<staged, lock>>
    BY <1>2 DEF Abandon, Go
  <2>2. /\ pc' \in [Writer -> Busy \cup Ended] /\ pc'[w] = "undo"
        /\ at' \in [Writer -> 0..Len(Members)] /\ at'[w] = k
        /\ \A v \in Writer \ {w} : pc'[v] = pc[v] /\ at'[v] = at[v]
    BY <1>1, <2>1 DEF TypeOK, Busy
  <2>3. TypeOK'
    BY <1>1, <2>1, <2>2 DEF TypeOK
  <2>4. Routed(w)'
    BY <1>1, <1>2, <2>1, <2>2 DEF Run, Routed, Ahead, Inside, Holder, Undoable
  <2>5. Promoted(w)' /\ Hashed(w)'
    BY <1>1, <1>2, <2>2 DEF Run, Promoted, Hashed, Undoable
  <2>6. \A m \in Member : files[m] \in {w, NoWriter, Stranger}
    BY <1>1, <1>2 DEF Run, Promoted, Refusing, Undoable
  <2>7. Refusing(w)'
    BY <1>2, <2>1, <2>2, <2>6 DEF Refusing, NoneAfter, Ahead
  <2>8. Run(w)'
    BY <2>4, <2>5, <2>7 DEF Run
  <2> QED
    BY <1>1, <2>1, <2>2, <2>3, <2>8, QuietInductive DEF Holder
<1>3. CASE ~Undoable(w)
  <2>1. Unwind(w, "failed") /\ at' = at
    BY <1>3 DEF Abandon
  <2>2. pc[w] = "promote"
    BY <1>1, <1>3 DEF Run, Routed
  <2>3. /\ pc' \in [Writer -> Busy \cup Ended] /\ staged' \in [Writer -> SUBSET Member]
        /\ lock' \in Writer \cup {NoWriter} /\ pc'[w] = "failed"
        /\ \A v \in Writer \ {w} : pc'[v] = pc[v] /\ staged'[v] = staged[v]
        /\ \A v \in Writer \ {w} : lock = v => lock' = v
    BY <1>1, <2>1, Unwound DEF Ended
  <2>4. TypeOK'
    BY <1>1, <2>1, <2>3 DEF TypeOK
  <2>5. Run(w)'
    BY <1>1, <1>3, <2>2, <2>3, FailedRun
  <2> QED
    BY <1>1, <2>1, <2>3, <2>4, <2>5, QuietInductive DEF Holder
<1> QED
  BY <1>2, <1>3

\* Moving on to the next member.
LEMMA Advanced ==
  ASSUME TypeOK, NEW w \in Writer, NEW again \in Busy, NEW next \in Busy,
         at[w] \in Index, Advance(w, again, next)
  PROVE  /\ pc' \in [Writer -> Busy \cup Ended] /\ at' \in [Writer -> 0..Len(Members)]
         /\ at[w] = Len(Members) => at'[w] = 1 /\ pc'[w] = next
         /\ at[w] # Len(Members) => at'[w] = at[w] + 1 /\ pc'[w] = again
         /\ at'[w] \in Index
         /\ \A v \in Writer \ {w} : pc'[v] = pc[v] /\ at'[v] = at[v]
<1>1. /\ at' = [at EXCEPT ![w] = IF at[w] = Len(Members) THEN 1 ELSE @ + 1]
      /\ pc' = [pc EXCEPT ![w] = IF at[w] = Len(Members) THEN next ELSE again]
  BY DEF Advance, Go
<1>2. pc \in [Writer -> Busy \cup Ended] /\ at \in [Writer -> 0..Len(Members)]
  BY DEF TypeOK
<1>3. /\ at[w] = Len(Members) => at'[w] = 1 /\ pc'[w] = next
      /\ at[w] # Len(Members) => at'[w] = at[w] + 1 /\ pc'[w] = again
      /\ \A v \in Writer \ {w} : pc'[v] = pc[v] /\ at'[v] = at[v]
  BY <1>1, <1>2
<1>4. at'[w] \in Index
  BY <1>3, MemberFacts DEF Index
<1>5. at' \in [Writer -> 0..Len(Members)]
  BY <1>1, <1>2, <1>3, <1>4, MemberFacts DEF Index
<1>6. pc' \in [Writer -> Busy \cup Ended]
  BY <1>1, <1>2
<1> QED
  BY <1>3, <1>4, <1>5, <1>6

\* A member is promoted, or found there by a run that must not overwrite.
LEMMA PromoteInductive ==
  ASSUME Inductive, NEW w \in Writer, Promote(w)
  PROVE  Inductive'
<1> DEFINE m == Members[at[w]]
           last == at[w] = Len(Members)
<1>1. /\ TypeOK /\ Run(w) /\ Marked /\ Reading /\ pc[w] = "promote" /\ Holder(w)
      /\ protocol \in {"workflow", "backtest", "record"}
      /\ at[w] \in Index /\ m \in Member
  BY NoWriterFact, MemberFacts DEF Inductive, TypeOK, Run, Routed, Inside, Promote, Index, Busy
<1>2. UNCHANGED <<protocol, overwrite, kills, reader, verdict, reads, failures, torn, marker,
                  reservation, sums>>
  BY DEF Promote, world, reading, faults
<1>3. CASE ~overwrite[w] /\ files[m] # NoWriter
  <2>1. Abandon(w, at[w] - 1) /\ files' = files
    BY <1>3 DEF Promote, Current
  <2>2. failures' \in 0..MaxFailures /\ torn' = torn /\ torn \subseteq Writer
    BY <1>1, <1>2 DEF TypeOK
  <2>3. at[w] - 1 \in 0..Len(Members)
    BY <1>1, MemberFacts DEF Index
  <2>4. Undoable(w) => staged[w] = Member /\ NoneAfter(w, at[w] - 1)
    BY <1>1 DEF Run, Refusing, Undoable
  <2> QED
    BY <1>1, <1>2, <2>1, <2>2, <2>3, <2>4, AbandonInductive
<1>4. CASE ~(~overwrite[w] /\ files[m] # NoWriter)
  <2> DEFINE step == IF protocol = "backtest" THEN "publish" ELSE "hash"
  <2>1. /\ files' = [files EXCEPT ![m] = w] /\ lock' = lock
        /\ \/ /\ Undoable(w) /\ pc' = [pc EXCEPT ![w] = "note"] /\ UNCHANGED <<staged, at>>
           \/ /\ ~Undoable(w) /\ staged' = [staged EXCEPT ![w] = @ \ {m}]
              /\ Advance(w, "promote", step)
    BY <1>4 DEF Promote, Current, Go
  <2>2. /\ files \in [Member -> Owner] /\ staged \in [Writer -> SUBSET Member]
        /\ pc \in [Writer -> Busy \cup Ended] /\ at \in [Writer -> 0..Len(Members)]
    BY <1>1 DEF TypeOK
  <2>3. /\ files' \in [Member -> Owner]
        /\ files'[m] = w /\ \A k \in Member \ {m} : files'[k] = files[k]
    BY <1>1, <2>1, <2>2, NoWriterFact
  <2>4. /\ pc' \in [Writer -> Busy \cup Ended] /\ at' \in [Writer -> 0..Len(Members)]
        /\ at'[w] \in Index
        /\ staged' \in [Writer -> SUBSET Member]
        /\ Undoable(w) => pc'[w] = "note" /\ at'[w] = at[w] /\ staged'[w] = staged[w]
        /\ ~Undoable(w) /\ ~last => pc'[w] = "promote" /\ at'[w] = at[w] + 1
        /\ ~Undoable(w) /\ last => pc'[w] = step /\ at'[w] = 1
        /\ \A v \in Writer \ {w} :
             pc'[v] = pc[v] /\ at'[v] = at[v] /\ staged'[v] = staged[v]
    <3>1. CASE Undoable(w)
      BY <1>1, <2>1, <2>2, <3>1 DEF Busy
    <3>2. CASE ~Undoable(w)
      <4>1. "promote" \in Busy /\ step \in Busy
        BY DEF Busy
      <4>2. Advance(w, "promote", step)
        BY <2>1, <3>2
      <4>3. /\ staged' \in [Writer -> SUBSET Member]
            /\ \A v \in Writer \ {w} : staged'[v] = staged[v]
        BY <2>1, <2>2, <3>2
      <4> HIDE DEF step
      <4> QED
        BY <1>1, <3>2, <4>1, <4>2, <4>3, Advanced
    <3> QED
      BY <3>1, <3>2
  <2>5. TypeOK'
    BY <1>1, <1>2, <2>1, <2>3, <2>4 DEF TypeOK
  <2>6. protocol # "backtest" => \A i \in Index : i <= at[w] => files'[Members[i]] = w
    <3>1. protocol # "backtest" => \A i \in Index : i < at[w] => files[Members[i]] = w
      BY <1>1 DEF Run, Promoted
    <3>2. \A i \in Index : i <= at[w] => i < at[w] \/ i = at[w]
      BY <1>1 DEF Index
    <3>3. \A i \in Index : Members[i] \in Member
      BY MemberFacts
    <3> QED
      BY <2>3, <3>1, <3>2, <3>3
  <2>7. protocol # "backtest" /\ last => \A k \in Member : files'[k] = w
    <3>1. last => \A i \in Index : i <= at[w]
      BY <1>1 DEF Index
    <3> QED
      BY <2>6, <3>1, MemberFacts
  <2>8. Routed(w)'
    <3>1. pc'[w] \notin Ahead /\ pc'[w] # "stage" /\ pc'[w] # "reserve" /\ pc'[w] # "lock"
          /\ pc'[w] # "invalidate" /\ at'[w] # 0
      BY <2>4 DEF Ahead, Index
    <3>2. Undoable(w)' <=> Undoable(w)
      BY <1>2 DEF Undoable
    <3>3. pc'[w] \in {"note", "unlink", "undo"} => Undoable(w)
      BY <2>4
    <3>4. Holder(w)'
      BY <1>1, <1>2, <2>1 DEF Holder
    <3> QED
      BY <1>1, <1>2, <3>1, <3>2, <3>3, <3>4 DEF Run, Routed
  <2>9. Promoted(w)'
    <3>1. \A i \in Index : i < at[w] + 1 <=> i <= at[w]
      BY <1>1 DEF Index
    <3>2. protocol # "backtest" => marker' = NoMarker
      BY <1>1, <1>2 DEF Run, Promoted
    <3> QED
      BY <1>2, <2>4, <2>6, <2>7, <3>1, <3>2 DEF Promoted
  <2>10. Hashed(w)'
    <3>1. pc'[w] = "hash" => \A i \in Index : ~(i < at'[w])
      BY <2>4 DEF Index
    <3>2. protocol = "backtest" => \A k \in Member : sums[w][k] = w
      BY <1>1 DEF Run, Hashed
    <3>3. pc'[w] = "publish" => protocol = "backtest"
      BY <2>4
    <3> QED
      BY <1>2, <3>1, <3>2, <3>3 DEF Hashed
  <2>11. Refusing(w)'
    <3>1. pc'[w] \notin Ahead \cup {"failed", "undo"} /\ (Undoable(w) => pc'[w] = "note")
      BY <2>4 DEF Ahead
    <3>2. CASE Undoable(w)
      <4>1. /\ staged'[w] = Member /\ NoneAfter(w, at[w] - 1)
            /\ \A k \in Member : files[k] \in {w, NoWriter, Stranger}
        BY <1>1, <2>4, <3>2 DEF Run, Refusing, Undoable
      <4>2. \A i \in Index : i > at[w] => files'[Members[i]] # w
        <5>1. \A i \in Index : i > at[w] => i > at[w] - 1 /\ i # at[w]
          BY <1>1 DEF Index
        <5>2. \A i \in Index : i # at[w] => Members[i] # m /\ Members[i] \in Member
          BY <1>1, MemberFacts
        <5> QED
          BY <2>3, <4>1, <5>1, <5>2 DEF NoneAfter
      <4>3. NoneAfter(w, at[w])'
        BY <2>4, <3>2, <4>2 DEF NoneAfter
      <4>4. \A k \in Member : files'[k] \in {w, NoWriter, Stranger}
        BY <2>3, <4>1
      <4> QED
        BY <2>4, <3>1, <3>2, <4>1, <4>3, <4>4 DEF Refusing, Ahead
    <3>3. CASE ~Undoable(w)
      BY <1>2, <2>4, <3>1, <3>3 DEF Refusing, Undoable, Ahead
    <3> QED
      BY <3>2, <3>3
  <2>12. Run(w)'
    BY <2>8, <2>9, <2>10, <2>11 DEF Run
  <2>13. \A v \in Writer : pc[v] \in Over => pc'[v] \in Over /\ v # w
    BY <1>1, <2>4 DEF Over, Ended
  <2>14. Marked'
    <3>1. protocol # "backtest" => marker = NoMarker
      BY <1>1 DEF Run, Promoted
    <3> QED
      BY <1>1, <1>2, <2>13, <3>1 DEF Marked
  <2>15. Reading'
    <3>1. \A v \in Writer, k \in Member : pc[v] \in Over /\ files[k] # v => files'[k] # v
      BY <2>3, <2>13
    <3> QED
      BY <1>1, <1>2, <2>13, <3>1, ReadingKept
  <2>16. \A k \in Member : files'[k] \in {files[k], w}
    BY <2>3
  <2> QED
    BY <1>1, <1>2, <2>4, <2>5, <2>12, <2>14, <2>15, <2>16, HolderInductive
<1> QED
  BY <1>3, <1>4

\* A linked member is noted.
LEMMA NoteInductive ==
  ASSUME Inductive, NEW w \in Writer, Note(w)
  PROVE  Inductive'
<1>1. /\ TypeOK /\ Run(w) /\ pc[w] = "note" /\ Holder(w) /\ Undoable(w) /\ at[w] \in Index
  BY MemberFacts DEF Inductive, TypeOK, Run, Routed, Inside, Note, Index, Busy
<1>2. UNCHANGED <<protocol, overwrite, kills, reader, verdict, reads, failures, torn, files,
                  marker, reservation, staged, lock, sums>>
  BY DEF Note, world, reading, faults
<1>3. /\ pc' \in [Writer -> Busy \cup Ended] /\ at' \in [Writer -> 0..Len(Members)]
      /\ at[w] = Len(Members) => at'[w] = 1 /\ pc'[w] = "unlink"
      /\ at[w] # Len(Members) => at'[w] = at[w] + 1 /\ pc'[w] = "promote"
      /\ at'[w] \in Index
      /\ \A v \in Writer \ {w} : pc'[v] = pc[v] /\ at'[v] = at[v]
  <2>1. "promote" \in Busy /\ "unlink" \in Busy /\ Advance(w, "promote", "unlink")
    BY DEF Busy, Note
  <2> QED
    BY <1>1, <2>1, Advanced
<1>4. TypeOK'
  BY <1>1, <1>2, <1>3 DEF TypeOK
<1>5. Routed(w)'
  BY <1>1, <1>2, <1>3 DEF Run, Routed, Ahead, Inside, Holder, Undoable, Index
<1>6. Promoted(w)'
  <2>1. \A i \in Index : i < at[w] + 1 => i <= at[w]
    BY <1>1 DEF Index
  <2>2. at[w] = Len(Members) => \A i \in Index : i <= at[w]
    BY DEF Index
  <2>3. marker = NoMarker /\ \A i \in Index : i <= at[w] => files[Members[i]] = w
    BY <1>1 DEF Run, Promoted, Undoable
  <2>4. at[w] = Len(Members) => \A k \in Member : files[k] = w
    BY <2>2, <2>3, MemberFacts
  <2> QED
    BY <1>2, <1>3, <2>1, <2>3, <2>4 DEF Promoted
<1>7. Hashed(w)'
  BY <1>1, <1>2, <1>3 DEF Hashed, Undoable
<1>8. Refusing(w)'
  <2>1. staged[w] = Member /\ NoneAfter(w, at[w])
        /\ \A k \in Member : files[k] \in {w, NoWriter, Stranger}
    BY <1>1 DEF Run, Refusing, Undoable
  <2>2. at[w] # Len(Members) => NoneAfter(w, at[w] - 1)'
    <3>1. at[w] # Len(Members) => at'[w] - 1 = at[w]
      BY <1>1, <1>3 DEF Index
    <3> QED
      BY <1>2, <2>1, <3>1 DEF NoneAfter
  <2> QED
    BY <1>2, <1>3, <2>1, <2>2 DEF Refusing, Ahead
<1>9. Run(w)'
  BY <1>5, <1>6, <1>7, <1>8 DEF Run
<1> QED
  BY <1>1, <1>2, <1>3, <1>4, <1>9, QuietInductive DEF Holder, Over, Ended

\* A staging file goes, or stays where unlinking it fails.
LEMMA UnlinkInductive ==
  ASSUME Inductive, NEW w \in Writer, pc[w] = "unlink", Advance(w, "unlink", "hash"),
         staged' \in [Writer -> SUBSET Member], \A v \in Writer \ {w} : staged'[v] = staged[v],
         UNCHANGED <<protocol, overwrite, kills, reader, verdict, reads, torn, files,
                     marker, reservation, lock, sums>>,
         failures' \in 0..MaxFailures
  PROVE  Inductive'
<1>1. /\ TypeOK /\ Run(w) /\ Holder(w) /\ Undoable(w) /\ at[w] \in Index
  BY MemberFacts DEF Inductive, TypeOK, Run, Routed, Inside, Index, Busy
<1>2. /\ pc' \in [Writer -> Busy \cup Ended] /\ at' \in [Writer -> 0..Len(Members)]
      /\ at[w] = Len(Members) => at'[w] = 1 /\ pc'[w] = "hash"
      /\ at[w] # Len(Members) => at'[w] = at[w] + 1 /\ pc'[w] = "unlink"
      /\ at'[w] \in Index
      /\ \A v \in Writer \ {w} : pc'[v] = pc[v] /\ at'[v] = at[v]
  <2>1. "unlink" \in Busy /\ "hash" \in Busy
    BY DEF Busy
  <2> QED
    BY <1>1, <2>1, Advanced
<1>3. TypeOK'
  BY <1>1, <1>2 DEF TypeOK
<1>4. Routed(w)'
  BY <1>1, <1>2 DEF Run, Routed, Ahead, Inside, Holder, Undoable, Index
<1>5. Promoted(w)'
  BY <1>1, <1>2 DEF Run, Promoted, Undoable
<1>6. Hashed(w)'
  BY <1>1, <1>2 DEF Hashed, Undoable, Index
<1>7. Refusing(w)'
  BY <1>2 DEF Refusing, Ahead
<1>8. Run(w)'
  BY <1>4, <1>5, <1>6, <1>7 DEF Run
<1> QED
  BY <1>1, <1>2, <1>3, <1>8, QuietInductive DEF Holder, Over, Ended

\* A member is undone, or the undoing is over.
LEMMA UndoInductive ==
  ASSUME Inductive, NEW w \in Writer, Undo(w)
  PROVE  Inductive'
<1>1. /\ TypeOK /\ Run(w) /\ Marked /\ Reading /\ pc[w] = "undo" /\ Holder(w) /\ Undoable(w)
      /\ at[w] \in 0..Len(Members) /\ pc[w] \in Busy
  BY DEF Inductive, TypeOK, Run, Routed, Inside, Undo, Busy
<1>2. UNCHANGED <<protocol, overwrite, kills, reader, verdict, reads, failures, torn,
                  marker, reservation, sums>>
  BY DEF Undo, world, reading, faults
<1>3. CASE at[w] = 0
  <2>1. Unwind(w, "failed") /\ UNCHANGED <<files, at>>
    BY <1>3 DEF Undo
  <2>2. /\ pc' \in [Writer -> Busy \cup Ended] /\ staged' \in [Writer -> SUBSET Member]
        /\ lock' \in Writer \cup {NoWriter} /\ pc'[w] = "failed"
        /\ \A v \in Writer \ {w} : pc'[v] = pc[v] /\ staged'[v] = staged[v]
        /\ \A v \in Writer \ {w} : lock = v => lock' = v
    BY <1>1, <2>1, Unwound DEF Ended
  <2>3. TypeOK'
    BY <1>1, <1>2, <2>1, <2>2 DEF TypeOK
  <2>4. Run(w)'
    BY <1>1, <1>2, <1>3, <2>1, <2>2, FailedRun
  <2> QED
    BY <1>1, <1>2, <2>1, <2>2, <2>3, <2>4, QuietInductive DEF Holder, Over, Ended
<1>4. CASE at[w] # 0
  <2> DEFINE m == Members[at[w]]
  <2>1. /\ files' = [files EXCEPT ![m] = IF @ = w /\ m \in staged[w] THEN NoWriter ELSE @]
        /\ at' = [at EXCEPT ![w] = @ - 1] /\ UNCHANGED <<pc, staged, lock>>
    BY <1>4 DEF Undo, Current
  <2>2. at[w] \in Index /\ m \in Member /\ files \in [Member -> Owner]
        /\ at \in [Writer -> 0..Len(Members)]
    BY <1>1, <1>4, MemberFacts DEF Index, TypeOK
  <2>3. /\ files' \in [Member -> Owner]
        /\ \A k \in Member \ {m} : files'[k] = files[k]
        /\ files'[m] \in {files[m], NoWriter}
        /\ m \in staged[w] => files'[m] # w
    BY <2>1, <2>2, NoWriterFact
  <2>4. at'[w] = at[w] - 1 /\ at' \in [Writer -> 0..Len(Members)]
        /\ \A v \in Writer \ {w} : at'[v] = at[v]
    BY <2>1, <2>2, MemberFacts DEF Index
  <2>5. TypeOK'
    BY <1>1, <1>2, <2>1, <2>3, <2>4 DEF TypeOK
  <2>6. Routed(w)'
    BY <1>1, <1>2, <2>1 DEF Run, Routed, Ahead, Inside, Holder, Undoable
  <2>7. Promoted(w)' /\ Hashed(w)'
    BY <1>1, <1>2, <2>1 DEF Run, Promoted, Hashed, Undoable
  <2>8. \A k \in Member : files'[k] \in {w, NoWriter, Stranger}
    <3>1. \A k \in Member : files[k] \in {w, NoWriter, Stranger}
      BY <1>1 DEF Run, Refusing, Undoable
    <3> QED
      BY <2>3, <3>1
  <2>9. ASSUME w \notin torn
        PROVE  staged[w] = Member /\ \A i \in Index : i > at'[w] => files'[Members[i]] # w
    <3>1. staged[w] = Member /\ NoneAfter(w, at[w])
      BY <1>1, <2>9 DEF Run, Refusing, Undoable
    <3>2. ASSUME NEW i \in Index, i > at'[w] PROVE files'[Members[i]] # w
      <4>1. i > at[w] \/ i = at[w]
        BY <2>2, <2>4, <3>2 DEF Index
      <4>2. Members[i] \in Member
        BY MemberFacts
      <4> QED
        BY <2>2, <2>3, <3>1, <4>1, <4>2, NoWriterFact DEF NoneAfter
    <3> QED
      BY <3>1, <3>2
  <2>10. Refusing(w)'
    BY <1>1, <1>2, <2>1, <2>8, <2>9 DEF Refusing, NoneAfter, Ahead
  <2>11. Run(w)'
    BY <2>6, <2>7, <2>10 DEF Run
  <2>12. protocol = "workflow" /\ marker = NoMarker
    BY <1>1 DEF Run, Promoted, Undoable
  <2>13. Marked' /\ Reading'
    <3>1. \A v \in Writer : pc[v] \in Over => pc'[v] \in Over
      BY <2>1
    <3>2. Marked'
      BY <1>1, <1>2, <2>1, <2>12 DEF Marked
    <3> QED
      BY <1>1, <1>2, <2>12, <3>1, <3>2, ReadingKept
  <2> QED
    BY <1>1, <1>2, <2>1, <2>4, <2>5, <2>8, <2>11, <2>13, HolderInductive
<1> QED
  BY <1>3, <1>4

\* A stranger's file appears where there was none.
LEMMA AppearInductive ==
  ASSUME Inductive, Appear
  PROVE  Inductive'
<1>1. UNCHANGED <<protocol, overwrite, kills, reader, verdict, reads, failures, torn, marker,
                  reservation, staged, lock, pc, at, sums>>
  BY DEF Appear, world, reading, faults
<1>2. PICK m \in Member : files[m] = NoWriter /\ files' = [files EXCEPT ![m] = Stranger]
  BY DEF Appear
<1>3. TypeOK /\ Marked /\ Reading /\ files \in [Member -> Owner]
  BY DEF Inductive, TypeOK
<1>4. /\ files' \in [Member -> Owner] /\ files'[m] = Stranger
      /\ \A k \in Member \ {m} : files'[k] = files[k]
  BY <1>2, <1>3, NoWriterFact
<1>5. TypeOK'
  BY <1>1, <1>3, <1>4 DEF TypeOK
<1>6. ASSUME NEW v \in Writer PROVE Run(v)'
  <2>1. Run(v)
    BY DEF Inductive
  <2>2. Routed(v)'
    BY <1>1, <2>1 DEF Run, Routed, Undoable, Holder
  <2>3. \A k \in Member : files[k] = v <=> files'[k] = v
    BY <1>2, <1>4, NoWriterFact
  <2>4. Promoted(v)' /\ Hashed(v)'
    BY <1>1, <2>1, <2>3, MemberFacts DEF Run, Promoted, Hashed
  <2>5. Refusing(v)'
    <3>1. \A k \in Member : files[k] \in {v, NoWriter, Stranger}
                              => files'[k] \in {v, NoWriter, Stranger}
      BY <1>4
    <3>2. ~\A k \in Member : files[k] \in Writer
      BY <1>2, NoWriterFact
    <3>3. (pc[v] \in {"promote", "note", "undo"} =>
             (NoneAfter(v, at[v]) => NoneAfter(v, at[v])')
             /\ (NoneAfter(v, at[v] - 1) => NoneAfter(v, at[v] - 1)'))
      BY <1>1, <2>3, MemberFacts DEF NoneAfter
    <3> QED
      BY <1>1, <2>1, <2>3, <3>1, <3>2, <3>3 DEF Run, Refusing
  <2> QED
    BY <2>2, <2>4, <2>5 DEF Run
<1>7. Marked'
  <2>1. protocol # "backtest" => marker = NoMarker
    <3>1. ASSUME protocol # "backtest", marker # NoMarker PROVE FALSE
      <4>1. PICK w \in Writer : \A k \in Member : marker[k] = w
        BY <1>3, <3>1 DEF Marked
      <4>2. files[m] = w
        BY <1>3, <3>1, <4>1 DEF Marked
      <4> QED
        BY <1>2, <4>2, NoWriterFact
    <3> QED
      BY <3>1
  <2> QED
    BY <1>1, <1>3, <2>1 DEF Marked
<1>8. Reading'
  BY <1>1, <1>3, <1>4, NoWriterFact, ReadingKept
<1> QED
  BY <1>5, <1>6, <1>7, <1>8 DEF Inductive

\* A member is hashed.
LEMMA HashInductive ==
  ASSUME Inductive, NEW w \in Writer, Hash(w)
  PROVE  Inductive'
<1> DEFINE m == Members[at[w]]
           last == at[w] = Len(Members)
           sum == IF protocol = "backtest" THEN w ELSE files[m]
           step == IF ~last THEN "hash"
                   ELSE IF protocol = "backtest" THEN "promote" ELSE "publish"
<1>1. /\ TypeOK /\ Run(w) /\ pc[w] = "hash" /\ Holder(w)
      /\ protocol \in {"workflow", "backtest", "record"}
      /\ at[w] \in Index /\ m \in Member
  BY NoWriterFact, MemberFacts DEF Inductive, TypeOK, Run, Routed, Inside, Hash, Index, Busy
<1>2. UNCHANGED <<protocol, overwrite, kills, reader, verdict, reads, failures, torn, files, marker,
                  reservation, staged, lock>>
  BY DEF Hash, world, reading, faults
<1>3. /\ sums' = [sums EXCEPT ![w][m] = sum]
      /\ at' = [at EXCEPT ![w] = IF last THEN 1 ELSE @ + 1]
      /\ pc' = [pc EXCEPT ![w] = step]
  BY DEF Hash, Go, Current, Advance
<1>4. /\ pc \in [Writer -> Busy \cup Ended] /\ at \in [Writer -> 0..Len(Members)]
      /\ sums \in [Writer -> [Member -> Owner]]
      /\ step \in {"hash", "promote", "publish"}
  BY <1>1 DEF TypeOK, Index
<1>5. sum = w
  BY <1>1 DEF Run, Promoted
<1>6. /\ sums' \in [Writer -> [Member -> Owner]]
      /\ sums'[w][m] = w /\ \A k \in Member \ {m} : sums'[w][k] = sums[w][k]
      /\ \A v \in Writer \ {w} : sums'[v] = sums[v]
  BY <1>1, <1>3, <1>4, <1>5, NoWriterFact
<1>7. pc' \in [Writer -> Busy \cup Ended] /\ pc'[w] = step
      /\ \A v \in Writer \ {w} : pc'[v] = pc[v]
  BY <1>3, <1>4 DEF Busy
<1>8. /\ at' \in [Writer -> 0..Len(Members)] /\ at'[w] # 0
      /\ last => at'[w] = 1
      /\ ~last => at'[w] = at[w] + 1
      /\ \A v \in Writer \ {w} : at'[v] = at[v]
  BY <1>1, <1>3, <1>4, MemberFacts DEF Index
<1>9. TypeOK'
  BY <1>1, <1>2, <1>6, <1>7, <1>8 DEF TypeOK, Index
<1>10. \A i \in Index : i < at[w] + 1 => sums'[w][Members[i]] = w
  <2>1. \A i \in Index : i < at[w] => sums[w][Members[i]] = w
    BY <1>1 DEF Run, Hashed
  <2>2. \A i \in Index : i < at[w] + 1 => i < at[w] \/ i = at[w]
    BY <1>1 DEF Index
  <2>3. \A i \in Index : Members[i] \in Member
    BY MemberFacts
  <2> QED
    BY <1>6, <2>1, <2>2, <2>3
<1>11. last => \A k \in Member : sums'[w][k] = w
  <2>1. last => \A i \in Index : i < at[w] + 1
    BY <1>1 DEF Index
  <2> QED
    BY <1>10, <2>1, MemberFacts
<1>12. Routed(w)'
  BY <1>1, <1>2, <1>7, <1>8 DEF Run, Routed, Ahead, Inside, Holder, Undoable
<1>13. Promoted(w)'
  BY <1>1, <1>2, <1>7 DEF Run, Promoted
<1>14. Hashed(w)'
  <2>1. pc'[w] = "hash" => ~last
    BY <1>7
  <2>2. pc'[w] # "hash" => last
    BY <1>7
  <2> QED
    BY <1>8, <1>10, <1>11, <2>1, <2>2 DEF Hashed
<1>15. Refusing(w)'
  <2>1. protocol = "workflow" => pc'[w] \notin Ahead \cup {"promote", "note", "undo", "failed"}
    BY <1>1, <1>7 DEF Ahead
  <2> QED
    BY <1>2, <2>1 DEF Refusing, Ahead
<1>16. Run(w)'
  BY <1>12, <1>13, <1>14, <1>15 DEF Run
<1> QED
  BY <1>1, <1>2, <1>6, <1>7, <1>8, <1>9, <1>16, QuietInductive DEF Holder, Over, Ended

\* The marker is published, or refused where one is there.
LEMMA PublishInductive ==
  ASSUME Inductive, NEW w \in Writer, Publish(w)
  PROVE  Inductive'
<1>1. /\ TypeOK /\ Run(w) /\ Marked /\ Reading /\ pc[w] = "publish" /\ Holder(w)
      /\ protocol \in {"workflow", "backtest", "record"}
      /\ files \in [Member -> Owner] /\ pc \in [Writer -> Busy \cup Ended]
      /\ sums[w] \in [Member -> Owner]
  BY NoWriterFact DEF Inductive, TypeOK, Run, Routed, Inside, Publish
<1>2. UNCHANGED <<protocol, overwrite, kills, reader, verdict, reads, failures, torn, files,
                  reservation, at, sums>>
  BY DEF Publish, world, reading, faults
<1>3. marker' = sums[w] /\ pc' = [pc EXCEPT ![w] = "tidy"] /\ UNCHANGED <<staged, lock>>
  BY <1>1 DEF Publish, Run, Promoted, Go
<1>4. /\ pc' \in [Writer -> Busy \cup Ended] /\ pc'[w] = "tidy"
      /\ \A v \in Writer \ {w} : pc'[v] = pc[v]
  BY <1>1, <1>3 DEF Busy
<1>5. TypeOK'
  BY <1>1, <1>2, <1>3, <1>4 DEF TypeOK
<1>6. Run(w)'
  <2>1. Routed(w)'
    BY <1>1, <1>2, <1>3, <1>4 DEF Run, Routed, Ahead, Inside, Busy, Holder
  <2>2. Promoted(w)'
    BY <1>1, <1>2, <1>4 DEF Run, Promoted
  <2> QED
    BY <1>4, <2>1, <2>2 DEF Run, Hashed, Refusing, Ahead
<1>7. \A k \in Member : sums[w][k] = w
  BY <1>1 DEF Run, Hashed
<1>8. protocol # "backtest" => files = sums[w]
  <2>1. protocol # "backtest" => \A k \in Member : files[k] = sums[w][k]
    BY <1>1, <1>7 DEF Run, Promoted
  <2> QED
    BY <1>1, <2>1
<1>9. Marked'
  <2>1. protocol = "record" => reservation = w
    BY <1>1 DEF Holder
  <2> QED
    BY <1>2, <1>3, <1>4, <1>7, <1>8, <2>1, NoWriterFact DEF Marked, Over
<1>10. \A v \in Writer : pc[v] \in Over => pc'[v] \in Over
  BY <1>1, <1>4 DEF Over, Ended
<1>11. Reading'
  BY <1>1, <1>2, <1>10, ReadingKept
<1>12. \A k \in Member : files'[k] \in {files[k], w}
  BY <1>2
<1> QED
  BY <1>1, <1>2, <1>3, <1>4, <1>5, <1>6, <1>9, <1>11, <1>12, HolderInductive

\* A run that ends without touching a file.
LEMMA EndInductive ==
  ASSUME Inductive, NEW w \in Writer, NEW x \in Ended, Unwind(w, x), pc[w] \in Busy,
         x = "failed" => Run(w)', x = "done" => pc[w] = "tidy", x # "killed",
         failures' \in 0..MaxFailures, torn \subseteq torn', torn' \subseteq Writer,
         UNCHANGED <<protocol, overwrite, kills, reader, verdict, reads, files, marker,
                     reservation, at, sums>>
  PROVE  Inductive'
<1>1. /\ pc' \in [Writer -> Busy \cup Ended] /\ staged' \in [Writer -> SUBSET Member]
      /\ lock' \in Writer \cup {NoWriter} /\ pc'[w] = x
      /\ \A v \in Writer \ {w} : pc'[v] = pc[v] /\ staged'[v] = staged[v]
      /\ \A v \in Writer \ {w} : lock = v => lock' = v
  BY Unwound DEF Inductive
<1>2. TypeOK'
  BY <1>1 DEF Inductive, TypeOK
<1>3. Run(w)'
  <2>1. CASE x = "failed"
    BY <2>1
  <2>2. CASE x = "done"
    <3>1. Routed(w)'
      BY <1>1, <2>2 DEF Inductive, Run, Routed, Ahead, Inside, Busy
    <3>2. Promoted(w)' /\ Hashed(w)' /\ Refusing(w)'
      BY <1>1, <2>2 DEF Promoted, Hashed, Refusing, Ahead
    <3> QED
      BY <3>1, <3>2 DEF Run
  <2> QED
    BY <2>1, <2>2 DEF Ended
<1> QED
  BY <1>1, <1>2, <1>3, QuietInductive DEF Holder, Over

\* Temporary names go.
LEMMA TidyInductive ==
  ASSUME Inductive, NEW w \in Writer, Tidy(w)
  PROVE  Inductive'
<1>1. /\ pc[w] = "tidy" /\ pc[w] \in Busy /\ Unwind(w, "done") /\ "done" \in Ended
      /\ UNCHANGED <<protocol, overwrite, kills, reader, verdict, reads, failures, torn, files,
                     marker, reservation, at, sums>>
  BY DEF Tidy, world, reading, faults, Busy, Ended
<1>2. failures' \in 0..MaxFailures /\ torn' \subseteq Writer
  BY <1>1 DEF Inductive, TypeOK
<1> QED
  BY <1>1, <1>2, EndInductive

\* A call of a run fails.
LEMMA FailInductive ==
  ASSUME Inductive, NEW w \in Writer, Fail(w)
  PROVE  Inductive'
<1>1. /\ TypeOK /\ Run(w) /\ failures' \in 0..MaxFailures
      /\ torn \subseteq Writer
      /\ UNCHANGED <<protocol, overwrite, kills, reader, verdict, reads, files, marker,
                     reservation, sums>>
  <2>1. failures \in 0..MaxFailures /\ failures < MaxFailures /\ failures' = failures + 1
    BY DEF Inductive, TypeOK, Fail, Fault
  <2>2. failures' \in 0..MaxFailures
    BY <2>1, NoWriterFact
  <2> QED
    BY <2>2 DEF Inductive, TypeOK, Fail, world, reading
<1>2. CASE /\ pc[w] \in {"reserve", "stage", "lock", "invalidate", "hash", "publish", "tidy"}
           /\ Unwind(w, "failed") /\ UNCHANGED <<at, torn>>
  <2>1. pc[w] \in Busy /\ "failed" \in Ended
    BY <1>2 DEF Busy, Ahead, Ended
  <2>2. pc'[w] = "failed"
    BY <1>1, <1>2, <2>1, Unwound
  <2>3. Run(w)'
    BY <1>1, <1>2, <2>1, <2>2, FailedRun
  <2> QED
    BY <1>1, <1>2, <2>1, <2>3, EndInductive
<1>3. CASE pc[w] = "promote" /\ Abandon(w, at[w] - 1) /\ torn' = torn
  <2>1. at[w] - 1 \in 0..Len(Members)
    BY <1>1, <1>3, MemberFacts DEF TypeOK, Run, Routed, Busy
  <2>2. Undoable(w) => staged[w] = Member /\ NoneAfter(w, at[w] - 1)
    BY <1>1, <1>3 DEF Run, Refusing, Undoable
  <2> QED
    BY <1>1, <1>3, <2>1, <2>2, AbandonInductive
<1>4. CASE pc[w] = "unlink" /\ Advance(w, "unlink", "hash") /\ UNCHANGED <<staged, lock, torn>>
  BY <1>1, <1>4, UnlinkInductive DEF TypeOK
<1>5. CASE /\ pc[w] = "undo" /\ at[w] > 0
           /\ at' = [at EXCEPT ![w] = @ - 1] /\ torn' = torn \cup {w}
           /\ UNCHANGED <<pc, staged, lock>>
  <2>1. at \in [Writer -> 0..Len(Members)]
    BY <1>1 DEF TypeOK
  <2>2. /\ at' \in [Writer -> 0..Len(Members)] /\ w \in torn'
        /\ \A v \in Writer \ {w} : at'[v] = at[v]
    BY <1>5, <2>1, MemberFacts
  <2>3. TypeOK'
    BY <1>1, <1>5, <2>2 DEF TypeOK
  <2>4. Routed(w)'
    BY <1>1, <1>5 DEF Run, Routed, Ahead, Inside, Holder, Undoable
  <2>5. Promoted(w)' /\ Hashed(w)' /\ Refusing(w)'
    BY <1>1, <1>5, <2>2 DEF Run, Promoted, Hashed, Refusing, Ahead
  <2>6. Run(w)'
    BY <2>4, <2>5 DEF Run
  <2> QED
    BY <1>1, <1>5, <2>2, <2>3, <2>6, QuietInductive DEF Holder
<1> QED
  BY <1>2, <1>3, <1>4, <1>5 DEF Fail

\* A run is interrupted.
LEMMA InterruptInductive ==
  ASSUME Inductive, NEW w \in Writer, Interrupt(w)
  PROVE  Inductive'
<1>1. /\ TypeOK /\ Run(w) /\ failures' \in 0..MaxFailures /\ pc[w] \in Busy
      /\ torn \subseteq torn' /\ torn' \subseteq Writer
      /\ pc[w] = "note" \/ (pc[w] = "undo" /\ at[w] > 0) \/ (pc[w] = "unlink" /\ staged[w] # Member)
           => w \in torn'
      /\ UNCHANGED <<protocol, overwrite, kills, reader, verdict, reads, files, marker,
                     reservation, sums>>
  <2>1. failures \in 0..MaxFailures /\ failures < MaxFailures /\ failures' = failures + 1
    BY DEF Inductive, TypeOK, Interrupt, Fault
  <2>2. failures' \in 0..MaxFailures
    BY <2>1, NoWriterFact
  <2>3. TypeOK /\ Run(w) /\ pc[w] \in Busy \cup Ended /\ torn \subseteq Writer
    BY DEF Inductive, TypeOK
  <2>4. pc[w] \in Busy
    BY <2>3 DEF Interrupt
  <2> QED
    BY <2>2, <2>3, <2>4 DEF Interrupt, world, reading
<1>2. CASE pc[w] \in {"promote", "note"}
  <2>1. Abandon(w, at[w] - 1)
    BY <1>2 DEF Interrupt
  <2>2. at[w] - 1 \in 0..Len(Members)
    BY <1>1, <1>2, MemberFacts DEF TypeOK, Run, Routed, Busy
  <2>3. Undoable(w) /\ w \notin torn' => staged[w] = Member /\ NoneAfter(w, at[w] - 1)
    BY <1>1, <1>2 DEF Run, Refusing, Undoable
  <2> QED
    BY <1>1, <1>2, <2>1, <2>2, <2>3, AbandonInductive
<1>3. CASE pc[w] = "unlink"
  <2>1. Abandon(w, Len(Members))
    BY <1>3 DEF Interrupt
  <2>2. Len(Members) \in 0..Len(Members) /\ NoneAfter(w, Len(Members))
    BY MemberFacts DEF NoneAfter, Index
  <2>3. Undoable(w) /\ w \notin torn' => staged[w] = Member /\ NoneAfter(w, Len(Members))
    BY <1>1, <1>3, <2>2
  <2> QED
    BY <1>1, <1>3, <2>1, <2>2, <2>3, AbandonInductive
<1>4. CASE pc[w] \notin {"promote", "note", "unlink"}
  <2>1. Unwind(w, "failed") /\ at' = at /\ "failed" \in Ended
    BY <1>4 DEF Interrupt, Ended
  <2>2. pc'[w] = "failed"
    BY <1>1, <2>1, Unwound
  <2>3. pc[w] = "undo" => w \in torn' \/ (w \notin torn /\ at[w] = 0)
    <3>1. at[w] \in 0..Len(Members)
      BY <1>1 DEF TypeOK
    <3> QED
      BY <1>1, <3>1, MemberFacts
  <2>4. Run(w)'
    BY <1>1, <1>4, <2>2, <2>3, FailedRun
  <2> QED
    BY <1>1, <2>1, <2>4, EndInductive
<1> QED
  BY <1>2, <1>3, <1>4

\* A run is killed.
LEMMA KillInductive ==
  ASSUME Inductive, NEW w \in Writer, Kill(w)
  PROVE  Inductive'
<1>1. /\ TypeOK /\ Run(w) /\ pc[w] \in Busy /\ kills' \in 0..MaxKills
      /\ pc \in [Writer -> Busy \cup Ended]
      /\ pc' = [pc EXCEPT ![w] = "killed"]
      /\ lock' = IF lock = w THEN NoWriter ELSE lock
      /\ UNCHANGED <<protocol, overwrite, files, reader, verdict, reads, failures, torn, marker,
                     reservation, staged, at, sums>>
  <2>1. kills \in 0..MaxKills /\ kills < MaxKills /\ kills' = kills + 1
    BY DEF Inductive, TypeOK, Kill
  <2>2. kills' \in 0..MaxKills
    BY <2>1, NoWriterFact
  <2> QED
    BY <2>2 DEF Inductive, TypeOK, Kill, Go, Released, reading, faults
<1>2. pc' \in [Writer -> Busy \cup Ended] /\ pc'[w] = "killed"
      /\ \A v \in Writer \ {w} : pc'[v] = pc[v]
  BY <1>1 DEF Ended
<1>3. TypeOK'
  BY <1>1, <1>2 DEF TypeOK
<1>4. Run(w)'
  <2>1. Routed(w)'
    BY <1>1, <1>2 DEF Run, Routed, Ahead, Inside, Busy
  <2> QED
    BY <1>2, <2>1 DEF Run, Promoted, Hashed, Refusing, Ahead
<1>5. pc[w] # "done"
  BY <1>1 DEF Busy, Ahead
<1> QED
  BY <1>1, <1>2, <1>3, <1>4, <1>5, QuietInductive DEF Holder, Over, Ended

\* A reader moves on: nothing of the runs changes.
LEMMA ReaderInductive ==
  ASSUME Inductive, TypeOK', Reading',
         UNCHANGED <<protocol, overwrite, files, marker, reservation, staged, lock, pc, at,
                     sums, torn>>
  PROVE  Inductive'
<1>1. ASSUME NEW w \in Writer PROVE Run(w)'
  BY BesideQuiet DEF Inductive, Holder
<1>2. Marked'
  BY DEF Inductive, Marked
<1> QED
  BY <1>1, <1>2 DEF Inductive

\* A reader reads the marker.
LEMMA OpenInductive ==
  ASSUME Inductive, OpenMarker
  PROVE  Inductive'
<1>1. /\ TypeOK /\ Marked /\ reader = Idle /\ verdict # "mixed"
      /\ protocol \in {"workflow", "backtest", "record"}
      /\ files \in [Member -> Owner]
      /\ marker \in [Member -> Owner]
      /\ UNCHANGED <<protocol, overwrite, kills, failures, torn, files, marker, reservation, staged,
                     lock, pc, at, sums>>
  BY NoWriterFact DEF Inductive, TypeOK, Reading, OpenMarker, world, faults
<1>2. reads' \in 0..MaxReads
  <2>1. reads \in 0..MaxReads /\ reads < MaxReads /\ reads' = reads + 1
    BY DEF Inductive, TypeOK, OpenMarker
  <2> QED
    BY <2>1, NoWriterFact
<1>3. CASE marker = NoMarker /\ verdict' = "rejected" /\ reader' = reader
  <2>1. TypeOK'
    BY <1>1, <1>2, <1>3 DEF TypeOK
  <2>2. Reading'
    BY <1>1, <1>3 DEF Reading, Idle
  <2> QED
    BY <1>1, <2>1, <2>2, ReaderInductive
<1>4. CASE /\ marker # NoMarker /\ verdict' = "none"
           /\ reader' = [named |-> marker, checked |-> 0, whole |-> files = marker]
  <2>1. /\ reader'.named = marker /\ reader'.checked = 0 /\ reader'.whole = (files = marker)
        /\ reader' \in [named : [Member -> Owner],
                        checked : 0..(Len(Members) - 1), whole : BOOLEAN]
    BY <1>1, <1>4, MemberFacts
  <2>2. TypeOK'
    BY <1>1, <1>2, <1>4, <2>1 DEF TypeOK
  <2>3. Reading'
    <3>1. PICK v \in Writer : (\A m \in Member : marker[m] = v) /\ pc[v] \in Over
      BY <1>1, <1>4 DEF Marked
    <3>2. ASSUME files # marker
          PROVE  protocol = "backtest" /\ \E i \in Index : i > 0 /\ files[Members[i]] # v
      <4>1. protocol = "backtest"
        BY <1>1, <1>4, <3>2 DEF Marked
      <4>2. PICK m \in Member : files[m] # marker[m]
        BY <1>1, <3>2
      <4>3. PICK i \in Index : Members[i] = m
        BY MemberFacts
      <4> QED
        BY <3>1, <4>1, <4>2, <4>3 DEF Index
    <3> QED
      BY <1>1, <1>4, <2>1, <3>1, <3>2 DEF Reading
  <2> QED
    BY <1>1, <2>2, <2>3, ReaderInductive
<1> QED
  BY <1>3, <1>4 DEF OpenMarker

\* A reader checks a member.
LEMMA VerifyInductive ==
  ASSUME Inductive, VerifyMember
  PROVE  Inductive'
<1> DEFINE i == reader.checked + 1
           m == Members[i]
<1>1. /\ TypeOK /\ reader # Idle /\ verdict # "mixed"
      /\ UNCHANGED <<protocol, overwrite, kills, failures, torn, files, marker, reservation, staged,
                     lock, pc, at, sums, reads>>
  BY DEF Inductive, Reading, VerifyMember, world, faults
<1>2. /\ reader \in [named : [Member -> Owner],
                     checked : 0..(Len(Members) - 1), whole : BOOLEAN]
      /\ i \in Index /\ m \in Member
  BY <1>1, MemberFacts DEF TypeOK, Index
<1>3. /\ Idle.named \in [Member -> Owner]
      /\ Idle \in [named : [Member -> Owner],
                   checked : 0..(Len(Members) - 1), whole : BOOLEAN]
  BY MemberFacts, NoWriterFact DEF Idle, NoMarker
<1>4. ASSUME ~reader.whole
      PROVE  \E v \in Writer :
               /\ \A k \in Member : reader.named[k] = v
               /\ protocol = "backtest" /\ pc[v] \in Over
               /\ \E j \in Index : j > reader.checked /\ files[Members[j]] # v
  BY <1>1, <1>4 DEF Inductive, Reading
<1>5. CASE files[m] # reader.named[m]
  <2>1. reader' = Idle /\ verdict' = "rejected"
    BY <1>5 DEF VerifyMember
  <2>2. TypeOK'
    BY <1>1, <1>3, <2>1 DEF TypeOK
  <2>3. Reading'
    BY <2>1 DEF Reading, Idle, NoMarker
  <2> QED
    BY <1>1, <2>2, <2>3, ReaderInductive
<1>6. CASE files[m] = reader.named[m] /\ i = Len(Members)
  <2>1. reader' = Idle /\ verdict' = IF reader.whole THEN "verified" ELSE "mixed"
    BY <1>6 DEF VerifyMember
  <2>2. reader.whole
    <3>1. ASSUME ~reader.whole PROVE FALSE
      <4>1. PICK v \in Writer :
               /\ \A k \in Member : reader.named[k] = v
               /\ \E j \in Index : j > reader.checked /\ files[Members[j]] # v
        BY <1>4, <3>1
      <4>2. PICK j \in Index : j > reader.checked /\ files[Members[j]] # v
        BY <4>1
      <4>3. j = i
        BY <1>2, <1>6, <4>2, MemberFacts DEF Index
      <4> QED
        BY <1>2, <1>6, <4>1, <4>2, <4>3
    <3> QED
      BY <3>1
  <2>3. TypeOK'
    BY <1>1, <1>3, <2>1, <2>2 DEF TypeOK
  <2>4. Reading'
    BY <2>1, <2>2 DEF Reading, Idle, NoMarker
  <2> QED
    BY <1>1, <2>3, <2>4, ReaderInductive
<1>7. CASE files[m] = reader.named[m] /\ i # Len(Members)
  <2>1. reader' = [reader EXCEPT !.checked = @ + 1] /\ verdict' = verdict
    BY <1>7 DEF VerifyMember
  <2>2. /\ reader'.named = reader.named /\ reader'.checked = i /\ reader'.whole = reader.whole
        /\ reader' \in [named : [Member -> Owner],
                        checked : 0..(Len(Members) - 1), whole : BOOLEAN]
    BY <1>2, <1>7, <2>1, MemberFacts DEF Index
  <2>3. TypeOK'
    BY <1>1, <2>1, <2>2 DEF TypeOK
  <2>4. Reading'
    <3>1. ASSUME ~reader.whole
          PROVE  \E v \in Writer :
               /\ \A k \in Member : reader.named[k] = v
               /\ protocol = "backtest" /\ pc[v] \in Over
               /\ \E j \in Index : j > i /\ files[Members[j]] # v
      <4>1. PICK v \in Writer :
               /\ \A k \in Member : reader.named[k] = v
               /\ protocol = "backtest" /\ pc[v] \in Over
               /\ \E j \in Index : j > reader.checked /\ files[Members[j]] # v
        BY <1>4, <3>1
      <4>2. PICK j \in Index : j > reader.checked /\ files[Members[j]] # v
        BY <4>1
      <4>3. j # i
        BY <1>2, <1>7, <4>1, <4>2
      <4>4. j > i
        BY <1>2, <4>2, <4>3 DEF Index
      <4> QED
        BY <4>1, <4>2, <4>4
    <3> QED
      BY <1>1, <2>1, <2>2, <3>1 DEF Reading
  <2> QED
    BY <1>1, <2>3, <2>4, ReaderInductive
<1> QED
  BY <1>5, <1>6, <1>7

\* Every step of every run and of a reader keeps the invariant.
LEMMA NextInductive == Inductive /\ [Next]_vars => Inductive'
<1> SUFFICES ASSUME Inductive, [Next]_vars PROVE Inductive'
  OBVIOUS
<1>1. ASSUME NEW w \in Writer, Step(w), ~UnlinkStaged(w) PROVE Inductive'
  BY <1>1, CheckInductive, ReserveInductive, StageInductive, LockInductive, InvalidateInductive,
     PromoteInductive, NoteInductive, UndoInductive, HashInductive, PublishInductive,
     TidyInductive DEF Step
<1>2. ASSUME NEW w \in Writer, UnlinkStaged(w) PROVE Inductive'
  <2>1. /\ pc[w] = "unlink" /\ Advance(w, "unlink", "hash")
        /\ staged' = [staged EXCEPT ![w] = @ \ {Current(w)}]
        /\ UNCHANGED <<protocol, overwrite, kills, reader, verdict, reads, failures, torn,
                       files, marker, reservation, lock, sums>>
    BY <1>2 DEF UnlinkStaged, world, reading, faults
  <2>2. staged \in [Writer -> SUBSET Member] /\ failures' \in 0..MaxFailures
    BY <2>1 DEF Inductive, TypeOK
  <2>3. /\ staged' \in [Writer -> SUBSET Member]
        /\ \A v \in Writer \ {w} : staged'[v] = staged[v]
    BY <2>1, <2>2
  <2> QED
    BY <2>1, <2>2, <2>3, UnlinkInductive
<1>3. ASSUME UNCHANGED vars PROVE Inductive'
  <2>1. UNCHANGED <<protocol, overwrite, files, marker, reservation, staged, lock, pc, at, sums>>
    BY <1>3 DEF vars
  <2>2. TypeOK' /\ Reading' /\ torn' = torn
    BY <1>3 DEF vars, Inductive, TypeOK, Reading
  <2> QED
    BY <2>1, <2>2, ReaderInductive
<1> QED
  BY <1>1, <1>2, <1>3, FailInductive, InterruptInductive, KillInductive, AppearInductive,
     OpenInductive, VerifyInductive DEF Next

-----------------------------------------------------------------------------
(* The theorems *)

\* In every run of the three protocols each variable keeps its type and the
\* inductive invariant holds: the steps of the writers and of a reader, their
\* failures and kills (hft_workflow.py, backtest.py, cli.py).
THEOREM BundleInvariant == Spec => []Inductive
<1>1. Init => Inductive
  BY InitInductive
<1>2. Inductive /\ [Next]_vars => Inductive'
  BY NextInductive
<1> QED
  BY <1>1, <1>2, PTL DEF Spec

\* A completion marker names the files of one whole run and, outside the
\* backtest's protocol, is true of the files there at every moment, whoever
\* fails or is killed (invalidate_artifact_completion, write_artifact_completion).
THEOREM MarkersAreTrue == Spec => []MarkerIsTrue
<1>1. Inductive => MarkerIsTrue
  <2> SUFFICES ASSUME Inductive, marker # NoMarker PROVE MarkerIsTrue
    BY DEF MarkerIsTrue
  <2>1. PICK w \in Writer : \A m \in Member : marker[m] = w
    BY DEF Inductive, Marked
  <2>2. marker = WrittenBy(w)
    BY <2>1 DEF Inductive, TypeOK, WrittenBy
  <2> QED
    BY <2>2 DEF MarkerIsTrue, Inductive, Marked
<1> QED
  BY <1>1, BundleInvariant, PTL

\* What verify_artifact_completion and verify_backtest_artifacts accept was a
\* whole bundle when they began, though they read it member by member without
\* the lock while other runs replace it.
THEOREM AcceptedBundlesWereWhole == Spec => []VerifiedWasWhole
<1>1. Inductive => VerifiedWasWhole
  BY DEF Inductive, Reading, VerifiedWasWhole
<1> QED
  BY <1>1, BundleInvariant, PTL

\* A run of promote_staged_artifacts without --overwrite that fails leaves all of
\* its members under the final names or none, whichever call fails, whoever puts a
\* file there and wherever it is interrupted, but for three cases: an interrupt
\* between a link and its note, an interrupt once a staging file has gone, and an
\* undoing that fails or is interrupted itself.
THEOREM AllOrNothing == Spec => []NoPartialBundle
<1>1. Inductive => NoPartialBundle
  BY DEF Inductive, Run, Refusing, NoPartialBundle
<1> QED
  BY <1>1, BundleInvariant, PTL

=============================================================================
