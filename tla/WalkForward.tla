---------------------------- MODULE WalkForward ----------------------------
(***************************************************************************)
(* Which rows a prediction is made from: segments and labels of the        *)
(* feature data set (features.py) and the purged rolling walk-forward of   *)
(* both signal modes (strategy.py).                                        *)
(*                                                                         *)
(* A frame is the sequence of the slots its candles open at, one apart     *)
(* where nothing is missing.  Features and labels are abstracted to the    *)
(* rows they need; a model is the set of rows it was fitted on.  What it   *)
(* forecasts is left to the module that executes the signals.              *)
(***************************************************************************)
EXTENDS Integers, Sequences, FiniteSets, FiniteSetsExt

CONSTANTS
  Horizon,            \* model.horizon_bars
  Warmup,             \* rows of a segment the longest rolling feature needs
  RetrainEvery,       \* model.retrain_every
  TrainWindow,        \* model.train_window
  MinTrain,           \* model.min_train_samples
  CalibrationWindow,  \* model.calibration_window
  MinCalibration      \* model.calibration_min_samples

ASSUME WalkForwardAssumption ==
  {Horizon, Warmup, RetrainEvery, TrainWindow, MinTrain, CalibrationWindow,
   MinCalibration} \subseteq Nat \ {0}

NoFit == [at |-> 0, base |-> {}, calibration |-> {}]

\* Rows i to j belong to one segment: no candle between them is missing.
SameSegment(frame, i, j) == frame[j] - frame[i] = j - i

\* Every rolling feature of row k has its window within one segment.  A window
\* without volume or movement, which also leaves none, is not modelled.
ValidFeatures(frame, k) ==
  k >= Warmup /\ SameSegment(frame, k - Warmup + 1, k)

\* The forward return of row k: in at the open of the next row, out at the
\* open Horizon rows later, all in the segment of k.
LabelRow(k) == k + Horizon + 1

HasLabel(frame, k) ==
  LabelRow(k) <= Len(frame) /\ SameSegment(frame, k, LabelRow(k))

LabelEnd(frame, k) == frame[LabelRow(k)]

Largest(S, n) ==
  {x \in S : Cardinality({y \in S : y > x}) < n}

\* Faulty variant: neither the purge of the last rows nor the settled labels.
AllLabelled(frame, i) ==
  {k \in 1..i : ValidFeatures(frame, k) /\ HasLabel(frame, k)}

\* Rows with features and a label that has settled when row i opens; the rows
\* the horizon still covers are purged by number first.
Candidates(frame, i) ==
  {k \in 1..(i - Horizon - 1) :
     ValidFeatures(frame, k) /\ HasLabel(frame, k)
     /\ LabelEnd(frame, k) <= frame[i]}

\* Faulty variant: no purge between the base and the calibration rows.
UnpurgedBase(frame, rows) == rows \ Largest(rows, CalibrationWindow)

\* What is left for the base model: rows before the calibration rows whose
\* labels end before the first of those could be traded.
PurgedBase(frame, rows) ==
  LET calibration == Largest(rows, CalibrationWindow)
  IN {k \in rows \ calibration : LabelEnd(frame, k) <= frame[Min(calibration)] + 1}

\* _probability_walk_forward: one set of training rows.
ProbabilityFit(frame, i) ==
  LET rows == Candidates(frame, i)
  IN IF Cardinality(rows) < MinTrain THEN NoFit
     ELSE [at |-> i, base |-> Largest(rows, TrainWindow), calibration |-> {}]

\* _expected_return_walk_forward: a base model, then its calibration.
ExpectedReturnFit(frame, i) ==
  LET rows == Largest(Candidates(frame, i), TrainWindow)
      calibration == Largest(rows, CalibrationWindow)
      base == PurgedBase(frame, rows)
  IN IF \/ Cardinality(rows) < MinTrain + MinCalibration
        \/ Cardinality(base) < MinTrain
        \/ Cardinality(calibration) < MinCalibration
     THEN NoFit
     ELSE [at |-> i, base |-> base, calibration |-> calibration]

Fit(frame, mode, i) ==
  IF mode = "probability" THEN ProbabilityFit(frame, i)
  ELSE ExpectedReturnFit(frame, i)

\* The slot counted from the epoch, so that a schedule does not move with the
\* first row of the frame.
ScheduledRefit(frame, i) == frame[i] % RetrainEvery = 0

\* The model in use after each row: a refit that lacks rows keeps the old one.
ActiveModels(frame, mode) ==
  LET active[i \in 0..Len(frame)] ==
        IF i = 0 THEN NoFit
        ELSE IF ValidFeatures(frame, i) /\ ScheduledRefit(frame, i)
                /\ Fit(frame, mode, i) # NoFit
             THEN Fit(frame, mode, i)
             ELSE active[i - 1]
  IN active

\* The model behind the prediction of each row, NoFit where there is none; in
\* mode "probability" a row with a failed refit has none either.
Predictions(frame, mode) ==
  LET active == ActiveModels(frame, mode)
  IN [i \in 1..Len(frame) |->
        IF ~ValidFeatures(frame, i) THEN NoFit
        ELSE IF mode = "probability" /\ ScheduledRefit(frame, i)
                /\ Fit(frame, mode, i) = NoFit
             THEN NoFit
             ELSE active[i]]

=============================================================================
