-------------------------- MODULE MCCaptureJournal --------------------------
(* Recorders that contend for one archive; the bounds are in the .cfg files. *)
EXTENDS CaptureJournal

=============================================================================
