----------------------------- MODULE MCRecording ----------------------------
(* A small instance of Recording for TLC.                                  *)
EXTENDS Recording

(* A tool that reports its progress, a command whose progress is not       *)
(* recorded, and an item the normalizer does not know.                     *)
Lines == {[type |-> "tool", id |-> 1, phase |-> "updated"],
          [type |-> "command", id |-> 2, phase |-> "updated"],
          [type |-> "image", id |-> 3, phase |-> "completed"]}
=============================================================================
