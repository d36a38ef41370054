---------------------------- MODULE MCRecordSync ----------------------------
(* Instances of RecordSync small enough for TLC. *)
EXTENDS RecordSync

TwoIds == {1, 2}

AllButClearing == {"edit", "remote", "delete", "disconnect"}
Editing == {"edit", "remote"}

AllFaults == {"provider", "crash", "publish", "ledger"}
NoFaults == {}
=============================================================================
