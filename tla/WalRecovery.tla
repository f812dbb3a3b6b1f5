----------------------------- MODULE WalRecovery -----------------------------
(***************************************************************************)
(* WalManager::recover (storage/wal.rs): what the log gives back of what   *)
(* append accepted.                                                        *)
(***************************************************************************)
EXTENDS Wal
LOCAL INSTANCE SequencesExt
LOCAL INSTANCE Functions

(* recover_from_file: the saves of a file, cut into batches at a checkpoint *)
(* that follows a Batch entry.  What a Batch entry carries is not replayed. *)
WalStep(acc, record) ==
    CASE record.kind = "save" -> [acc EXCEPT !.current = Append(@, record)]
      [] record.kind = "batch" -> [acc EXCEPT !.open = TRUE]
      [] record.kind = "checkpoint" /\ acc.open ->
            [batches |-> Append(acc.batches, acc.current), current |-> <<>>, open |-> FALSE]
      [] OTHER -> acc

recover_from_file(records) ==
    LET end == FoldLeft(WalStep, [batches |-> <<>>, current |-> <<>>, open |-> FALSE], records)
    IN IF end.current = <<>> THEN end.batches ELSE Append(end.batches, end.current)

(* A record cut within its bytes makes recover_from_file fail; one cut      *)
(* within its length is read as the end of the file, unless something was   *)
(* appended behind it, which is then misread.                               *)
WalReadable(records) ==
    \A i \in DOMAIN records :
        records[i].kind # "cut" /\ (records[i].kind = "stub" => i = Len(records))

(* recover: the batches of every file, or an error and nothing as soon as   *)
(* one fails.                                                               *)
recover ==
    [n \in {m \in DOMAIN wal.files : \A k \in DOMAIN wal.files : WalReadable(wal.files[k])} |->
        recover_from_file(wal.files[n])]
-----------------------------------------------------------------------------
WalTimes(entry, seq) == Cardinality({i \in DOMAIN seq : seq[i] = entry})

(* Every save that append accepted is in exactly one place, once: waiting   *)
(* in memory, in the hands of a flush, or in one of the files, and then in  *)
(* one batch of what recover returns, when it returns anything: one cut     *)
(* record keeps all of the log from it.  Only a crash, a failing write or a *)
(* flush after close loses a save.  About append, flush, close and recover. *)
WalSavesAccounted ==
    LET recovered == recover
        onDisk(n) == IF n \in DOMAIN recovered THEN FlattenSeq(recovered[n]) ELSE wal.files[n]
    IN /\ \A i \in DOMAIN wal.log :
            LET entry == [id |-> i, kind |-> "save"]
                found == WalTimes(entry, wal.pending)
                           + SumFunction([t \in WalThreads |-> WalTimes(entry, walThread[t].took)])
                           + SumFunction([n \in DOMAIN wal.files |-> WalTimes(entry, onDisk(n))])
            IN wal.log[i] = "save" => found = IF entry \in wal.lost THEN 0 ELSE 1
       /\ wal.lost # {} => wal.faults > 0 \/ wal.closed
=============================================================================
