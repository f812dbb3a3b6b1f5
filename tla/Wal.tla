-------------------------------- MODULE Wal --------------------------------
(***************************************************************************)
(* WalManager (storage/wal.rs) with its log enabled: entries wait in       *)
(* memory, a flush moves them to the current file, files are rotated, and  *)
(* a restart goes on with the one it takes for the latest.  Each lock the  *)
(* code holds over another lock request is a step of its own, so a request *)
(* of a lock that its own thread holds is seen as the thread hanging with  *)
(* its locks.  Entries are numbered in the order of append; a record on    *)
(* disk is its entry.                                                      *)
(***************************************************************************)
EXTENDS Integers, Sequences, FiniteSets
LOCAL INSTANCE Functions

CONSTANTS WalAppenders,   \* threads that call append
          WalFlushers,    \* the flush task, and callers of flush and close
          WalFirstLsn,    \* LSN of the log file that exists at the start
          WalMaxPending,  \* config.max_pending_entries
          WalMaxFile,     \* config.max_file_size, in records
          WalMaxEntries,  \* bound: entries appended
          WalMaxFaults    \* bound: crashes and failing writes together

WalThreads == WalAppenders \cup WalFlushers
Free == "free"

ASSUME WalAssumption ==
    /\ Free \notin WalThreads
    /\ {WalFirstLsn, WalMaxPending, WalMaxFile, WalMaxEntries, WalMaxFaults} \subseteq Nat

VARIABLES wal,        \* the manager's fields, its locks and the directory
          walThread   \* what each thread is doing, and the entries it took

walVars == <<wal, walThread>>

WalKinds == {"save", "batch", "checkpoint"}
(* What is left of a record whose write was cut short: its length and not   *)
(* all of its bytes, or not even its length.                                *)
WalCuts == {[id |-> 0, kind |-> "cut"], [id |-> 0, kind |-> "stub"]}
Closed == -1
WalResting == [at |-> "idle", took |-> <<>>, close |-> FALSE]

WalTypeOK ==
    /\ wal.pending \in Seq([id : 1..WalMaxEntries, kind : WalKinds])
    /\ wal.lsn \in Nat /\ wal.open \in Nat \cup {Closed}
    /\ {wal.lsnLock, wal.fileLock} \subseteq WalThreads \cup {Free}
    /\ \A t \in WalThreads : walThread[t].at \in
           {"idle", "full", "taken", "writing", "closing", "hung"}

(* new on a directory whose latest file is empty.                           *)
WalInit ==
    /\ wal = [files |-> [n \in {WalFirstLsn} |-> <<>>],
              open |-> WalFirstLsn, lsn |-> WalFirstLsn, pending |-> <<>>,
              lsnLock |-> Free, fileLock |-> Free,
              log |-> <<>>, lost |-> {}, closed |-> FALSE, faults |-> 0]
    /\ walThread = [t \in WalThreads |-> WalResting]

(* append, up to the point where it returns or goes on to flush: it keeps   *)
(* the write lock of current_lsn in either case.                            *)
WalIsFull(pending) == Len(pending) >= WalMaxPending

append(t, kind) ==
    LET entry == [id |-> Len(wal.log) + 1, kind |-> kind]
        pending == Append(wal.pending, entry)
    IN /\ walThread[t].at = "idle" /\ wal.lsnLock = Free
       /\ Len(wal.log) < WalMaxEntries
       /\ wal' = [wal EXCEPT !.lsn = @ + 1, !.pending = pending, !.log = Append(@, kind),
                             !.lsnLock = IF WalIsFull(pending) THEN t ELSE Free]
       /\ walThread' = [walThread EXCEPT ![t].at =
                           IF WalIsFull(pending) THEN "full" ELSE "idle"]

(* checkpoint: the argument of append keeps a read guard of current_lsn     *)
(* until append has returned, and append asks for the write lock.           *)
checkpoint(t) ==
    /\ walThread[t].at = "idle" /\ wal.lsnLock = Free
    /\ wal' = [wal EXCEPT !.lsnLock = t]
    /\ walThread' = [walThread EXCEPT ![t].at = "hung"]

(* The first part of flush: the pending entries are taken out of memory.    *)
(* A flush of close goes on to close.                                       *)
WalAfterTakeMutant(pending) == pending
WalAfterTake(pending) == <<>>

WalReturns(t) == IF walThread[t].close THEN [WalResting EXCEPT !.at = "closing"] ELSE WalResting

FlushTakes(t, close) ==
    /\ \/ t \in WalFlushers /\ walThread[t].at = "idle"
       \/ t \in WalAppenders /\ walThread[t].at = "full" /\ ~close
    /\ walThread' = [walThread EXCEPT ![t] =
                        [at |-> IF wal.pending # <<>> THEN "taken"
                                ELSE IF close THEN "closing" ELSE "idle",
                         took |-> wal.pending, close |-> close]]
    /\ wal' = [wal EXCEPT !.pending = WalAfterTake(@),
                          !.lsnLock = IF @ = t /\ wal.pending = <<>> THEN Free ELSE @]

(* The second part: the lock of the file.  A log that was closed makes the  *)
(* flush fail with the entries in its hands.                                *)
FlushLocks(t) ==
    /\ walThread[t].at = "taken" /\ wal.fileLock = Free
    /\ IF wal.open = Closed
       THEN /\ wal' = [wal EXCEPT !.lost = @ \cup Range(walThread[t].took),
                                  !.lsnLock = IF @ = t THEN Free ELSE @]
            /\ walThread' = [walThread EXCEPT ![t] = WalResting]
       ELSE /\ wal' = [wal EXCEPT !.fileLock = t]
            /\ walThread' = [walThread EXCEPT ![t].at =
                                IF wal.lsnLock = t THEN "hung" ELSE "writing"]

(* open_wal_file: a file that exists is appended to.                        *)
open_wal_file(files, lsn) ==
    [n \in DOMAIN files \cup {lsn} |-> IF n \in DOMAIN files THEN files[n] ELSE <<>>]

(* The rest of flush: current_lsn is read, the records are written, and a   *)
(* file that reached its size makes way for one named after that LSN.       *)
FlushWrites(t) ==
    LET file == wal.files[wal.open] \o walThread[t].took
        next == IF Len(file) >= WalMaxFile THEN wal.lsn ELSE wal.open
    IN /\ walThread[t].at = "writing" /\ wal.lsnLock = Free
       /\ wal' = [wal EXCEPT !.files = open_wal_file([@ EXCEPT ![wal.open] = file], next),
                             !.open = next, !.fileLock = Free]
       /\ walThread' = [walThread EXCEPT ![t] = WalReturns(t)]

(* What may be on disk of records whose write does not finish.              *)
WalWritten(took) ==
    {SubSeq(took, 1, n) : n \in 0..Len(took)}
      \cup {Append(SubSeq(took, 1, n), c) : n \in 0..(Len(took) - 1), c \in WalCuts}

(* A write, or the opening of the next file, fails: flush, append and close *)
(* return the error and the entries in its hands are dropped.  What stays   *)
(* in the writer's buffer goes to the file later or is lost in a crash; the *)
(* choice is made here.                                                     *)
FlushFails(t) ==
    /\ walThread[t].at = "writing" /\ wal.lsnLock = Free
    /\ wal.faults < WalMaxFaults
    /\ \E written \in WalWritten(walThread[t].took) :
         wal' = [wal EXCEPT !.files[wal.open] = @ \o written, !.fileLock = Free,
                            !.lost = @ \cup (Range(walThread[t].took) \ Range(written)),
                            !.faults = @ + 1]
    /\ walThread' = [walThread EXCEPT ![t] = WalResting]

(* The rest of close, once its flush has returned.                          *)
close(t) ==
    /\ walThread[t].at = "closing" /\ wal.fileLock = Free
    /\ wal' = [wal EXCEPT !.open = Closed, !.closed = TRUE]
    /\ walThread' = [walThread EXCEPT ![t] = WalResting]

(* find_latest_lsn: the names are written in base 16 and read in base 10;   *)
(* one with a letter in it is passed over.                                  *)
find_latest_lsn(files) ==
    LET parses == {n \in DOMAIN files : n % 16 < 10 /\ n \div 16 < 10}
        read == {0} \cup {10 * (n \div 16) + (n % 16) : n \in parses}
    IN CHOOSE n \in read : \A m \in read : m <= n

(* new on the directory that a stopped process left.                        *)
WalRestarted(files) ==
    LET lsn == find_latest_lsn(files)
    IN [wal EXCEPT !.files = open_wal_file(files, lsn), !.open = lsn, !.lsn = lsn,
                   !.pending = <<>>, !.lsnLock = Free, !.fileLock = Free]

(* What memory held, but for the records that reached the disk.             *)
WalLostBut(kept) ==
    (Range(wal.pending) \cup UNION {Range(walThread[t].took) : t \in WalThreads}) \ Range(kept)

(* The process stops, in the middle of a write as well, and starts again.   *)
WalCrash ==
    LET took == IF wal.fileLock # Free /\ walThread[wal.fileLock].at = "writing"
                THEN walThread[wal.fileLock].took ELSE <<>>
    IN /\ wal.faults < WalMaxFaults
       /\ \E written \in WalWritten(took) :
            LET files == IF written = <<>> THEN wal.files
                         ELSE [wal.files EXCEPT ![wal.open] = @ \o written]
            IN wal' = [WalRestarted(files) EXCEPT
                         !.lost = @ \cup WalLostBut(written), !.faults = @ + 1]
       /\ walThread' = [t \in WalThreads |-> WalResting]

WalNext ==
    \/ \E t \in WalAppenders, k \in WalKinds : append(t, k)
    \/ \E t \in WalThreads, c \in BOOLEAN : FlushTakes(t, c)
    \/ \E t \in WalThreads : checkpoint(t) \/ FlushLocks(t) \/ close(t)
    \/ \E t \in WalThreads : FlushWrites(t) \/ FlushFails(t)
    \/ WalCrash

WalSpec == WalInit /\ [][WalNext]_walVars

(* A thread inside a call runs on.                                          *)
WalGoesOn(t) ==
    \/ walThread[t].at = "full" /\ FlushTakes(t, FALSE)
    \/ FlushLocks(t) \/ FlushWrites(t) \/ close(t)

WalFairSpec == WalSpec /\ \A t \in WalThreads : WF_walVars(WalGoesOn(t))
-----------------------------------------------------------------------------
(* Every call of the log returns: the test of wal.rs checkpoints and goes   *)
(* on, and append is to flush when enough entries wait.  About append       *)
(* calling flush with the lock of current_lsn in its hands, and checkpoint  *)
(* calling append with a read guard of it.                                  *)
WalCallsReturn == \A t \in WalThreads : walThread[t].at # "idle" ~> walThread[t].at = "idle"
=============================================================================
