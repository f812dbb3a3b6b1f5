------------------------------- MODULE Rounds -------------------------------
(***************************************************************************)
(* The round manager, its timeout loop and the pacemaker                   *)
(* (consensus/round.rs, consensus/pacemaker.rs).  Height, round, state and *)
(* start time have a lock each: a round changes in four writes, and the    *)
(* two watchers read them one at a time.                                   *)
(***************************************************************************)
EXTENDS Integers, Sequences, FiniteSets

CONSTANTS RoundHeights, RoundNumbers,
          RoundLimits,    \* state -> its timeout
          RoundBase,      \* base_timeout_ms of the pacemaker
          RoundMaxTime, RoundMaxChanges \* bounds: the clock, changes of the round

ASSUME RoundAssumption ==
    /\ RoundBase \in Nat /\ RoundMaxTime \in Nat
    /\ \A s \in DOMAIN RoundLimits : RoundLimits[s] \in Nat

VARIABLES rm,          \* the round manager's four fields
          roundNow,    \* the monotonic clock
          changer,     \* the thread that starts rounds and sets states
          watcher,     \* run_timeout_loop
          pacer,       \* the pacemaker
          consecutive_timeouts,
          born,        \* when the round in force was completely installed
          roundSent,   \* the timeouts announced
          roundChanges

roundVars == <<rm, roundNow, changer, watcher, pacer, consecutive_timeouts,
               born, roundSent, roundChanges>>

RoundStates == {"NewRound", "ProposalSent", "ProposalReceived", "Prevoted",
                "Precommitted", "Committed", "TimedOut"}
NoStart == -1
RoundTimes == 0..RoundMaxTime
Writing == [at |-> "idle", round |-> 0]
Looking == [at |-> "idle", quiet |-> TRUE, elapsed |-> 0, kind |-> "None", round |-> 0]

RoundTypeOK ==
    /\ rm.state \in RoundStates /\ rm.start \in RoundTimes \cup {NoStart}
    /\ roundNow \in RoundTimes /\ consecutive_timeouts \in Nat
    /\ changer.at \in {"idle", "round", "state", "start"}
    /\ pacer.at \in {"idle", "reading", "elapsed"}
    /\ watcher.at \in {"idle", "elapsed", "height", "named", "due", "round", "state", "start"}

RoundInit ==
    /\ rm = [height |-> 0, round |-> 0, state |-> "NewRound", start |-> NoStart]
    /\ roundNow = 0 /\ changer = Writing /\ watcher = Looking /\ pacer = Looking
    /\ consecutive_timeouts = 0 /\ born = NoStart /\ roundSent = {} /\ roundChanges = 0

elapsed_ms == IF rm.start = NoStart THEN 0 ELSE roundNow - rm.start

(* A write while a watcher is between its reads disturbs it.                *)
Disturbed(w) == [w EXCEPT !.quiet = (w.at = "idle")]

Disturb == watcher' = Disturbed(watcher) /\ pacer' = Disturbed(pacer)

Undisturbed == changer.at = "idle" /\ watcher.at \notin {"round", "state", "start"}

(* start_new_round(height, round); reset_for_height(height) is the same     *)
(* with round 0.                                                            *)
start_new_round ==
    /\ changer.at = "idle" /\ roundChanges < RoundMaxChanges
    /\ \E h \in RoundHeights, r \in RoundNumbers :
         /\ rm' = [rm EXCEPT !.height = h]
         /\ changer' = [at |-> "round", round |-> r]
    /\ roundChanges' = roundChanges + 1
    /\ Disturb
    /\ UNCHANGED <<roundNow, consecutive_timeouts, born, roundSent>>

RestartedMutant(m) == IF m.start = NoStart THEN [m EXCEPT !.start = roundNow] ELSE m
Restarted(m) == [m EXCEPT !.start = roundNow]

StartWrites ==
    /\ \/ changer.at = "round" /\ rm' = [rm EXCEPT !.round = changer.round]
          /\ changer' = [changer EXCEPT !.at = "state"] /\ UNCHANGED born
       \/ changer.at = "state" /\ rm' = [rm EXCEPT !.state = "NewRound"]
          /\ changer' = [changer EXCEPT !.at = "start"] /\ UNCHANGED born
       \/ changer.at = "start" /\ rm' = Restarted(rm)
          /\ changer' = Writing /\ born' = roundNow
    /\ Disturb
    /\ UNCHANGED <<roundNow, consecutive_timeouts, roundSent, roundChanges>>

set_state ==
    /\ changer.at = "idle"
    /\ \E s \in RoundStates \ {rm.state} : rm' = [rm EXCEPT !.state = s]
    /\ Disturb
    /\ UNCHANGED <<roundNow, changer, consecutive_timeouts, born, roundSent, roundChanges>>

(* Every report of progress to the pacemaker resets its back-off.           *)
record_activity ==
    /\ consecutive_timeouts' = 0
    /\ UNCHANGED <<rm, roundNow, changer, watcher, pacer, born, roundSent, roundChanges>>

(* The round's timeout type: the state decides which limit counts.          *)
check_timeout(state, elapsed) ==
    IF state \in DOMAIN RoundLimits /\ elapsed > RoundLimits[state] THEN state ELSE "None"

WatchElapsed ==
    /\ watcher.at = "idle"
    /\ watcher' = [Looking EXCEPT !.at = "elapsed", !.elapsed = elapsed_ms, !.quiet = Undisturbed]
    /\ UNCHANGED <<rm, roundNow, changer, pacer, consecutive_timeouts, born, roundSent, roundChanges>>

Announce(w, limit) ==
    roundSent' = roundSent \cup
        {[quiet |-> w.quiet, due |-> born # NoStart /\ roundNow - born > limit]}

(* run_timeout_loop: a timeout's height and round, of which only the moment *)
(* matters here, are read one after the other, then comes the callback, and *)
(* a new round only when the timeout is the round's own.                    *)
WatchState ==
    LET kind == check_timeout(rm.state, watcher.elapsed)
    IN /\ watcher.at = "elapsed"
       /\ watcher' = IF kind = "None" THEN Looking
                     ELSE [watcher EXCEPT !.at = "height", !.kind = kind]
       /\ UNCHANGED <<rm, roundNow, changer, pacer, consecutive_timeouts, born, roundSent, roundChanges>>

WatchHeight ==
    /\ watcher.at = "height"
    /\ watcher' = [watcher EXCEPT !.at = "named"]
    /\ UNCHANGED <<rm, roundNow, changer, pacer, consecutive_timeouts, born, roundSent, roundChanges>>

run_timeout_loop ==
    /\ watcher.at = "named"
    /\ Announce(watcher, RoundLimits[watcher.kind])
    /\ watcher' = IF watcher.kind = "Precommitted" THEN [watcher EXCEPT !.at = "due"] ELSE Looking
    /\ UNCHANGED <<rm, roundNow, changer, pacer, consecutive_timeouts, born, roundChanges>>

(* advance_round reads the round and writes three fields.                   *)
AdvanceReads ==
    /\ watcher.at = "due"
    /\ watcher' = [watcher EXCEPT !.at = "round", !.round = rm.round + 1]
    /\ UNCHANGED <<rm, roundNow, changer, pacer, consecutive_timeouts, born, roundSent, roundChanges>>

advance_round ==
    /\ \/ watcher.at = "round" /\ roundChanges < RoundMaxChanges
          /\ rm' = [rm EXCEPT !.round = watcher.round] /\ UNCHANGED born
          /\ watcher' = [watcher EXCEPT !.at = "state"]
          /\ roundChanges' = roundChanges + 1
       \/ watcher.at = "state" /\ rm' = [rm EXCEPT !.state = "NewRound"]
          /\ watcher' = [watcher EXCEPT !.at = "start"] /\ UNCHANGED <<born, roundChanges>>
       \/ watcher.at = "start" /\ rm' = Restarted(rm)
          /\ watcher' = Looking /\ born' = roundNow /\ UNCHANGED roundChanges
    /\ pacer' = Disturbed(pacer)
    /\ UNCHANGED <<roundNow, changer, consecutive_timeouts, roundSent>>

get_current_timeout(n) ==
    LET grown == (RoundBase * 3 ^ n) \div 2 ^ n
    IN IF grown < 10 * RoundBase THEN grown ELSE 10 * RoundBase

(* check_and_handle_timeouts, one read at a time.                           *)
PaceReads ==
    /\ pacer.at = "idle"
    /\ pacer' = [Looking EXCEPT !.at = "reading", !.quiet = Undisturbed]
    /\ UNCHANGED <<rm, roundNow, changer, watcher, consecutive_timeouts, born, roundSent, roundChanges>>

PaceElapsed ==
    /\ pacer.at = "reading"
    /\ pacer' = [pacer EXCEPT !.at = "elapsed", !.elapsed = elapsed_ms]
    /\ UNCHANGED <<rm, roundNow, changer, watcher, consecutive_timeouts, born, roundSent, roundChanges>>

check_and_handle_timeouts ==
    /\ pacer.at = "elapsed"
    /\ IF pacer.elapsed > get_current_timeout(consecutive_timeouts)
       THEN /\ Announce(pacer, RoundBase)
            /\ consecutive_timeouts' = consecutive_timeouts + 1
       ELSE UNCHANGED <<roundSent, consecutive_timeouts>>
    /\ pacer' = Looking
    /\ UNCHANGED <<rm, roundNow, changer, watcher, born, roundChanges>>

Passes ==
    /\ roundNow < RoundMaxTime
    /\ roundNow' = roundNow + 1
    /\ UNCHANGED <<rm, changer, watcher, pacer, consecutive_timeouts, born, roundSent, roundChanges>>

RoundNext ==
    \/ start_new_round \/ StartWrites \/ set_state \/ record_activity
    \/ WatchElapsed \/ WatchState \/ WatchHeight \/ run_timeout_loop
    \/ AdvanceReads \/ advance_round
    \/ PaceReads \/ PaceElapsed \/ check_and_handle_timeouts \/ Passes

RoundSpec == RoundInit /\ [][RoundNext]_roundVars

(* A timeout is announced only for a round that has lasted longer than its  *)
(* limit, unless the round was being changed while the watcher read its     *)
(* fields, the height and round it names included: only torn reads make a   *)
(* timeout spurious.  About check_timeout, check_and_handle_timeouts,       *)
(* start_new_round and advance_round.                                       *)
TimeoutDueOrTorn == \A s \in roundSent : s.quiet => s.due
=============================================================================
