------------------------------ MODULE TraceLog ------------------------------
(***************************************************************************)
(* What the trace ring promises: one log of entries in the order their     *)
(* recordings began.  A recording holds the entry it began; the entry reads*)
(* as a tombstone until it is committed, and for ever if it is given up.   *)
(* The oldest entries are forgotten only once they were acknowledged, and  *)
(* never while one of them is still held.                                  *)
(***************************************************************************)
EXTENDS Integers

CONSTANTS
  Initiators,  \* devices that record
  Programs,    \* what an entry is committed to
  Tombstone    \* what an entry reads as before that

VARIABLES
  first,  \* position of the oldest entry that was not forgotten
  end,    \* position of the next entry
  log,    \* the entries from first to end - 1
  held    \* the entry each initiator is recording, or Nobody's

logVars == <<first, end, log, held>>

None == -1

LogInit ==
  /\ first = 0
  /\ end = 0
  /\ log = [p \in {} |-> Tombstone]
  /\ held = [i \in Initiators |-> None]

LogBegin(i) ==
  /\ held[i] = None
  /\ held' = [held EXCEPT ![i] = end]
  /\ end' = end + 1
  /\ log' = [p \in first .. end |-> IF p = end THEN Tombstone ELSE log[p]]
  /\ first' = first

LogCommit(i, program) ==
  /\ held[i] # None
  /\ held' = [held EXCEPT ![i] = None]
  /\ log' = [log EXCEPT ![held[i]] = program]
  /\ UNCHANGED <<first, end>>

LogAbort(i) ==
  /\ held[i] # None
  /\ held' = [held EXCEPT ![i] = None]
  /\ UNCHANGED <<first, end, log>>

\* Everything before n has been acknowledged.
LogForget(n) ==
  /\ n \in first .. end
  /\ \A i \in Initiators : held[i] # None => held[i] >= n
  /\ first' = n
  /\ log' = [p \in n .. end - 1 |-> log[p]]
  /\ UNCHANGED <<end, held>>

LogClear ==
  /\ first' = 0
  /\ end' = 0
  /\ log' = [p \in {} |-> Tombstone]
  /\ held' = [i \in Initiators |-> None]

LogNext ==
  \/ \E i \in Initiators : LogBegin(i) \/ LogAbort(i)
  \/ \E i \in Initiators, program \in Programs : LogCommit(i, program)
  \/ \E n \in first .. end : LogForget(n)
  \/ LogClear

LogSpec == LogInit /\ [][LogNext]_logVars
=============================================================================
