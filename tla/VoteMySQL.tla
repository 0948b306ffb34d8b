------------------------------ MODULE VoteMySQL ------------------------------
(***************************************************************************)
(* dao/mysql/vote.go, PersistVoteEvent: the transaction that applies one   *)
(* vote event to MySQL.  A row of post_vote is [dir, ver]; the absent row  *)
(* is NoRow, since Redis numbers the versions of a vote from 1.            *)
(***************************************************************************)
EXTENDS Integers

Directions == {-1, 0, 1}

NoRow == [dir |-> 0, ver |-> 0]

\* A slip the ON DUPLICATE KEY UPDATE invites: MySQL assigns from left to
\* right, so with "version" first the direction is never seen to be older.
UpsertVersionFirst(row, e) ==
    IF row = NoRow THEN [dir |-> e.dir, ver |-> e.ver]
    ELSE IF e.ver > row.ver THEN [row EXCEPT !.ver = e.ver] ELSE row

\* The same statement without its version guard.
UpsertUnguarded(row, e) == [dir |-> e.dir, ver |-> e.ver]

\* INSERT ... ON DUPLICATE KEY UPDATE: every column advances when the event's
\* version is newer, and none otherwise.
Upsert(row, e) ==
    IF e.ver > row.ver THEN [dir |-> e.dir, ver |-> e.ver] ELSE row

\* What the transaction reports.  Zero affected rows means that the row is not
\* older than the event; the row is then read back to tell the cases apart.
PersistStatus(row, consumed, id, e) ==
    CASE id \in consumed                              -> "duplicate"
      [] id \notin consumed /\ Upsert(row, e) # row   -> "persisted"
      [] id \notin consumed /\ Upsert(row, e) = row /\ row.ver = e.ver
           -> IF row.dir # e.dir THEN "conflict" ELSE "same_version"
      [] OTHER                                        -> "stale"

\* The row and the table of consumed ids once the transaction has ended: a
\* conflict rolls both writes back, every other status commits them.
Applied(row, consumed, id, e) ==
    [row |-> IF id \in consumed THEN row ELSE Upsert(row, e),
     consumed |-> consumed \cup {id}]
==============================================================================
