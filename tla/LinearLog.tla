----------------------------- MODULE LinearLog ------------------------------
(***************************************************************************)
(* What a CommandSink promises its callers: one history of batches, a      *)
(* proposal in at most one of them, an answer only for a command that took *)
(* its place in the history and is visible on the proposer's node, and     *)
(* views that are growing prefixes of the history.  A proposal that failed *)
(* may still be committed: its outcome is unknown.                         *)
(***************************************************************************)
EXTENDS Integers, Sequences

CONSTANTS
  Node,     \* nodes with a view each
  Command   \* commands, each proposed at most once

VARIABLES
  history,  \* the committed batches
  status,   \* command -> idle, waiting, ok or error
  index,    \* acknowledged command -> index of its batch
  live,     \* the nodes whose sink is open
  view      \* node -> the prefix of history it shows

vars == <<history, status, index, live, view>>

Members(b) == {b[i] : i \in 1 .. Len(b)}
Committed == UNION {Members(history[i]) : i \in 1 .. Len(history)}
Prefix(s) == Len(s) <= Len(history) /\ \A i \in 1 .. Len(s) : s[i] = history[i]

Init ==
  /\ history = <<>>
  /\ status = [c \in Command |-> "idle"]
  /\ index = [c \in {} |-> 0]
  /\ live = {}
  /\ view = [n \in Node |-> <<>>]

Propose(c) ==
  /\ status[c] = "idle"
  /\ status' = [status EXCEPT ![c] = "waiting"]
  /\ UNCHANGED <<history, index, live, view>>

\* A batch of proposed commands takes the next place, each command once.
Commit ==
  /\ Len(history') = Len(history) + 1
  /\ \A i \in 1 .. Len(history) : history'[i] = history[i]
  /\ LET b == history'[Len(history) + 1]
     IN /\ b # <<>>
        /\ \A i, j \in 1 .. Len(b) : b[i] = b[j] => i = j
        /\ \A c \in Members(b) : status[c] = "waiting" /\ c \notin Committed
  /\ UNCHANGED <<index, live, view>>

\* The proposers in S give up.
Fail(S) ==
  /\ \A c \in S : status[c] = "waiting"
  /\ status' = [c \in Command |-> IF c \in S THEN "error" ELSE status[c]]

CommitQuietly == Commit /\ UNCHANGED status
CommitUnheard == Commit /\ \E S \in SUBSET Command : Fail(S)
GiveUp == (\E S \in SUBSET Command : Fail(S)) /\ UNCHANGED <<history, index, live, view>>

\* The commands of batch i are answered once node n shows the batch.
Acknowledge(n, i) ==
  /\ n \in live /\ i \in 1 .. Len(view[n])
  /\ LET S == Members(history[i])
     IN /\ \A c \in S : status[c] = "waiting"
        /\ status' = [c \in Command |-> IF c \in S THEN "ok" ELSE status[c]]
        /\ index' = [c \in DOMAIN index \cup S |-> IF c \in S THEN i ELSE index[c]]
  /\ UNCHANGED <<history, live, view>>

\* A sink opens showing everything committed.
Open(n) ==
  /\ n \notin live
  /\ live' = live \cup {n}
  /\ view' = [view EXCEPT ![n] = history]
  /\ UNCHANGED <<history, status, index>>

Learn(n) ==
  /\ n \in live
  /\ Prefix(view'[n]) /\ Len(view'[n]) > Len(view[n])
  /\ view' = [view EXCEPT ![n] = view'[n]]
  /\ UNCHANGED <<history, status, index, live>>

Stop(n) ==
  /\ live' = live \ {n}
  /\ view' = [view EXCEPT ![n] = <<>>]
  /\ \E S \in SUBSET Command : Fail(S)
  /\ UNCHANGED <<history, index>>

Next ==
  \/ \E c \in Command : Propose(c)
  \/ CommitQuietly \/ CommitUnheard \/ GiveUp
  \/ \E n \in Node : Open(n) \/ Learn(n) \/ Stop(n)
  \/ \E n \in Node, i \in 1 .. Len(history) : Acknowledge(n, i)

Spec == Init /\ [][Next]_vars
=============================================================================
