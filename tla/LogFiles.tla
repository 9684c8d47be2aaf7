------------------------------ MODULE LogFiles ------------------------------
(***************************************************************************)
(* What the thread between the application and its log promises, whatever  *)
(* newlines, limits, requests and failures of the files: what is in a file *)
(* stays there, a rotated file is closed for good, and what is written is  *)
(* what comes next in the output: a byte is given up only by a failure or  *)
(* by the end of the process, and never comes back.                        *)
(***************************************************************************)
EXTENDS Naturals, Sequences

VARIABLES
  kept,    \* the bytes in the files, in order, the current file last
  ends,    \* the lengths of kept at the end of each rotated file
  read,    \* how much of the output has been read
  done,    \* how much of it has been written or given up
  intact,  \* has no write and no reopening failed?
  open     \* does the process run?

vars == <<kept, ends, read, done, intact, open>>

Init ==
  kept = <<>> /\ ends = {} /\ read = 0 /\ done = 0 /\ intact = TRUE /\ open = TRUE

\* Nothing is read before what was read is dealt with.
Read ==
  /\ open /\ done = read
  /\ read' \in Nat /\ read' > read
  /\ UNCHANGED <<kept, ends, done, intact, open>>

Write ==
  /\ open
  /\ \E n \in 1 .. read - done :
       kept' = kept \o [k \in 1 .. n |-> done + k] /\ done' = done + n
  /\ UNCHANGED <<ends, read, intact, open>>

\* The next file may fail to open.
Rotate ==
  /\ open
  /\ ends' = ends \cup {Len(kept)}
  /\ intact' => intact
  /\ UNCHANGED <<kept, read, done, open>>

Fail ==
  /\ open
  /\ done' \in done .. read /\ intact' = FALSE
  /\ UNCHANGED <<kept, ends, read, open>>

\* What has not been written is given up, be it because a write failed.
Close ==
  /\ open
  /\ open' = FALSE /\ done' = read
  /\ intact' => intact
  /\ UNCHANGED <<kept, ends, read>>

Next == Read \/ Write \/ Rotate \/ Fail \/ Close

Spec == Init /\ [][Next]_vars

=============================================================================
