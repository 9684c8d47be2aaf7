---------------------------- MODULE NssmJournal ----------------------------
(***************************************************************************)
(* The thread log_and_rotate() of NSSM (io.cpp), between the pipe that the *)
(* Node server writes its output to and the log file: it copies what it    *)
(* reads, and rotates the file at a line end when `nssm rotate` asked for  *)
(* it or the file has grown to AppRotateBytes.                             *)
(*                                                                         *)
(* It shares with the control handler and with stop_service() one word,    *)
(* rotate_online.  A byte is its position in the output; a newline is one  *)
(* byte (charsize 1); a write succeeds or writes nothing, and one that     *)
(* finds a broken pipe behind the file ends the thread.                    *)
(***************************************************************************)
EXTENDS Naturals, Sequences, FiniteSets

CONSTANTS
  Bytes,      \* what the application writes at most
  BufSize,    \* sizeof(buffer): 1024
  Limits,     \* AppRotateBytes of the runs: 0 for none
  Unset       \* what the local `out` may hold before it is assigned

ASSUME SizesAssumption ==
  Bytes \in Nat /\ BufSize \in Nat \ {0} /\ Limits \subseteq Nat /\ Unset \subseteq Nat

VARIABLES
  text,        \* what the application has written: is each byte a newline?
  rotate_online,
  pc,          \* "read", "scan", "cut", "rotate", "rest" or "gone"
  base,        \* the position before buffer[0]
  next,        \* the position of the last byte read
  address,     \* as an offset in buffer
  in, i, size, out,
  limit,       \* logger->size
  disposition, \* logger->disposition: "append" (OPEN_ALWAYS) or "truncate"
  handle,      \* logger->write_handle: "open" or "invalid"
  exists,      \* does the file exist at logger->path?
  kept,        \* the bytes in the files, in order, the current one last
  ends,        \* the lengths of kept at the end of each rotated file
  failed       \* history: what has failed, of "move" and "write" (reopening too)

buffer == <<base, next, address, in, i>>
file   == <<handle, exists, kept, ends>>
config == <<limit, disposition>>
vars   == <<text, rotate_online, pc, buffer, size, out, config, file, failed>>

sent == Len(text)

\* The bytes at address, of which the writes below take the first ones.
Slice(length) == [k \in 1 .. length |-> base + address + k]

\* Where the current file begins in kept.
Begin == IF ends = {} THEN 0 ELSE CHOOSE e \in ends : \A f \in ends : f <= e

Init ==
  /\ text = <<>>
  /\ rotate_online = "ONLINE" /\ pc = "read"
  /\ base = 0 /\ next = 0 /\ address = 0 /\ in = 0 /\ i = 0
  /\ size \in {0, 1} /\ out \in Unset
  /\ limit \in Limits /\ disposition \in {"append", "truncate"}
  /\ handle = "open" /\ exists = TRUE /\ kept = <<>> /\ ends = {}
  /\ failed = {}

-----------------------------------------------------------------------------
(* log_and_rotate() *)

\* Mutant: the parenthesis misplaced, a file without a limit never rotates.
MutDue(n) == limit > 0 /\ (rotate_online = "ASAP" \/ size + n >= limit)

Due(n) == rotate_online = "ASAP" \/ (limit > 0 /\ size + n >= limit)

\* try_read(): what the pipe holds, up to the size of the buffer.
Read ==
  /\ pc = "read"
  /\ \E n \in 1 .. BufSize :
       /\ next + n <= sent
       /\ base' = next /\ next' = next + n /\ in' = n
       /\ pc' = IF Due(n) THEN "scan" ELSE "rest"
  /\ address' = 0 /\ i' = 0
  /\ UNCHANGED <<text, rotate_online, size, out, config, file, failed>>

\* The pipe is broken, or five reads have failed.
ReadFails ==
  /\ pc = "read"
  /\ pc' = "gone"
  /\ UNCHANGED <<text, rotate_online, buffer, size, out, config, file, failed>>

\* The loop goes on with buffer[i], whatever address has become.
LineEnds == {j \in i + 1 .. in : text[base + j]}

Scan ==
  /\ pc = "scan"
  /\ IF LineEnds = {}
     THEN pc' = "rest" /\ UNCHANGED i
     ELSE /\ pc' = "cut"
          /\ i' \in LineEnds /\ \A j \in LineEnds : i' <= j
  /\ UNCHANGED <<text, rotate_online, base, next, address, in, size, out,
                 config, file, failed>>

\* try_write(): succeeds, or fails after five attempts, as it always does with
\* INVALID_HANDLE_VALUE; WriteBreaks is its third outcome.
Write(length) ==
  \/ /\ handle = "open"
     /\ kept' = kept \o Slice(length) /\ out' = length
     /\ UNCHANGED failed
  \/ /\ failed' = failed \cup {"write"} /\ out' = 0
     /\ UNCHANGED kept

Cut ==
  /\ pc = "cut"
  /\ Write(i)
  /\ size' = size + out'
  /\ pc' = "rotate"
  /\ UNCHANGED <<text, rotate_online, buffer, config, handle, exists, ends>>

\* Mutant: the file that could not be moved is opened as configured.
MutMove(moved) ==
  /\ IF moved THEN ends' = ends \cup {Len(kept)} /\ size' = 0
              ELSE UNCHANGED <<ends, size>>
  /\ UNCHANGED disposition

\* MoveFile(); what it did is the new file, if the move succeeded, and a
\* disposition that saves the old one if it did not.
Move(moved) ==
  IF moved
  THEN /\ ends' = ends \cup {Len(kept)} /\ size' = 0
       /\ UNCHANGED disposition
  ELSE /\ disposition' = IF exists THEN "append" ELSE disposition
       /\ UNCHANGED <<ends, size>>

\* write_to_file(): the test `! write_handle` misses INVALID_HANDLE_VALUE.
Reopen(moved) ==
  \E opened \in BOOLEAN :
    /\ handle' = IF opened THEN "open" ELSE "invalid"
    /\ exists' = (opened \/ (exists /\ ~ moved))
    /\ kept' = IF opened /\ ~ moved /\ disposition' = "truncate"
               THEN SubSeq(kept, 1, Begin) ELSE kept
    /\ failed' = failed \cup (IF moved THEN {} ELSE {"move"})
                         \cup (IF opened THEN {} ELSE {"write"})

\* Mutant: in is counted from the start of the buffer.
MutResume ==
  /\ address' = address + i /\ in' = in - address - i /\ i' = i + 1

\* Mutant: in still counts what has been written.
MutResumeLonger ==
  /\ address' = address + i /\ i' = i + 1
  /\ UNCHANGED in

\* Mutant: address stays on the line that was written.
MutResumeBehind ==
  /\ in' = in - i /\ i' = i + 1
  /\ UNCHANGED address

\* address += i, in -= i, and the loop's own i++.
Resume ==
  /\ address' = address + i /\ in' = in - i /\ i' = i + 1

Rotate ==
  /\ pc = "rotate"
  /\ rotate_online' = "ONLINE"
  /\ \E moved \in {m \in BOOLEAN : m => exists} : Move(moved) /\ Reopen(moved)
  /\ Resume
  /\ pc' = "scan"
  /\ UNCHANGED <<text, base, next, out, limit>>

\* `size += out` where out is, for an empty file, of an earlier write or unset.
Counted == IF size = 0 THEN out ELSE size

\* Mutant: what follows the last cut is not counted.
MutRest ==
  /\ pc = "rest"
  /\ size' = Counted
  /\ IF in = 0 THEN UNCHANGED <<kept, out, failed>> ELSE Write(in)
  /\ base' = next /\ address' = 0 /\ in' = 0 /\ i' = 0
  /\ pc' = "read"
  /\ UNCHANGED <<text, rotate_online, next, config, handle, exists, ends>>

Rest ==
  /\ pc = "rest"
  /\ IF in = 0 THEN size' = Counted /\ UNCHANGED <<kept, out, failed>>
               ELSE Write(in) /\ size' = Counted + out'
  /\ base' = next /\ address' = 0 /\ in' = 0 /\ i' = 0 \* until the next read
  /\ pc' = "read"
  /\ UNCHANGED <<text, rotate_online, next, config, handle, exists, ends>>

Logger == Read \/ Scan \/ Cut \/ Rotate \/ Rest

\* ERROR_BROKEN_PIPE: what was to be written is lost, and nobody reads any more.
WriteBreaks ==
  /\ pc = "cut" \/ (pc = "rest" /\ in > 0)
  /\ handle = "open"
  /\ pc' = "gone" /\ failed' = failed \cup {"write"}
  /\ UNCHANGED <<text, rotate_online, buffer, size, out, config, file>>

-----------------------------------------------------------------------------
(* What surrounds the thread *)

\* The application writes, as long as somebody reads.
Send ==
  /\ pc # "gone" /\ sent < Bytes
  /\ \E newline \in BOOLEAN : text' = Append(text, newline)
  /\ UNCHANGED <<rotate_online, pc, buffer, size, out, config, file, failed>>

\* service_control_handler(): the request is for a running log only.
ControlRotate ==
  /\ rotate_online = "ONLINE"
  /\ rotate_online' = "ASAP"
  /\ UNCHANGED <<text, pc, buffer, size, out, config, file, failed>>

\* stop_service()
StopService ==
  /\ rotate_online' = "OFFLINE"
  /\ UNCHANGED <<text, pc, buffer, size, out, config, file, failed>>

\* main() returns and the process ends, whatever the thread is doing.
Leaves ==
  /\ rotate_online = "OFFLINE"
  /\ pc' = "gone"
  /\ UNCHANGED <<text, rotate_online, buffer, size, out, config, file, failed>>

Next == Logger \/ ReadFails \/ WriteBreaks \/ Send \/ ControlRotate \/ StopService \/ Leaves

Spec == Init /\ [][Next]_vars

\* The system schedules the thread; nothing obliges the application to write,
\* nor a control to come.
FairSpec == Spec /\ WF_vars(Logger)

-----------------------------------------------------------------------------
(***************************************************************************)
(* What is required of it                                                  *)
(***************************************************************************)

\* Type correctness of the thread's variables and of the files.
TypeOK ==
  /\ text \in Seq(BOOLEAN) /\ sent \in 0 .. Bytes
  /\ rotate_online \in {"OFFLINE", "ONLINE", "ASAP"}
  /\ pc \in {"read", "scan", "cut", "rotate", "rest", "gone"}
  /\ base \in 0 .. Bytes /\ next \in 0 .. Bytes
  /\ address \in 0 .. BufSize /\ in \in 0 .. BufSize /\ i \in 0 .. BufSize + 1
  /\ size \in Nat /\ out \in Nat /\ limit \in Limits
  /\ disposition \in {"append", "truncate"} /\ handle \in {"open", "invalid"}
  /\ exists \in BOOLEAN
  /\ kept \in Seq(1 .. Bytes) /\ ends \in SUBSET Nat
  /\ failed \in SUBSET {"move", "write"}

\* Every write takes bytes of the buffer that the last read filled, and after
\* the last cut exactly the rest of them, although the loop that looks for
\* newlines moves address and in and keeps its index.
WithinBuffer ==
  /\ next <= base + BufSize
  /\ pc \in {"scan", "cut", "rotate", "rest"} => base + address + in = next
  /\ pc \in {"cut", "rotate"} => i <= in

\* As long as no write and no reopening fails, the files together hold what was
\* read, in order and once, whatever moves fail and wherever the process ends:
\* a move that fails loses nothing, even with a disposition that truncates.
NothingLost ==
  "write" \notin failed =>
    /\ kept = [k \in 1 .. Len(kept) |-> k]
    /\ pc = "read" => Len(kept) = next

\* How much of what was read has been written, or will never be.
Done == CASE pc = "gone"   -> next
          [] pc = "rotate" -> base + address + i
          [] OTHER         -> base + address

Log == INSTANCE LogFiles WITH
  read <- next, done <- Done, intact <- "write" \notin failed, open <- pc # "gone"

\* Whatever fails, what is written stays: the files only grow, by the bytes that
\* come next in the output, and a rotated file never changes.  No order of failed
\* moves, reopenings and writes empties a file or repeats a byte, and one is
\* missing only where a write failed or the process ended.
LogKept == Log!Spec

\* `output files which hit the configured size threshold` (README.txt:328): as
\* long as nothing fails, no line ends beyond the limit of the current file, or
\* beyond one read if that is more.
Bounded ==
  failed = {} /\ limit > 0 /\ pc = "read" =>
    \A k \in Begin + 1 .. Len(kept) :
      text[kept[k]] => k - Begin < limit \/ k - Begin < BufSize

\* `On-demand rotations will happen after the next line of data is read`
\* (README.txt:334): a request does not stay pending once a newline is to be
\* read, as long as the thread lives.
RotationServed ==
  rotate_online = "ASAP" /\ (\E k \in next + 1 .. sent : text[k])
  ~> rotate_online # "ASAP" \/ pc = "gone"

\* `Write up to the newline` (io.cpp:482): a rotated file ends with a line.
WholeLines ==
  "write" \notin failed => \A e \in ends : text[kept[e]]

=============================================================================
