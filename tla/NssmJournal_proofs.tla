------------------------- MODULE NssmJournal_proofs -------------------------
(***************************************************************************)
(* What NssmJournal guarantees for any output, any size of the buffer and  *)
(* any limit.                                                              *)
(***************************************************************************)
EXTENDS NssmJournal, SequenceTheorems, TLAPS

\* What is left to write are the last bytes of the read.
Positions ==
  /\ next <= sent /\ base + address + in = next /\ next <= base + BufSize
  /\ pc \in {"cut", "rotate"} => i \in 1 .. in
  /\ pc = "read" => in = 0 /\ address = 0

\* The current file begins at the last cut, and is counted at least for what it
\* holds.
Files ==
  /\ ends \subseteq 0 .. Len(kept) /\ Begin \in ends \cup {0}
  /\ \A e \in ends : e <= Begin
  /\ size >= Len(kept) - Begin

\* What is in the files is what was read and is not left to write.
Kept ==
  "write" \notin failed =>
    /\ exists
    /\ \A k \in 1 .. Len(kept) : kept[k] = k
    /\ pc \in {"read", "scan", "cut", "rest"} => Len(kept) = base + address
    /\ pc = "rotate" => Len(kept) = base + address + i

\* The current file is empty, and less than a read is left.
Rotated == Begin = Len(kept) /\ in < BufSize

\* The lines of the current file, and those still to write.
Lines ==
  failed = {} /\ limit > 0 /\ pc \in {"read", "scan", "cut", "rest"} =>
    /\ \A k \in Begin + 1 .. Len(kept) :
         text[kept[k]] => k - Begin < limit \/ k - Begin < BufSize
    /\ pc = "scan" => (address = 0 /\ i = 0) \/ Rotated
    /\ pc = "rest" => \/ size + in < limit
                      \/ Rotated
                      \/ \A k \in base + address + 1 .. next : ~ text[k]

TypeInv == TypeOK /\ Positions /\ Files

Inv == TypeInv /\ Kept /\ Lines

-----------------------------------------------------------------------------
\* A write adds the bytes it takes, in order.
LEMMA SliceType ==
  ASSUME TypeInv, NEW length \in 1 .. in
  PROVE  /\ Slice(length) \in Seq(1 .. Bytes)
         /\ Len(Slice(length)) = length
         /\ \A k \in 1 .. length : Slice(length)[k] = base + address + k
<1>1. \A k \in 1 .. length : base + address + k \in 1 .. Bytes
  BY SizesAssumption DEF TypeInv, TypeOK, Positions
<1>2. length \in Nat
  BY DEF TypeInv, TypeOK
<1> QED
  BY <1>1, <1>2 DEF Slice

LEMMA WriteKeeps ==
  ASSUME TypeInv, NEW length \in 1 .. in, Write(length)
  PROVE  /\ kept' \in Seq(1 .. Bytes) /\ out' \in Nat
         /\ failed' \in SUBSET {"move", "write"}
         /\ \/ /\ failed' = failed /\ out' = length
               /\ Len(kept') = Len(kept) + length
               /\ \A k \in 1 .. Len(kept) : kept'[k] = kept[k]
               /\ \A k \in 1 .. length : kept'[Len(kept) + k] = base + address + k
            \/ /\ failed' = failed \cup {"write"} /\ out' = 0 /\ kept' = kept
<1>1. kept \in Seq(1 .. Bytes) /\ failed \in SUBSET {"move", "write"}
      /\ length \in Nat
  BY DEF TypeInv, TypeOK
<1>2. CASE kept' = kept \o Slice(length) /\ out' = length /\ failed' = failed
  <2> DEFINE t == Slice(length)
  <2>1. t \in Seq(1 .. Bytes) /\ Len(t) = length
        /\ \A k \in 1 .. length : t[k] = base + address + k
    BY SliceType
  <2> HIDE DEF t
  <2>2. kept' = kept \o t
    BY <1>2 DEF t
  <2>3. /\ kept \o t \in Seq(1 .. Bytes)
        /\ Len(kept \o t) = Len(kept) + length
        /\ \A k \in 1 .. Len(kept) + length :
             (kept \o t)[k] = IF k <= Len(kept) THEN kept[k] ELSE t[k - Len(kept)]
    BY <1>1, <2>1, ConcatProperties
  <2>4. Len(kept) \in Nat
    BY <1>1, LenProperties
  <2>5. \A k \in 1 .. Len(kept) : kept'[k] = kept[k]
    BY <1>1, <2>2, <2>3, <2>4
  <2>6. \A k \in 1 .. length : kept'[Len(kept) + k] = t[k]
    <3> SUFFICES ASSUME NEW k \in 1 .. length PROVE kept'[Len(kept) + k] = t[k]
      OBVIOUS
    <3>1. Len(kept) + k \in 1 .. Len(kept) + length /\ ~ (Len(kept) + k <= Len(kept))
          /\ Len(kept) + k - Len(kept) = k
      BY <1>1, <2>4
    <3> QED
      BY <2>2, <2>3, <3>1
  <2> QED
    BY <1>1, <1>2, <2>1, <2>2, <2>3, <2>5, <2>6
<1>3. CASE failed' = failed \cup {"write"} /\ out' = 0 /\ kept' = kept
  BY <1>1, <1>3
<1> QED
  BY <1>2, <1>3 DEF Write

-----------------------------------------------------------------------------
LEMMA TypeInit == Init => TypeInv
<1> SUFFICES ASSUME Init PROVE TypeInv
  OBVIOUS
<1>1. kept \in Seq(1 .. Bytes) /\ Len(kept) = 0 /\ text \in Seq(BOOLEAN) /\ sent = 0
  BY DEF Init, sent
<1>2. TypeOK
  BY <1>1, SizesAssumption DEF Init, TypeOK
<1>3. Positions /\ Files
  BY <1>1, SizesAssumption DEF Init, Positions, Files, Begin
<1> QED
  BY <1>2, <1>3 DEF TypeInv

\* The beginning of the current file is a length of kept.
LEMMA BeginType ==
  ASSUME TypeInv
  PROVE  Begin \in Nat /\ Begin <= Len(kept) /\ Len(kept) \in Nat
BY LenProperties DEF TypeInv, TypeOK, Files

\* A file that is closed begins a new one.
LEMMA BeginMoves ==
  ASSUME TypeInv, ends' = ends \cup {Len(kept)}
  PROVE  Begin' = Len(kept)
<1>1. Len(kept) \in Nat /\ \A e \in ends : e \in Nat /\ e <= Len(kept)
  BY BeginType DEF TypeInv, Files
<1>2. \A e \in ends' : (\A f \in ends' : f <= e) <=> e = Len(kept)
  BY <1>1
<1>3. Len(kept) \in ends'
  OBVIOUS
<1> QED
  BY <1>2, <1>3 DEF Begin

\* Sums of lengths, for the primed ones that the prover does not see as numbers.
LEMMA NatSum ==
  \A x, y \in Nat : x + y \in Nat
OBVIOUS

LEMMA NatGrowth ==
  ASSUME NEW x \in Nat, NEW y \in Nat, NEW z \in Nat, NEW l \in Nat, z >= x,
         NEW s, NEW m, s = z + y, m = l + y
  PROVE  s \in Nat /\ s - x >= m - l
OBVIOUS

\* One step of log_and_rotate() keeps the types.
LEMMA TypeLogger == TypeInv /\ Logger => TypeInv'
<1> SUFFICES ASSUME TypeInv, Logger PROVE TypeInv'
  OBVIOUS
<1> USE SizesAssumption
<1>0. /\ sent \in Nat /\ Len(kept) \in Nat /\ text \in Seq(BOOLEAN)
      /\ base \in Nat /\ next \in Nat /\ address \in Nat /\ in \in 0 .. BufSize /\ i \in Nat
  BY LenProperties DEF TypeInv, TypeOK, sent
<1>1. CASE Read
  <2>1. TypeOK'
    BY <1>0, <1>1 DEF TypeInv, TypeOK, Positions, Read, config, file, sent
  <2>2. Positions' /\ Files'
    BY SMTT(40), <1>0, <1>1 DEF TypeInv, TypeOK, Positions, Files, Read, config, file, sent, Begin
  <2> QED
    BY <2>1, <2>2 DEF TypeInv
<1>2. CASE Scan
  <2>1. i' \in 0 .. BufSize + 1 /\ (pc' = "cut" => i' \in 1 .. in)
    BY <1>0, <1>2 DEF TypeInv, TypeOK, Scan, LineEnds
  <2>2. TypeOK'
    BY <1>0, <1>2, <2>1 DEF TypeInv, TypeOK, Scan, config, file, sent
  <2>3. Positions' /\ Files'
    BY <1>0, <1>2, <2>1 DEF TypeInv, Positions, Files, Scan, config, file, sent, Begin
  <2> QED
    BY <2>2, <2>3 DEF TypeInv
<1>3. CASE Cut
  <2>1. i \in 1 .. in
    BY <1>3 DEF TypeInv, Positions, Cut
  <2>2. /\ kept' \in Seq(1 .. Bytes) /\ out' \in Nat
        /\ failed' \in SUBSET {"move", "write"}
        /\ Len(kept') = Len(kept) + out'
    BY <1>0, <1>3, <2>1, WriteKeeps DEF Cut
  <2>3. TypeOK'
    <3>1. size' \in Nat
      <4>1. size \in Nat
        BY DEF TypeInv, TypeOK
      <4>2. size' = size + out'
        BY <1>3 DEF Cut
      <4>3. out' \in Nat
        BY <2>2
      <4> QED
        BY <4>1, <4>2, <4>3, NatSum
    <3> QED
      BY <1>3, <2>2, <3>1 DEF TypeInv, TypeOK, Cut, config, buffer, sent
  <2>4. Positions'
    BY <1>3, <2>1 DEF TypeInv, Positions, Cut, buffer, sent
  <2>5. Files'
    <3>1. Begin' = Begin /\ ends' = ends /\ size' = size + out' /\ size \in Nat
      BY <1>3 DEF TypeInv, TypeOK, Cut, Begin
    <3>2. /\ ends \subseteq 0 .. Len(kept) /\ Begin \in ends \cup {0}
          /\ \A e \in ends : e <= Begin
          /\ size >= Len(kept) - Begin /\ Begin \in Nat
      BY BeginType DEF TypeInv, Files
    <3>3. out' \in Nat /\ Len(kept') = Len(kept) + out'
      BY <2>2
    <3>4. ends' \subseteq 0 .. Len(kept') /\ size' >= Len(kept') - Begin'
      BY <1>0, <3>1, <3>2, <3>3
    <3> QED
      BY <3>1, <3>2, <3>4 DEF Files
  <2> QED
    BY <2>3, <2>4, <2>5 DEF TypeInv
<1>4. CASE Rotate
  <2>1. i \in 1 .. in /\ base + address + in = next
    BY <1>4 DEF TypeInv, Positions, Rotate
  <2> PICK moved \in {m \in BOOLEAN : m => exists} : Move(moved) /\ Reopen(moved)
    BY <1>4 DEF Rotate
  <2>2. CASE moved
    <3>1. ends' = ends \cup {Len(kept)} /\ size' = 0 /\ disposition' = disposition
          /\ kept' = kept /\ failed' \in SUBSET {"move", "write"} /\ exists' \in BOOLEAN
          /\ handle' \in {"open", "invalid"}
      BY <2>2 DEF Move, Reopen, TypeInv, TypeOK
    <3>2. Begin' = Len(kept)
      BY <3>1, BeginMoves
    <3>3. Files'
      <4>1. ends' \subseteq 0 .. Len(kept)
        <5>1. ends \subseteq 0 .. Len(kept) /\ Len(kept) \in 0 .. Len(kept)
          BY <1>0 DEF TypeInv, Files
        <5> QED
          BY <3>1, <5>1
      <4> QED
        BY <1>0, <3>1, <3>2, <4>1 DEF Files
    <3>4. TypeOK'
      <4>1. address + i \in 0 .. BufSize /\ in - i \in 0 .. BufSize
            /\ i + 1 \in 0 .. BufSize + 1
        BY <1>0, <2>1 DEF TypeInv, Positions
      <4>2. ends' \in SUBSET Nat /\ size' \in Nat
        BY <1>0, <3>1 DEF TypeInv, TypeOK
      <4> QED
        BY <1>4, <3>1, <4>1, <4>2 DEF TypeInv, TypeOK, Rotate, Resume, sent
    <3> QED
      BY <1>0, <1>4, <2>1, <3>3, <3>4 DEF TypeInv, Positions, Rotate, Resume, sent
  <2>3. CASE ~ moved
    <3>1. ends' = ends /\ size' = size /\ disposition' \in {"append", "truncate"}
          /\ failed' \in SUBSET {"move", "write"} /\ exists' \in BOOLEAN
          /\ handle' \in {"open", "invalid"}
          /\ (kept' = kept \/ kept' = SubSeq(kept, 1, Begin))
      BY <2>3 DEF Move, Reopen, TypeInv, TypeOK
    <3>2. kept' \in Seq(1 .. Bytes) /\ Len(kept') \in {Len(kept), Begin}
      <4>1. \A k \in 1 .. Begin : kept[k] \in 1 .. Bytes
        BY <1>0, BeginType, ElementOfSeq DEF TypeInv, TypeOK
      <4>2. /\ SubSeq(kept, 1, Begin) \in Seq(1 .. Bytes)
            /\ Len(SubSeq(kept, 1, Begin)) = Begin
        BY <4>1, BeginType, SubSeqProperties
      <4> QED
        BY <3>1, <4>2 DEF TypeInv, TypeOK
    <3>3. Begin' = Begin
      BY <3>1 DEF Begin
    <3>4. Files'
      BY <1>0, <3>1, <3>2, <3>3, BeginType DEF TypeInv, TypeOK, Files
    <3>5. TypeOK'
      BY <1>0, <1>4, <2>1, <3>1, <3>2 DEF TypeInv, TypeOK, Positions, Rotate, Resume, sent
    <3> QED
      BY <1>0, <1>4, <2>1, <3>4, <3>5 DEF TypeInv, Positions, Rotate, Resume, sent
  <2> QED
    BY <2>2, <2>3
<1>5. CASE Rest
  <2>1. Counted \in Nat /\ Counted >= size
    BY DEF Counted, TypeInv, TypeOK
  <2>2. /\ kept' \in Seq(1 .. Bytes) /\ out' \in Nat
        /\ failed' \in SUBSET {"move", "write"}
        /\ size' \in Nat /\ size' - size >= Len(kept') - Len(kept)
        /\ Len(kept') \in Nat /\ Len(kept') >= Len(kept)
    <3>0. size \in Nat
      BY DEF TypeInv, TypeOK
    <3>1. CASE in = 0
      <4>1. size' = Counted /\ kept' = kept /\ out' = out /\ failed' = failed
        BY <1>5, <3>1 DEF Rest
      <4> QED
        BY <1>0, <2>1, <3>0, <4>1 DEF TypeInv, TypeOK
    <3>2. CASE in # 0
      <4>1. in \in 1 .. in
        BY <1>0, <3>2
      <4>2. Write(in) /\ size' = Counted + out'
        BY <1>5, <3>2 DEF Rest
      <4>3. /\ kept' \in Seq(1 .. Bytes) /\ out' \in Nat
            /\ failed' \in SUBSET {"move", "write"}
            /\ Len(kept') = Len(kept) + out'
        BY <1>0, <4>1, <4>2, WriteKeeps
      <4>4. size' = Counted + out' /\ Len(kept) \in Nat
        BY <1>0, <4>2
      <4>5. out' \in Nat /\ Len(kept') = Len(kept) + out'
        BY <4>3
      <4>6. size' \in Nat /\ size' - size >= Len(kept') - Len(kept)
        BY <2>1, <3>0, <4>4, <4>5, NatGrowth, Zenon
      <4>7. Len(kept') \in Nat /\ Len(kept') >= Len(kept)
        BY <4>4, <4>5
      <4> QED
        BY <4>3, <4>6, <4>7
    <3> QED
      BY <3>1, <3>2
  <2>3. TypeOK'
    BY <1>0, <1>5, <2>2 DEF TypeInv, TypeOK, Rest, config, sent
  <2>4. Positions'
    BY <1>0, <1>5 DEF TypeInv, Positions, Rest, sent
  <2>5. Files'
    <3>1. Begin' = Begin /\ ends' = ends /\ size \in Nat
      BY <1>5 DEF TypeInv, TypeOK, Rest, Begin
    <3> QED
      BY <1>0, <2>2, <3>1, BeginType DEF TypeInv, Files
  <2> QED
    BY <2>3, <2>4, <2>5 DEF TypeInv
<1> QED
  BY <1>1, <1>2, <1>3, <1>4, <1>5 DEF Logger

\* What surrounds the thread leaves its variables and the files alone.
LEMMA TypeSurroundings ==
  /\ TypeInv
  /\ ReadFails \/ WriteBreaks \/ Send \/ ControlRotate \/ StopService \/ Leaves
  => TypeInv'
<1> SUFFICES ASSUME TypeInv,
                    ReadFails \/ WriteBreaks \/ Send \/ ControlRotate \/ StopService \/ Leaves
             PROVE  TypeInv'
  OBVIOUS
<1>1. /\ UNCHANGED <<size, out, config, file>> /\ UNCHANGED buffer
      /\ failed' \in SUBSET {"move", "write"}
  BY DEF ReadFails, WriteBreaks, Send, ControlRotate, StopService, Leaves, TypeInv, TypeOK
<1>2. Files'
  BY <1>1 DEF TypeInv, Files, file, Begin
<1>3. /\ text' \in Seq(BOOLEAN) /\ sent' \in 0 .. Bytes /\ sent' >= sent
  <2>1. CASE text' = text
    BY <2>1, LenProperties DEF TypeInv, TypeOK, sent
  <2>2. CASE Send
    <3> PICK newline \in BOOLEAN : text' = Append(text, newline)
      BY <2>2 DEF Send
    <3>1. text \in Seq(BOOLEAN) /\ sent \in Nat /\ sent < Bytes /\ Bytes \in Nat
      BY <2>2, SizesAssumption, LenProperties DEF Send, TypeInv, TypeOK, sent
    <3>2. text' \in Seq(BOOLEAN) /\ sent' = sent + 1
      BY <3>1, AppendProperties DEF sent
    <3> QED
      BY <3>1, <3>2
  <2> QED
    BY <2>1, <2>2 DEF ReadFails, WriteBreaks, ControlRotate, StopService, Leaves
<1>4. rotate_online' \in {"OFFLINE", "ONLINE", "ASAP"} /\ pc' \in {pc, "gone"}
  BY DEF ReadFails, WriteBreaks, Send, ControlRotate, StopService, Leaves, TypeInv, TypeOK
<1>5. TypeOK'
  BY <1>1, <1>3, <1>4 DEF TypeInv, TypeOK, config, file, buffer
<1>6. next \in Nat /\ sent \in Nat /\ next <= sent
  BY LenProperties DEF TypeInv, TypeOK, Positions, sent
<1>7. next <= sent'
  BY <1>3, <1>6
<1>8. Positions'
  BY <1>1, <1>4, <1>7 DEF TypeInv, Positions, buffer
<1> QED
  BY <1>2, <1>5, <1>8 DEF TypeInv

LEMMA TypeNext == TypeInv /\ [Next]_vars => TypeInv'
<1> SUFFICES ASSUME TypeInv, [Next]_vars PROVE TypeInv'
  OBVIOUS
<1>1. CASE UNCHANGED vars
  BY <1>1 DEF vars, buffer, file, config, TypeInv, TypeOK, Positions, Files, sent, Begin
<1>2. CASE Next
  BY <1>2, TypeLogger, TypeSurroundings DEF Next
<1> QED
  BY <1>1, <1>2

\* TypeOK: the thread's variables stay in their types, in may never wrap around.
THEOREM TypeCorrect == Spec => []TypeOK
<1>1. TypeInv => TypeOK
  BY DEF TypeInv
<1> QED
  BY <1>1, TypeInit, TypeNext, PTL DEF Spec

\* WithinBuffer: each write takes bytes that the last read put in the buffer.
THEOREM WithinBufferCorrect == Spec => []WithinBuffer
<1>1. TypeInv => WithinBuffer
  BY DEF TypeInv, TypeOK, Positions, WithinBuffer
<1> QED
  BY <1>1, TypeInit, TypeNext, PTL DEF Spec

-----------------------------------------------------------------------------
LEMMA KeptNext == TypeInv /\ Kept /\ [Next]_vars => Kept'
<1> SUFFICES ASSUME TypeInv, Kept, [Next]_vars, "write" \notin failed'
             PROVE  /\ exists'
                    /\ \A k \in 1 .. Len(kept') : kept'[k] = k
                    /\ pc' \in {"read", "scan", "cut", "rest"} => Len(kept') = base' + address'
                    /\ pc' = "rotate" => Len(kept') = base' + address' + i'
  BY DEF Kept
<1>0. /\ Len(kept) \in Nat
      /\ base \in Nat /\ next \in Nat /\ address \in Nat /\ in \in Nat /\ i \in Nat
      /\ base + address + in = next
  BY LenProperties DEF TypeInv, TypeOK, Positions
<1>1. failed \subseteq failed'
  BY DEF Next, Logger, ReadFails, WriteBreaks, Send, ControlRotate, StopService, Leaves, vars,
         Read, Scan, Cut, Rotate, Rest, Reopen, Write
<1>2. /\ exists
      /\ \A k \in 1 .. Len(kept) : kept[k] = k
      /\ pc \in {"read", "scan", "cut", "rest"} => Len(kept) = base + address
      /\ pc = "rotate" => Len(kept) = base + address + i
  BY <1>1 DEF Kept
<1>3. CASE Read
  BY <1>0, <1>2, <1>3 DEF Read, file, TypeInv, Positions
<1>4. CASE Scan
  BY <1>2, <1>4 DEF Scan, file
<1>5. CASE Cut
  <2>1. i \in 1 .. in /\ Write(i) /\ Len(kept) = base + address
    BY <1>2, <1>5 DEF Cut, TypeInv, Positions
  <2>2. /\ Len(kept') = Len(kept) + i
        /\ \A k \in 1 .. Len(kept) : kept'[k] = kept[k]
        /\ \A k \in 1 .. i : kept'[Len(kept) + k] = base + address + k
    BY <2>1, WriteKeeps
  <2>3. \A k \in 1 .. Len(kept) + i : k \in 1 .. Len(kept) \/ k - Len(kept) \in 1 .. i
    BY <1>0
  <2>4. \A k \in 1 .. Len(kept) + i : kept'[k] = k
    <3> SUFFICES ASSUME NEW k \in 1 .. Len(kept) + i PROVE kept'[k] = k
      OBVIOUS
    <3>1. CASE k \in 1 .. Len(kept)
      BY <1>2, <2>2, <3>1
    <3>2. CASE k - Len(kept) \in 1 .. i
      <4>1. kept'[Len(kept) + (k - Len(kept))] = base + address + (k - Len(kept))
        BY <2>2, <3>2
      <4>2. Len(kept) + (k - Len(kept)) = k /\ base + address + (k - Len(kept)) = k
        BY <1>0, <2>1
      <4> QED
        BY <4>1, <4>2
    <3> QED
      BY <2>3, <3>1, <3>2
  <2> QED
    BY <1>0, <1>2, <1>5, <2>1, <2>2, <2>4 DEF Cut, buffer
<1>6. CASE Rotate
  <2> PICK moved \in {m \in BOOLEAN : m => exists} : Move(moved) /\ Reopen(moved)
    BY <1>6 DEF Rotate
  <2>1. kept' = kept /\ exists'
    BY <1>2 DEF Move, Reopen
  <2> QED
    BY <1>0, <1>2, <1>6, <2>1 DEF Rotate, Resume
<1>7. CASE Rest
  <2>1. Len(kept) = base + address
    BY <1>2, <1>7 DEF Rest
  <2>2. CASE in = 0
    BY <1>0, <1>2, <1>7, <2>1, <2>2 DEF Rest
  <2>3. CASE in # 0
    <3>1. in \in 1 .. in /\ Write(in)
      BY <1>0, <1>7, <2>3 DEF Rest
    <3>2. /\ Len(kept') = Len(kept) + in
          /\ \A k \in 1 .. Len(kept) : kept'[k] = kept[k]
          /\ \A k \in 1 .. in : kept'[Len(kept) + k] = base + address + k
      BY <3>1, WriteKeeps
    <3>3. \A k \in 1 .. Len(kept) + in : k \in 1 .. Len(kept) \/ k - Len(kept) \in 1 .. in
      BY <1>0
    <3>4. \A k \in 1 .. Len(kept) + in : kept'[k] = k
      <4> SUFFICES ASSUME NEW k \in 1 .. Len(kept) + in PROVE kept'[k] = k
        OBVIOUS
      <4>1. CASE k \in 1 .. Len(kept)
        BY <1>2, <3>2, <4>1
      <4>2. CASE k - Len(kept) \in 1 .. in
        <5>1. kept'[Len(kept) + (k - Len(kept))] = base + address + (k - Len(kept))
          BY <3>2, <4>2
        <5>2. Len(kept) + (k - Len(kept)) = k /\ base + address + (k - Len(kept)) = k
          BY <1>0, <2>1
        <5> QED
          BY <5>1, <5>2
      <4> QED
        BY <3>3, <4>1, <4>2
    <3> QED
      BY <1>0, <1>2, <1>7, <2>1, <3>2, <3>4 DEF Rest
  <2> QED
    BY <2>2, <2>3
<1>8. CASE UNCHANGED <<file, buffer>> /\ pc' \in {pc, "gone"}
  BY <1>2, <1>8 DEF file, buffer
<1> QED
  BY <1>3, <1>4, <1>5, <1>6, <1>7, <1>8
     DEF Next, Logger, ReadFails, WriteBreaks, Send, ControlRotate, StopService, Leaves, vars

\* NothingLost: unless a write or a reopening fails, the files hold what was read.
THEOREM NothingLostCorrect == Spec => []NothingLost
<1>1. Init => Kept
  BY DEF Init, Kept
<1>2. TypeInv /\ Kept => NothingLost
  <2> SUFFICES ASSUME TypeInv, Kept, "write" \notin failed
               PROVE  /\ kept = [k \in 1 .. Len(kept) |-> k]
                      /\ pc = "read" => Len(kept) = next
    BY DEF NothingLost
  <2>1. kept = [k \in 1 .. Len(kept) |-> kept[k]]
    BY LenProperties DEF TypeInv, TypeOK
  <2>2. \A k \in 1 .. Len(kept) : kept[k] = k
    BY DEF Kept
  <2>3. pc = "read" => Len(kept) = next
    BY LenProperties DEF Kept, TypeInv, TypeOK, Positions
  <2> QED
    BY <2>1, <2>2, <2>3
<1> QED
  BY <1>1, <1>2, TypeInit, TypeNext, KeptNext, PTL DEF Spec

-----------------------------------------------------------------------------
\* A line end that the limit, or the size of a read, allows for.
Allowed(k) == k - Begin < limit \/ k - Begin < BufSize

\* While nothing fails, every byte of the files has its place in the output.
LEMMA Places ==
  ASSUME TypeInv, Kept, failed = {}, pc \in {"read", "scan", "cut", "rest"}
  PROVE  /\ \A k \in 1 .. Len(kept) : kept[k] = k
         /\ Len(kept) = base + address /\ Len(kept) <= next /\ next <= sent
         /\ Len(kept) + in = next
         /\ Len(kept) \in Nat /\ Begin \in Nat /\ base \in Nat /\ address \in Nat
         /\ in \in Nat /\ next \in Nat /\ sent \in Nat /\ size \in Nat
         /\ limit \in Nat /\ BufSize \in Nat
         /\ Begin <= Len(kept) /\ size >= Len(kept) - Begin
<1>1. /\ Len(kept) \in Nat /\ base \in Nat /\ address \in Nat /\ in \in Nat
      /\ next \in Nat /\ sent \in Nat /\ size \in Nat /\ limit \in Nat /\ BufSize \in Nat
  BY LenProperties, SizesAssumption DEF TypeInv, TypeOK, sent
<1>2. (\A k \in 1 .. Len(kept) : kept[k] = k) /\ Len(kept) = base + address
  BY DEF Kept
<1>3. base + address + in = next /\ next <= sent /\ size >= Len(kept) - Begin
  BY DEF TypeInv, Positions, Files
<1> QED
  BY <1>1, <1>2, <1>3, BeginType

LEMMA LinesRead == TypeInv /\ Kept /\ Lines /\ Read => Lines'
<1> SUFFICES ASSUME TypeInv, Kept, Lines, Read, failed = {}, limit > 0 PROVE Lines'
  BY DEF Lines, Read, config
<1>1. UNCHANGED <<kept, ends, limit, text, size, failed>> /\ pc = "read"
  BY DEF Read, config, file
<1>2. Begin' = Begin
  BY <1>1 DEF Begin
<1>3. \A k \in Begin + 1 .. Len(kept) : text[kept[k]] => Allowed(k)
  BY <1>1 DEF Lines, Allowed
<1>4. pc' = "scan" => address' = 0 /\ i' = 0
  BY DEF Read
<1>5. pc' = "rest" => size + in' < limit
  <2> SUFFICES ASSUME pc' = "rest" PROVE size + in' < limit
    OBVIOUS
  <2> PICK n \in 1 .. BufSize : in' = n /\ ~ Due(n)
    BY DEF Read
  <2>1. n \in Nat /\ size \in Nat /\ limit \in Nat /\ ~ (size + n >= limit)
    BY SizesAssumption DEF Due, TypeInv, TypeOK
  <2> QED
    BY <2>1
<1> QED
  BY <1>1, <1>2, <1>3, <1>4, <1>5 DEF Lines, Allowed

LEMMA LinesScan == TypeInv /\ Kept /\ Lines /\ Scan => Lines'
<1> SUFFICES ASSUME TypeInv, Kept, Lines, Scan, failed = {}, limit > 0 PROVE Lines'
  BY DEF Lines, Scan, config
<1>1. UNCHANGED <<kept, ends, limit, text, size, failed, base, next, address, in>>
      /\ pc = "scan"
  BY DEF Scan, config, file
<1>2. Begin' = Begin
  BY <1>1 DEF Begin
<1>3. \A k \in Begin + 1 .. Len(kept) : text[kept[k]] => Allowed(k)
  BY <1>1 DEF Lines, Allowed
<1>4. (address = 0 /\ i = 0) \/ Rotated
  BY <1>1 DEF Lines
<1>5. pc' = "rest" /\ address = 0 /\ i = 0 =>
        \A k \in base + address + 1 .. next : ~ text[k]
  <2> SUFFICES ASSUME pc' = "rest", address = 0, i = 0, NEW k \in base + address + 1 .. next
               PROVE  ~ text[k]
    OBVIOUS
  <2>1. LineEnds = {}
    BY DEF Scan
  <2>2. k - base \in i + 1 .. in /\ base + (k - base) = k
    BY <1>1, Places
  <2> QED
    BY <2>1, <2>2 DEF LineEnds
<1> QED
  BY <1>1, <1>2, <1>3, <1>4, <1>5 DEF Lines, Allowed, Rotated, Scan

LEMMA LinesRotate == TypeInv /\ Kept /\ Lines /\ Rotate => Lines'
<1> SUFFICES ASSUME TypeInv, Kept, Lines, Rotate, failed' = {} PROVE Lines'
  BY DEF Lines
<1> PICK moved \in {m \in BOOLEAN : m => exists} : Move(moved) /\ Reopen(moved)
  BY DEF Rotate
<1>1. moved /\ kept' = kept /\ ends' = ends \cup {Len(kept)}
  BY DEF Move, Reopen
<1>2. Begin' = Len(kept') /\ Len(kept) \in Nat
  BY <1>1, BeginMoves, BeginType
<1>3. in' < BufSize
  BY SizesAssumption DEF Rotate, Resume, TypeInv, TypeOK, Positions
<1>4. Rotated' /\ pc' = "scan"
  BY <1>2, <1>3 DEF Rotated, Rotate
<1>5. Begin' + 1 .. Len(kept') = {}
  BY <1>1, <1>2
<1> QED
  BY <1>4, <1>5 DEF Lines

LEMMA LinesRest == TypeInv /\ Kept /\ Lines /\ Rest => Lines'
<1> SUFFICES ASSUME TypeInv, Kept, Lines, Rest, failed = {}, limit > 0, failed' = {}
             PROVE  Lines'
  <2>1. ASSUME Rest PROVE failed' = failed \/ "write" \in failed'
    <3>1. CASE in = 0
      BY <2>1, <3>1 DEF Rest
    <3>2. CASE Write(in)
      BY <3>2, Zenon DEF Write
    <3> QED
      BY <2>1, <3>1, <3>2 DEF Rest
  <2> QED
    BY <2>1 DEF Lines, Rest, config
<1>1. UNCHANGED <<ends, limit, text>> /\ pc = "rest" /\ pc' = "read"
  BY DEF Rest, config
<1>2. Begin' = Begin
  BY <1>1 DEF Begin
<1>3. /\ \A k \in 1 .. Len(kept) : kept[k] = k
      /\ Len(kept) = base + address
      /\ Len(kept) + in = next
      /\ Len(kept) \in Nat /\ Begin \in Nat /\ in \in Nat /\ next \in Nat /\ size \in Nat
      /\ limit \in Nat /\ BufSize \in Nat
      /\ Begin <= Len(kept) /\ size >= Len(kept) - Begin
  BY <1>1, Places
<1>4. \A k \in Begin + 1 .. Len(kept) : text[k] => Allowed(k)
  BY <1>1, <1>3 DEF Lines, Allowed
<1>5. \A k \in Begin + 1 .. next : text[k] => Allowed(k)
  <2> SUFFICES ASSUME NEW k \in Begin + 1 .. next, text[k], k > Len(kept) PROVE Allowed(k)
    BY <1>3, <1>4
  <2>1. CASE size + in < limit
    BY <1>3, <2>1 DEF Allowed
  <2>2. CASE Rotated
    BY <1>3, <2>2 DEF Allowed, Rotated
  <2>3. CASE \A j \in base + address + 1 .. next : ~ text[j]
    BY <1>3, <2>3
  <2> QED
    BY <1>1, <2>1, <2>2, <2>3 DEF Lines
<1>6. Kept' /\ TypeInv'
  BY KeptNext, TypeNext DEF Next, Logger
<1>7. Len(kept') = next /\ \A k \in 1 .. Len(kept') : kept'[k] = k
  <2>1. Len(kept') = base' + address' /\ base' = next /\ address' = 0
    BY <1>1, <1>6 DEF Kept, Rest
  <2> QED
    BY <1>1, <1>3, <1>6, <2>1 DEF Kept
<1>8. \A k \in Begin' + 1 .. Len(kept') : text'[kept'[k]] => Allowed(k)'
  <2> SUFFICES ASSUME NEW k \in Begin + 1 .. next PROVE text[kept'[k]] => Allowed(k)
    BY <1>1, <1>2, <1>7 DEF Allowed
  <2>1. k \in 1 .. next
    BY <1>3
  <2> QED
    BY <1>5, <1>7, <2>1
<1> QED
  BY <1>1, <1>8 DEF Lines, Allowed

LEMMA LinesSend == TypeInv /\ Kept /\ Lines /\ Send => Lines'
<1> SUFFICES ASSUME TypeInv, Kept, Lines, Send, failed = {}, limit > 0,
                    pc \in {"read", "scan", "cut", "rest"}
             PROVE  Lines'
  BY DEF Lines, Send, config
<1> PICK newline \in BOOLEAN : text' = Append(text, newline)
  BY DEF Send
<1>0. /\ \A k \in 1 .. Len(kept) : kept[k] = k
      /\ Len(kept) = base + address /\ Len(kept) <= next /\ next <= sent
      /\ Len(kept) \in Nat /\ Begin \in Nat /\ next \in Nat /\ sent \in Nat
  BY Places, Zenon
<1>1. /\ UNCHANGED <<kept, ends, limit, size, failed, base, next, address, in, i, pc>>
      /\ Begin' = Begin
  BY DEF Send, config, file, buffer, Begin
<1>2. \A k \in 1 .. sent : text'[k] = text[k]
  BY AppendProperties DEF TypeInv, TypeOK, sent
<1>3. \A k \in Begin + 1 .. Len(kept) : text[kept[k]] => Allowed(k)
  BY DEF Lines, Allowed
<1>4. \A k \in Begin + 1 .. Len(kept) : text'[kept[k]] = text[kept[k]]
  <2> SUFFICES ASSUME NEW k \in Begin + 1 .. Len(kept) PROVE text'[kept[k]] = text[kept[k]]
    OBVIOUS
  <2>1. kept[k] = k /\ k \in 1 .. sent
    BY <1>0
  <2> QED
    BY <1>2, <2>1
<1>5. \A k \in base + address + 1 .. next : text'[k] = text[k]
  <2> SUFFICES ASSUME NEW k \in base + address + 1 .. next PROVE text'[k] = text[k]
    OBVIOUS
  <2>1. k \in 1 .. sent
    BY <1>0
  <2> QED
    BY <1>2, <2>1
<1> QED
  BY <1>1, <1>3, <1>4, <1>5 DEF Lines, Allowed, Rotated

LEMMA LinesNext == TypeInv /\ Kept /\ Lines /\ [Next]_vars => Lines'
<1> SUFFICES ASSUME TypeInv, Kept, Lines, [Next]_vars PROVE Lines'
  OBVIOUS
<1>1. CASE Cut
  BY <1>1 DEF Cut, Lines
<1>2. CASE /\ UNCHANGED <<text, size, config, file, failed>> /\ UNCHANGED buffer
           /\ pc' \in {pc, "gone"}
  BY <1>2 DEF Lines, Rotated, Begin, config, file, buffer
<1>3. CASE WriteBreaks
  BY <1>3 DEF WriteBreaks, Lines
<1> QED
  BY <1>1, <1>2, <1>3, LinesRead, LinesScan, LinesRotate, LinesRest, LinesSend
     DEF Next, Logger, ReadFails, ControlRotate, StopService, Leaves, vars

\* Bounded: while nothing fails, a rotated file passes its limit by no line.
THEOREM BoundedCorrect == Spec => []Bounded
<1>1. Init => Lines
  <2> SUFFICES ASSUME Init PROVE Lines
    OBVIOUS
  <2>1. Begin + 1 .. Len(kept) = {}
    BY DEF Init, Begin
  <2> QED
    BY <2>1 DEF Init, Lines
<1>2. Init => Kept
  BY DEF Init, Kept
<1>3. Lines => Bounded
  BY DEF Lines, Bounded
<1> QED
  BY <1>1, <1>2, <1>3, TypeInit, TypeNext, KeptNext, LinesNext, PTL DEF Spec

-----------------------------------------------------------------------------
\* A file that was not reopened is a new one, with nothing in it: the disposition
\* that truncates has nothing to truncate.
Present ==
  /\ handle = "open" => exists
  /\ ~ exists => Begin = Len(kept)

LEMMA RotateKeeps ==
  ASSUME TypeInv, Present, NEW moved \in {m \in BOOLEAN : m => exists}, Move(moved),
         Reopen(moved)
  PROVE  kept' = kept
<1> PICK opened \in BOOLEAN :
      kept' = IF opened /\ ~ moved /\ disposition' = "truncate"
              THEN SubSeq(kept, 1, Begin) ELSE kept
  BY DEF Reopen
<1>1. CASE opened /\ ~ moved /\ disposition' = "truncate"
  <2>1. ~ exists
    BY <1>1 DEF Move
  <2>2. Begin = Len(kept)
    BY <2>1 DEF Present
  <2>3. kept = [k \in 1 .. Len(kept) |-> kept[k]] /\ Len(kept) \in Nat
    BY LenProperties DEF TypeInv, TypeOK
  <2>4. SubSeq(kept, 1, Len(kept)) = kept
    BY <2>3, SubSeqProperties DEF TypeInv, TypeOK
  <2> QED
    BY <1>1, <2>2, <2>4
<1> QED
  BY <1>1

LEMMA PresentNext == TypeInv /\ Present /\ [Next]_vars => Present'
<1> SUFFICES ASSUME TypeInv, Present, [Next]_vars PROVE Present'
  OBVIOUS
<1>1. CASE Rotate
  <2> PICK moved \in {m \in BOOLEAN : m => exists} : Move(moved) /\ Reopen(moved)
    BY <1>1 DEF Rotate
  <2>1. kept' = kept
    BY RotateKeeps
  <2>2. handle' = "open" => exists'
    BY DEF Reopen
  <2>3. CASE moved
    <3>1. ends' = ends \cup {Len(kept)}
      BY <2>3 DEF Move
    <3> QED
      BY <2>1, <2>2, <3>1, BeginMoves DEF Present
  <2>4. CASE ~ moved
    <3>1. Begin' = Begin
      BY <2>4 DEF Move, Begin
    <3>2. ~ exists' => ~ exists
      BY <2>4 DEF Reopen
    <3> QED
      BY <2>1, <2>2, <3>1, <3>2 DEF Present
  <2> QED
    BY <2>3, <2>4
<1>2. CASE (Cut \/ Rest) /\ ~ Rotate
  <2>1. UNCHANGED <<handle, exists, ends>>
    BY <1>2 DEF Cut, Rest
  <2>2. Begin' = Begin
    BY <2>1 DEF Begin
  <2>3. exists \/ kept' = kept
    BY <1>2 DEF Cut, Rest, Write, Present
  <2> QED
    BY <2>1, <2>2, <2>3 DEF Present
<1>3. CASE UNCHANGED file
  BY <1>3 DEF file, Present, Begin
<1> QED
  BY <1>1, <1>2, <1>3
     DEF Next, Logger, Read, Scan, ReadFails, WriteBreaks, Send, ControlRotate, StopService, Leaves, vars

\* What the thread is about to write follows what it has dealt with.
LEMMA WriteStep ==
  ASSUME TypeInv, NEW n \in 1 .. in, Write(n), pc \in {"cut", "rest"}, pc' # "gone",
         Done' = Done + n, next' = next, ends' = ends
  PROVE  Log!Next
<1>0. /\ base \in Nat /\ next \in Nat /\ address \in Nat /\ in \in Nat /\ n \in Nat
      /\ base + address + in = next
  BY DEF TypeInv, TypeOK, Positions
<1>1. Done = base + address
  BY DEF Done
<1>2. n \in 1 .. next - Done /\ Done + n \in Done .. next
  BY <1>0, <1>1
<1>3. pc # "gone"
  OBVIOUS
<1>4. CASE kept' = kept \o Slice(n) /\ UNCHANGED failed
  <2>1. Slice(n) = [k \in 1 .. n |-> Done + k]
    BY <1>1 DEF Slice
  <2>2. \E m \in 1 .. next - Done :
          kept' = kept \o [k \in 1 .. m |-> Done + k] /\ Done' = Done + m
    BY <1>2, <1>4, <2>1
  <2> QED
    BY <1>3, <1>4, <2>2 DEF Log!Next, Log!Write
<1>5. CASE failed' = failed \cup {"write"} /\ UNCHANGED kept
  <2>1. Done' \in Done .. next
    BY <1>2
  <2> QED
    BY <1>3, <1>5, <2>1 DEF Log!Next, Log!Fail
<1> QED
  BY <1>4, <1>5 DEF Write

\* Each step of the thread, and of what surrounds it, is one of the log or none.
LEMMA LogNext == TypeInv /\ Present /\ [Next]_vars => [Log!Next]_(Log!vars)
<1> SUFFICES ASSUME TypeInv, Present, [Next]_vars PROVE [Log!Next]_(Log!vars)
  OBVIOUS
<1>0. /\ base \in Nat /\ next \in Nat /\ address \in Nat /\ in \in Nat /\ i \in Nat
      /\ base + address + in = next
  BY DEF TypeInv, TypeOK, Positions
<1>1. CASE Read
  <2> PICK n \in 1 .. BufSize :
        base' = next /\ next' = next + n /\ pc' \in {"scan", "rest"} /\ address' = 0
    BY <1>1 DEF Read
  <2>1. pc = "read" /\ address = 0 /\ in = 0 /\ UNCHANGED <<kept, ends, failed>>
    BY <1>1 DEF Read, TypeInv, Positions, file
  <2>2. n \in Nat /\ n > 0
    BY SizesAssumption
  <2>3. Done = next /\ Done' = next
    BY <1>0, <2>1 DEF Done
  <2>4. next' \in Nat /\ next' > next
    BY <1>0, <2>2
  <2> QED
    BY <2>1, <2>3, <2>4 DEF Log!Next, Log!Read
<1>2. CASE Scan
  <2>1. pc = "scan" /\ pc' \in {"rest", "cut"} /\ UNCHANGED <<kept, ends, failed, next, base, address>>
    BY <1>2 DEF Scan, file
  <2>2. Done' = Done
    BY <2>1 DEF Done
  <2> QED
    BY <2>1, <2>2 DEF Log!vars
<1>3. CASE Cut
  <2>1. /\ pc = "cut" /\ pc' = "rotate" /\ Write(i) /\ i \in 1 .. in
        /\ UNCHANGED <<next, base, address, i, ends>>
    BY <1>3 DEF Cut, buffer, TypeInv, Positions
  <2>2. Done' = Done + i
    BY <2>1 DEF Done
  <2> QED
    BY <2>1, <2>2, WriteStep
<1>4. CASE Rotate
  <2> PICK moved \in {m \in BOOLEAN : m => exists} : Move(moved) /\ Reopen(moved)
    BY <1>4 DEF Rotate
  <2>1. /\ pc = "rotate" /\ pc' = "scan" /\ UNCHANGED <<base, next>>
        /\ address' = address + i
    BY <1>4 DEF Rotate, Resume
  <2>2. Done' = Done /\ Done \in Done .. next
    <3>1. i \in 1 .. in
      BY <2>1 DEF TypeInv, Positions
    <3> QED
      BY <1>0, <2>1, <3>1 DEF Done
  <2>3. kept' = kept
    BY RotateKeeps
  <2>4. failed \subseteq failed'
    BY DEF Reopen
  <2>5. CASE moved
    <3>1. ends' = ends \cup {Len(kept)}
      BY <2>5 DEF Move
    <3> QED
      BY <2>1, <2>2, <2>3, <2>4, <3>1 DEF Log!Next, Log!Rotate
  <2>6. CASE ~ moved
    <3>1. ends' = ends
      BY <2>6 DEF Move
    <3>2. CASE "write" \in failed' /\ "write" \notin failed
      BY <2>1, <2>2, <2>3, <3>1, <3>2 DEF Log!Next, Log!Fail
    <3>3. CASE "write" \in failed' <=> "write" \in failed
      BY <2>1, <2>2, <2>3, <3>1, <3>3 DEF Log!vars
    <3> QED
      BY <2>4, <3>2, <3>3
  <2> QED
    BY <2>5, <2>6
<1>5. CASE Rest
  <2>1. /\ pc = "rest" /\ pc' = "read" /\ base' = next /\ address' = 0
        /\ UNCHANGED <<next, ends>>
    BY <1>5 DEF Rest
  <2>2. Done = base + address /\ Done' = next
    BY <1>0, <2>1 DEF Done
  <2>3. CASE in = 0
    <3>1. UNCHANGED <<kept, failed>>
      BY <1>5, <2>3 DEF Rest
    <3> QED
      BY <1>0, <2>1, <2>2, <2>3, <3>1 DEF Log!vars
  <2>4. CASE in # 0
    <3>1. in \in 1 .. in /\ Write(in)
      BY <1>0, <1>5, <2>4 DEF Rest
    <3>2. Done' = Done + in
      BY <1>0, <2>2
    <3> QED
      BY <2>1, <3>1, <3>2, WriteStep
  <2> QED
    BY <2>3, <2>4
<1>6. CASE /\ pc' = "gone" /\ UNCHANGED <<buffer, file>>
           /\ failed \subseteq failed' /\ (pc = "gone" => failed' = failed)
  <2>1. Done' = next /\ UNCHANGED <<next, kept, ends>> /\ failed \subseteq failed'
    BY <1>6 DEF Done, buffer, file
  <2>2. CASE pc = "gone"
    BY <1>6, <2>1, <2>2 DEF Done, Log!vars
  <2>3. CASE pc # "gone"
    BY <1>6, <2>1, <2>3 DEF Log!Next, Log!Close
  <2> QED
    BY <2>2, <2>3
<1>7. CASE UNCHANGED <<pc, buffer, file, failed>>
  <2>1. Done' = Done /\ UNCHANGED <<pc, next, kept, ends, failed>>
    BY <1>7 DEF Done, buffer, file
  <2> QED
    BY <2>1 DEF Log!vars
<1> QED
  BY <1>1, <1>2, <1>3, <1>4, <1>5, <1>6, <1>7
     DEF Next, Logger, ReadFails, WriteBreaks, Send, ControlRotate, StopService, Leaves, vars

\* LogKept: the thread implements LogFiles, whatever fails.
THEOREM LogKeptCorrect == Spec => LogKept
<1>1. Init => Present /\ Log!Init
  BY DEF Init, Present, Done, Log!Init
<1> QED
  BY <1>1, TypeInit, TypeNext, PresentNext, LogNext, PTL DEF Spec, LogKept, Log!Spec

-----------------------------------------------------------------------------
\* The files hold bytes of the output in its order, each at most once.
InOrder == \A j, k \in 1 .. Len(kept) : j < k => kept[j] < kept[k]

\* What is in the files has been dealt with.
Behind == \A k \in 1 .. Len(kept) : kept[k] <= Done

LEMMA DoneType == ASSUME TypeInv PROVE Done \in Nat /\ Done <= next /\ next \in Nat
<1>0. /\ base \in Nat /\ next \in Nat /\ address \in Nat /\ in \in Nat /\ i \in Nat
      /\ base + address + in = next
      /\ pc = "rotate" => i \in 1 .. in
  BY DEF TypeInv, TypeOK, Positions
<1> QED
  BY <1>0 DEF Done

\* It follows from what the log promises.
LEMMA InOrderWrite ==
  ASSUME TypeInv, InOrder, Behind, Log!Write
  PROVE  InOrder' /\ Behind'
<1> PICK n \in 1 .. next - Done :
      kept' = kept \o [k \in 1 .. n |-> Done + k] /\ Done' = Done + n
  BY DEF Log!Write
<1> DEFINE t == [k \in 1 .. n |-> Done + k]
<1>1. n \in Nat /\ Done \in Nat /\ next \in Nat
  BY DoneType
<1>2. kept \in Seq(Nat) /\ Len(kept) \in Nat /\ \A k \in 1 .. Len(kept) : kept[k] \in Nat
  <2>1. kept \in Seq(1 .. Bytes)
    BY DEF TypeInv, TypeOK
  <2>2. kept \in [1 .. Len(kept) -> 1 .. Bytes] /\ Len(kept) \in Nat
    BY <2>1, LenProperties
  <2>3. \A k \in 1 .. Len(kept) : kept[k] \in Nat
    BY <2>2
  <2>4. kept = [k \in 1 .. Len(kept) |-> kept[k]]
    BY <2>2
  <2> QED
    BY <2>1, <2>2, <2>3, <2>4
<1>3. t \in Seq(Nat) /\ Len(t) = n /\ \A k \in 1 .. n : t[k] = Done + k
  BY <1>1
<1> HIDE DEF t
<1>4. /\ Len(kept') = Len(kept) + n
      /\ \A k \in 1 .. Len(kept) + n :
           kept'[k] = IF k <= Len(kept) THEN kept[k] ELSE t[k - Len(kept)]
  BY <1>2, <1>3, ConcatProperties DEF t
<1>5. ASSUME NEW k \in 1 .. Len(kept'), k <= Len(kept)
      PROVE  kept'[k] = kept[k] /\ k \in 1 .. Len(kept)
  BY <1>1, <1>2, <1>4, <1>5
<1>6. ASSUME NEW k \in 1 .. Len(kept'), ~ (k <= Len(kept))
      PROVE  kept'[k] = Done + (k - Len(kept)) /\ k - Len(kept) \in 1 .. n
  <2>1. k - Len(kept) \in 1 .. n
    BY <1>1, <1>2, <1>4, <1>6
  <2> QED
    BY <1>3, <1>4, <1>6, <2>1
<1>7. Behind'
  <2> SUFFICES ASSUME NEW k \in 1 .. Len(kept') PROVE kept'[k] <= Done + n
    BY DEF Behind
  <2>1. CASE k <= Len(kept)
    <3>1. kept'[k] = kept[k] /\ k \in 1 .. Len(kept)
      BY <1>5, <2>1
    <3>2. kept[k] <= Done /\ kept[k] \in Nat
      BY <1>2, <3>1 DEF Behind
    <3> QED
      BY <1>1, <3>1, <3>2
  <2>2. CASE ~ (k <= Len(kept))
    <3>1. kept'[k] = Done + (k - Len(kept)) /\ k - Len(kept) \in 1 .. n
      BY <1>6, <2>2
    <3> QED
      BY <1>1, <1>2, <3>1
  <2> QED
    BY <2>1, <2>2
<1>8. InOrder'
  <2> SUFFICES ASSUME NEW j \in 1 .. Len(kept'), NEW k \in 1 .. Len(kept'), j < k
               PROVE  kept'[j] < kept'[k]
    BY DEF InOrder
  <2>0. j \in Nat /\ k \in Nat
    BY <1>1, <1>2, <1>4
  <2>1. CASE k <= Len(kept)
    <3>1. j <= Len(kept)
      BY <1>2, <2>0, <2>1
    <3> QED
      BY <1>5, <2>1, <3>1 DEF InOrder
  <2>2. CASE j <= Len(kept) /\ ~ (k <= Len(kept))
    <3>1. kept'[j] = kept[j] /\ j \in 1 .. Len(kept)
      BY <1>5, <2>2
    <3>2. kept[j] <= Done /\ kept[j] \in Nat
      BY <1>2, <3>1 DEF Behind
    <3>3. kept'[k] = Done + (k - Len(kept)) /\ k - Len(kept) \in 1 .. n
      BY <1>6, <2>2
    <3> QED
      BY <1>1, <1>2, <3>1, <3>2, <3>3
  <2>3. CASE ~ (j <= Len(kept)) /\ ~ (k <= Len(kept))
    <3>1. /\ kept'[j] = Done + (j - Len(kept)) /\ kept'[k] = Done + (k - Len(kept))
      BY <1>6, <2>3
    <3> QED
      BY <1>1, <1>2, <2>0, <3>1
  <2>4. k <= Len(kept) \/ (j <= Len(kept) /\ ~ (k <= Len(kept)))
        \/ (~ (j <= Len(kept)) /\ ~ (k <= Len(kept)))
    OBVIOUS
  <2> QED
    BY <2>1, <2>2, <2>3, <2>4
<1> QED
  BY <1>7, <1>8

LEMMA InOrderNext ==
  TypeInv /\ Present /\ InOrder /\ Behind /\ [Next]_vars => InOrder' /\ Behind'
<1> SUFFICES ASSUME TypeInv, Present, InOrder, Behind, [Next]_vars
             PROVE  InOrder' /\ Behind'
  OBVIOUS
<1>1. CASE Log!Write
  BY <1>1, InOrderWrite
<1>2. CASE ~ Log!Write
  <2>1. kept' = kept /\ (Done' = Done \/ Done' \in Done .. next \/ Done' = next)
    BY <1>2, LogNext DEF Log!Next, Log!Read, Log!Rotate, Log!Fail, Log!Close, Log!vars
  <2>2. Done <= Done' /\ Done' \in Nat
    BY <2>1, DoneType
  <2>3. \A k \in 1 .. Len(kept) : kept[k] \in Nat
    <3>1. kept \in [1 .. Len(kept) -> 1 .. Bytes] /\ Len(kept) \in Nat
      BY LenProperties DEF TypeInv, TypeOK
    <3> QED
      BY <3>1
  <2>4. \A k \in 1 .. Len(kept) : kept[k] <= Done'
    BY <2>2, <2>3, DoneType DEF Behind
  <2> QED
    BY <2>1, <2>4 DEF InOrder, Behind
<1> QED
  BY <1>1, <1>2

\* InOrder: whatever fails, no byte of the output is in the files twice, or out of
\* its place.
THEOREM InOrderCorrect == Spec => []InOrder
<1>1. Init => Present /\ InOrder /\ Behind
  BY DEF Init, Present, InOrder, Behind
<1> QED
  BY <1>1, TypeInit, TypeNext, PresentNext, InOrderNext, PTL DEF Spec

=============================================================================
