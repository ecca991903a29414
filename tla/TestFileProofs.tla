---------------------------- MODULE TestFileProofs ----------------------------
(* Proofs about TestFile, for every number of clients and of blocks.          *)
EXTENDS TestFile, WellFoundedInduction, TLAPS

-----------------------------------------------------------------------------
(* The inductive invariant.                                                   *)

Late == {"recheck", "resize", "measure", "open", "read", "ended"}

(* A generation under way at the place the name stands for.                   *)
Generates(c) ==
  /\ pc[c] = "write" /\ dir = ino[c]
  /\ 1..off[c] \subseteq file[dir] /\ file[dir] \subseteq 1..NumBlocks

(* The name stands for a whole file, or a generation will see to it, unless   *)
(* nobody has generated anything yet.                                         *)
Whole == dir # "none" /\ file[dir] = 1..NumBlocks
Untouched ==
  /\ \A c \in Clients : pc[c] \notin Late \cup {"write"}
  /\ dir # "none" => \E n \in 0..NumBlocks + 1 : file[dir] = 1..n
Sound ==
  \/ damage \/ Whole \/ Untouched
  \/ \E c \in Clients : pc[c] = "create" \/ Generates(c)

(* Where the three code bases can be at all.                                  *)
Places ==
  \A c \in Clients :
    /\ pc[c] = "check" => kind # "tcp"
    /\ pc[c] \in {"exists", "size", "remove"} => kind = "tcp"
    /\ pc[c] \in {"write", "read"} => ino[c] # "none"
    /\ pc[c] \in {"idle", "check", "exists", "size", "remove", "create"} => off[c] = 0
    /\ pc[c] \notin {"read", "ended", "killed"} => nread[c] = 0
    /\ pc[c] = "recheck" => kind = "tcp"
    /\ pc[c] = "resize" => kind # "common"
    /\ pc[c] = "measure" => kind = "common"

(* RightSize, in terms of what is in the file.                                *)
Right == dir # "none" /\ NumBlocks \in file[dir] /\ NumBlocks + 1 \notin file[dir]

(* What a client knows of a file that no other one takes away or truncates.   *)
Undisturbed(c) ==
  /\ pc[c] # "failed"
  /\ pc[c] = "size" => dir # "none"
  /\ pc[c] = "write" => Generates(c)
  /\ pc[c] \in {"recheck", "resize", "measure", "open", "read"} => Right
  /\ pc[c] = "read" =>
       ino[c] = dir /\ fsize[c] = NumBlocks /\ nread[c] <= NumBlocks
  /\ pc[c] = "ended" => nread[c] = NumBlocks

IInv ==
  /\ TypeOK /\ Places /\ Sound
  /\ \A c \in Clients \ disturbed : Undisturbed(c)

-----------------------------------------------------------------------------
(* The size of a file.                                                        *)
LEMMA Greatest ==
  ASSUME NEW n \in Nat, NEW S \in SUBSET (1..n), S # {}
  PROVE  \E x \in S : \A y \in S : x >= y
<1> DEFINE T == {k \in Nat : n - k \in S}
<1>1. T \in SUBSET Nat /\ T # {}
  <2>1. PICK x \in S : TRUE
    OBVIOUS
  <2>2. n - x \in Nat /\ n - (n - x) = x
    BY <2>1
  <2>3. QED
    BY <2>1, <2>2
<1> HIDE DEF T
<1>2. PICK k \in T : \A l \in T : ~(<<l, k>> \in OpToRel(<, Nat))
  BY <1>1, NatLessThanWellFounded, WFMin
<1>3. k \in Nat /\ n - k \in S
  BY <1>2 DEF T
<1>4. ASSUME NEW y \in S
      PROVE  n - k >= y
  <2>1. n - y \in Nat /\ n - (n - y) = y
    OBVIOUS
  <2>2. n - y \in T
    BY <2>1 DEF T
  <2>3. ~(n - y < k)
    BY <1>2, <1>3, <2>1, <2>2 DEF OpToRel
  <2>4. QED
    BY <1>3, <2>1, <2>3
<1>5. QED
  BY <1>3, <1>4

LEMMA SizeOfBlocks ==
  ASSUME NEW S \in SUBSET (1..NumBlocks + 1)
  PROVE  LET size == IF S = {} THEN 0 ELSE Max(S)
         IN  /\ size \in 0..NumBlocks + 1
             /\ size = NumBlocks <=> NumBlocks \in S /\ NumBlocks + 1 \notin S
<1>1. NumBlocks \in Nat /\ NumBlocks > 0
  BY NumBlocksAssumption
<1>2. CASE S = {}
  BY <1>1, <1>2
<1>3. CASE S # {}
  <2>1. \E x \in S : \A y \in S : x >= y
    <3>1. NumBlocks + 1 \in Nat
      BY <1>1
    <3>2. QED
      BY <1>3, <3>1, Greatest
  <2>2. Max(S) \in S /\ \A y \in S : Max(S) >= y
    BY <2>1 DEF Max
  <2> DEFINE max == Max(S)
  <2>3. max \in S /\ max \in 1..NumBlocks + 1 /\ \A y \in S : max >= y
    BY <2>2
  <2> HIDE DEF max
  <2>4. max \in 0..NumBlocks + 1 /\ (max = NumBlocks <=> NumBlocks \in S /\ NumBlocks + 1 \notin S)
    BY <1>1, <2>3
  <2>5. QED
    BY <1>3, <2>4 DEF max
<1>4. QED
  BY <1>2, <1>3

LEMMA Sizes ==
  ASSUME TypeOK
  PROVE  /\ \A f \in Files : Size(f) \in 0..NumBlocks + 1
         /\ dir # "none" => dir \in Files
         /\ RightSize <=> Right
         /\ Right => Size(dir) = NumBlocks
<1>1. ASSUME NEW f \in Files
      PROVE  /\ Size(f) \in 0..NumBlocks + 1
             /\ Size(f) = NumBlocks <=> NumBlocks \in file[f] /\ NumBlocks + 1 \notin file[f]
  BY SizeOfBlocks DEF TypeOK, Size
<1>2. dir # "none" => dir \in Files
  BY DEF TypeOK
<1>3. QED
  BY <1>1, <1>2 DEF RightSize, Right

-----------------------------------------------------------------------------
(* The steps, in groups that the same argument serves.                        *)

(* A look at the file that takes the client from one place to the next.       *)
LooksAt(c) ==
  \/ Starts(c) \/ Checks(c) \/ ChecksExists(c) \/ ChecksSize(c) \/ FinishesGeneration(c)
  \/ RechecksExists(c) \/ RechecksSize(c) \/ Measures(c) \/ ReadsEnd(c)
StepOf(c) ==
  \/ LooksAt(c) \/ Removes(c) \/ Creates(c) \/ Writes(c) \/ GenerationFails(c)
  \/ Opens(c) \/ Reads(c) \/ Killed(c)

(* Where a look leads.                                                        *)
Arrives(c) ==
  \/ pc[c] = "idle" /\ pc'[c] \in {"exists", "check"} /\ (pc'[c] = "exists" <=> kind = "tcp")
  \/ pc[c] \in {"check", "exists"} /\ pc'[c] = "create"
  \/ pc[c] = "check" /\ Right /\ pc'[c] = IF kind = "common" THEN "measure" ELSE "resize"
  \/ pc[c] = "exists" /\ dir # "none" /\ pc'[c] = "size"
  \/ pc[c] = "size" /\ Right /\ pc'[c] = "recheck"
  \/ pc[c] = "size" /\ dir # "none" /\ pc'[c] = "remove"
  \/ /\ pc[c] = "write" /\ off[c] = NumBlocks
     /\ pc'[c] = CASE kind = "common" -> "measure"
                   [] kind = "tcp" -> "recheck"
                   [] kind = "go" -> "resize"
  \/ pc[c] = "recheck" /\ pc'[c] = "resize"
  \/ pc[c] \in {"resize", "measure"} /\ pc'[c] = "open"
  \/ pc[c] = "size" /\ dir = "none" /\ pc'[c] = "failed"
  \/ pc[c] \in {"recheck", "resize", "measure"} /\ ~Right /\ pc'[c] = "failed"
  \/ pc[c] = "read" /\ ~MoreToRead(c) /\ pc'[c] = "ended"

LEMMA Looking ==
  ASSUME TypeOK, Places, NEW c \in Clients, LooksAt(c)
  PROVE  /\ Arrives(c)
         /\ pc' = [pc EXCEPT ![c] = pc'[c]]
         /\ UNCHANGED <<kind, dir, file, ino, off, fsize, nread, damage, disturbed>>
<1> USE DEF fileVars, history, Goes, Arrives
<1>1. /\ RightSize <=> Right
      /\ Right => dir # "none"
      /\ kind \in {"common", "tcp", "go"}
      /\ pc[c] = "check" => kind # "tcp"
  BY Sizes DEF TypeOK, Places, Right
<1>2. /\ UNCHANGED <<kind, dir, file, ino, off, fsize, nread, damage, disturbed>>
      /\ pc' = [pc EXCEPT ![c] = pc'[c]]
  BY DEF LooksAt, Starts, Checks, ChecksExists, ChecksSize, FinishesGeneration,
     RechecksExists, RechecksSize, Measures, ReadsEnd, TypeOK
<1>3. Arrives(c)
  <2>1. CASE Starts(c) \/ Checks(c) \/ ChecksExists(c)
    BY <1>1, <2>1 DEF Starts, Checks, ChecksExists, TypeOK
  <2>2. CASE ChecksSize(c) \/ FinishesGeneration(c)
    BY <1>1, <2>2 DEF ChecksSize, FinishesGeneration, TypeOK
  <2>3. CASE RechecksExists(c) \/ RechecksSize(c) \/ Measures(c) \/ ReadsEnd(c)
    BY <1>1, <2>3 DEF RechecksExists, RechecksSize, Measures, ReadsEnd, TypeOK
  <2>4. QED
    BY <2>1, <2>2, <2>3 DEF LooksAt
<1>4. QED
  BY <1>2, <1>3

-----------------------------------------------------------------------------
LEMMA Start == Init => IInv
<1> SUFFICES ASSUME Init PROVE IInv
  OBVIOUS
<1>1. PICK n \in 0..NumBlocks + 1 :
        file = [f \in Files |-> IF f = "old" THEN 1..n ELSE {}]
  BY DEF Init
<1>2. 1..n \subseteq 1..NumBlocks + 1 /\ 0 \in 0..NumBlocks /\ 0 \in 0..NumBlocks + 1
  BY NumBlocksAssumption
<1>3. file \in [Files -> SUBSET (1..NumBlocks + 1)] /\ file["old"] = 1..n
  BY <1>1, <1>2 DEF Files
<1>4. TypeOK
  BY <1>2, <1>3 DEF Init, TypeOK, Files, Generating, Over
<1>5. Places /\ \A c \in Clients : Undisturbed(c)
  BY DEF Init, Places, Undisturbed
<1>6. Untouched
  BY <1>3 DEF Init, Untouched, Late
<1>7. QED
  BY <1>4, <1>5, <1>6 DEF IInv, Sound

LEMMA TypeStep ==
  ASSUME TypeOK, Places, NEW c \in Clients, StepOf(c)
  PROVE  TypeOK'
<1> DEFINE All == {"idle", "check", "exists", "size", "remove", "recheck", "resize",
                   "measure", "open", "read", "create", "write",
                   "ended", "failed", "gave_up", "killed"}
<1> USE DEF fileVars, history, Goes, Disturbs, Generating, Over
<1>1. CASE LooksAt(c)
  <2>1. pc'[c] \in All
    BY <1>1, Looking DEF Arrives, TypeOK
  <2>2. pc' = [pc EXCEPT ![c] = pc'[c]]
    BY <1>1, Looking
  <2>3. pc' \in [Clients -> All]
    BY <2>1, <2>2 DEF TypeOK
  <2>4. QED
    BY <1>1, <2>3, Looking DEF TypeOK
<1>2. CASE Removes(c) \/ GenerationFails(c) \/ Killed(c)
  BY <1>2 DEF Removes, GenerationFails, Killed, TypeOK
<1>3. CASE Creates(c)
  <2>1. (IF dir = "none" THEN c ELSE dir) \in Files
    BY Sizes DEF Files
  <2>2. QED
    BY <1>3, <2>1 DEF Creates, TypeOK
<1>4. CASE Writes(c)
  <2>1. off[c] + 1 \in 0..NumBlocks /\ off[c] + 1 \in 1..NumBlocks + 1
    BY <1>4, NumBlocksAssumption DEF Writes, TypeOK
  <2>2. QED
    BY <1>4, <2>1 DEF Writes, TypeOK
<1>5. CASE Opens(c)
  BY <1>5, Sizes DEF Opens, TypeOK
<1>6. CASE Reads(c)
  <2>1. ino[c] \in Files
    BY <1>6 DEF Reads, Places, TypeOK
  <2>2. nread[c] + 1 \in 0..NumBlocks + 1
    BY <1>6, <2>1, Sizes, NumBlocksAssumption DEF Reads, MoreToRead, TypeOK
  <2>3. QED
    BY <1>6, <2>2 DEF Reads, TypeOK
<1>7. QED
  BY <1>1, <1>2, <1>3, <1>4, <1>5, <1>6 DEF StepOf

LEMMA PlacesStep ==
  ASSUME TypeOK, Places, NEW c \in Clients, StepOf(c)
  PROVE  Places'
<1> USE DEF fileVars, history, Goes, Disturbs, Generating, Over, Places
<1>1. CASE LooksAt(c)
  <2>1. /\ Arrives(c) /\ pc' = [pc EXCEPT ![c] = pc'[c]]
        /\ UNCHANGED <<kind, ino, off, nread>>
    BY <1>1, Looking
  <2>2. \A d \in Clients \ {c} : pc'[d] = pc[d]
    BY <2>1 DEF TypeOK
  <2>3. kind \in {"common", "tcp", "go"}
    BY DEF TypeOK
  <2>4. QED
    BY <2>1, <2>2, <2>3 DEF Arrives
<1>2. CASE Removes(c) \/ GenerationFails(c) \/ Killed(c)
  BY <1>2 DEF Removes, GenerationFails, Killed, TypeOK
<1>3. CASE Creates(c)
  <2>1. (IF dir = "none" THEN c ELSE dir) # "none"
    BY NamesAssumption
  <2>2. QED
    BY <1>3, <2>1 DEF Creates, TypeOK
<1>4. CASE Writes(c)
  BY <1>4 DEF Writes, TypeOK
<1>5. CASE Opens(c)
  BY <1>5 DEF Opens, TypeOK
<1>6. CASE Reads(c)
  BY <1>6 DEF Reads, TypeOK
<1>7. QED
  BY <1>1, <1>2, <1>3, <1>4, <1>5, <1>6 DEF StepOf

-----------------------------------------------------------------------------
(* A block more of a file that one writes to.                                 *)
LEMMA BlockWritten ==
  ASSUME TypeOK, Places, NEW c \in Clients, Writes(c)
  PROVE  /\ off[c] + 1 \in 1..NumBlocks /\ off'[c] = off[c] + 1 /\ ino[c] \in Files
         /\ \A f \in Files : file'[f] = file[f] \cup (IF f = ino[c] THEN {off[c] + 1} ELSE {})
         /\ \A d \in Clients \ {c} : off'[d] = off[d]
         /\ UNCHANGED <<kind, dir, pc, ino, fsize, nread, damage, disturbed>>
<1>1. off[c] + 1 \in 1..NumBlocks
  BY NumBlocksAssumption DEF Writes, TypeOK
<1>2. QED
  BY <1>1 DEF Writes, TypeOK, Places, history

LEMMA SoundStep ==
  ASSUME TypeOK, Places, Sound, NEW c \in Clients, StepOf(c)
  PROVE  Sound'
<1> SUFFICES ASSUME ~damage'
             PROVE  Sound'
  BY DEF Sound
<1> USE DEF fileVars, history, Goes, Generating
<1>1. CASE Creates(c)
  <2>1. off[c] = 0
    BY <1>1 DEF Creates, Places
  <2>2. (IF dir = "none" THEN c ELSE dir) \in Files
    BY Sizes DEF Files
  <2>3. pc'[c] = "write" /\ ino'[c] = dir' /\ file'[dir'] = {} /\ off'[c] = 0
    BY <1>1, <2>1, <2>2 DEF Creates, TypeOK
  <2>4. QED
    BY <2>3 DEF Sound, Generates
<1>2. CASE Removes(c)
  BY <1>2 DEF Removes, Sound, TypeOK
<1>3. CASE GenerationFails(c)
  BY <1>3 DEF GenerationFails
<1>4. CASE Killed(c) \/ Opens(c) \/ Reads(c)
  <2>1. /\ UNCHANGED <<dir, file, off>> /\ ~damage
        /\ pc[c] \notin {"create", "write"} /\ pc'[c] \notin {"create", "write"}
        /\ pc'[c] \in Late => pc[c] \in Late
        /\ \A d \in Clients \ {c} : pc'[d] = pc[d] /\ ino'[d] = ino[d]
    BY <1>4 DEF Killed, Opens, Reads, TypeOK, Late
  <2>2. QED
    BY <2>1 DEF Sound, Whole, Untouched, Generates
<1>5. CASE Writes(c)
  <2>1. /\ off[c] + 1 \in 1..NumBlocks /\ off'[c] = off[c] + 1
        /\ dir # "none" => file'[dir] = file[dir] \cup (IF dir = ino[c] THEN {off[c] + 1} ELSE {})
        /\ \A d \in Clients \ {c} : off'[d] = off[d]
        /\ UNCHANGED <<dir, pc, ino, damage>>
    BY <1>5, BlockWritten, Sizes
  <2>2. pc[c] = "write" /\ off[c] \in Nat /\ \A d \in Clients : pc[d] = "write" => ino[d] # "none"
    BY <1>5, NumBlocksAssumption DEF Writes, TypeOK, Places
  <2>3. ~Untouched
    BY <2>2 DEF Untouched
  <2>4. CASE Whole
    BY <2>1, <2>4 DEF Sound, Whole
  <2>5. ASSUME NEW d \in Clients, pc[d] = "create" \/ Generates(d)
        PROVE  (pc[d] = "create" \/ Generates(d))'
    <3>1. CASE d = c
      BY <2>1, <2>2, <2>5, <3>1 DEF Generates
    <3>2. CASE d # c
      BY <2>1, <2>2, <2>5, <3>2 DEF Generates
    <3>3. QED
      BY <3>1, <3>2
  <2>6. QED
    BY <2>1, <2>3, <2>4, <2>5 DEF Sound
<1>6. CASE LooksAt(c)
  <2>1. /\ Arrives(c) /\ UNCHANGED <<dir, file, ino, off, damage>>
        /\ \A d \in Clients \ {c} : pc'[d] = pc[d]
    BY <1>6, Looking DEF TypeOK
  <2>2. CASE Whole
    BY <2>1, <2>2 DEF Whole, Sound
  <2>3. CASE Untouched
    <3>1. Right => Whole
      BY <2>3, NumBlocksAssumption DEF Right, Untouched, Whole
    <3>2. CASE pc'[c] = "create"
      BY <3>2 DEF Sound
    <3>3. CASE pc'[c] \notin Late \cup {"create"}
      BY <2>1, <2>3, <3>3 DEF Untouched, Sound, Arrives
    <3>4. CASE pc'[c] \in Late
      BY <2>1, <2>2, <2>3, <3>1, <3>4 DEF Untouched, Arrives, Late
    <3>5. QED
      BY <3>2, <3>3, <3>4
  <2>4. ASSUME NEW d \in Clients, pc[d] = "create" \/ Generates(d)
        PROVE  Sound'
    <3>1. CASE d = c
      BY <2>1, <2>2, <2>4, <3>1, NumBlocksAssumption
      DEF Generates, Arrives, Whole, Places
    <3>2. CASE d # c
      BY <2>1, <2>4, <3>2 DEF Generates, Sound
    <3>3. QED
      BY <3>1, <3>2
  <2>5. QED
    BY <2>1, <2>2, <2>3, <2>4 DEF Sound
<1>7. QED
  BY <1>1, <1>2, <1>3, <1>4, <1>5, <1>6 DEF StepOf

(* What the others do to a client they do not disturb.                        *)
LEMMA Spared ==
  ASSUME TypeOK, Places, NEW c \in Clients, StepOf(c), NEW d \in Clients \ disturbed', d # c
  PROVE  /\ d \notin disturbed
         /\ UNCHANGED <<pc[d], ino[d], off[d], fsize[d], nread[d]>>
         /\ Running(d) => /\ dir' = dir
                          /\ dir # "none" => /\ file[dir] \subseteq file'[dir]
                                             /\ file'[dir] \subseteq file[dir] \cup 1..NumBlocks
<1> USE DEF fileVars, history, Goes, Disturbs, Running, Over
<1>1. CASE LooksAt(c)
  BY <1>1, Looking DEF TypeOK
<1>2. CASE Removes(c)
  BY <1>2 DEF Removes, TypeOK
<1>3. CASE Creates(c)
  BY <1>3 DEF Creates, TypeOK
<1>4. CASE Writes(c)
  BY <1>4, BlockWritten, Sizes
<1>5. CASE GenerationFails(c)
  BY <1>5 DEF GenerationFails, TypeOK
<1>6. CASE Opens(c) \/ Reads(c) \/ Killed(c)
  BY <1>6 DEF Opens, Reads, Killed, TypeOK
<1>7. QED
  BY <1>1, <1>2, <1>3, <1>4, <1>5, <1>6 DEF StepOf

LEMMA UndisturbedStep ==
  ASSUME IInv, NEW c \in Clients, StepOf(c), NEW d \in Clients \ disturbed'
  PROVE  Undisturbed(d)'
<1>0. TypeOK /\ Places
  BY DEF IInv
<1>1. CASE d # c
  <2>1. /\ Undisturbed(d)
        /\ UNCHANGED <<pc[d], ino[d], off[d], fsize[d], nread[d]>>
        /\ Running(d) => /\ dir' = dir
                         /\ dir # "none" => /\ file[dir] \subseteq file'[dir]
                                            /\ file'[dir] \subseteq file[dir] \cup 1..NumBlocks
    BY <1>0, <1>1, Spared DEF IInv
  <2>2. CASE Running(d)
    <3>1. Generates(d) => Generates(d)'
      BY <1>0, <2>1, <2>2 DEF Generates, Places
    <3>2. Right => Right'
      BY <2>1, <2>2, NumBlocksAssumption DEF Right
    <3>3. QED
      BY <2>1, <2>2, <3>1, <3>2 DEF Undisturbed
  <2>3. CASE ~Running(d)
    BY <2>1, <2>3 DEF Undisturbed, Running, Over
  <2>4. QED
    BY <2>2, <2>3
<1>2. CASE d = c
  <2> USE DEF fileVars, history, Goes, Disturbs, Undisturbed
  <2>1. Undisturbed(c)
    <3>1. c \notin disturbed
      BY <1>0, <1>2, Looking
      DEF StepOf, Removes, Creates, Writes, GenerationFails, Opens, Reads, Killed
    <3>2. QED
      BY <3>1 DEF IInv
  <2>2. CASE LooksAt(c)
    <3>1. Arrives(c) /\ UNCHANGED <<kind, dir, file, ino, off, fsize, nread>>
      BY <1>0, <2>2, Looking
    <3>2. Right' <=> Right
      BY <3>1 DEF Right
    <3>3. CASE pc[c] = "write"
      <4>1. Right
        BY <1>0, <2>1, <3>1, <3>3, NumBlocksAssumption DEF Arrives, Generates, Places, Right
      <4>2. pc'[c] \in {"recheck", "resize", "measure"}
        BY <1>0, <3>1, <3>3 DEF Arrives, TypeOK
      <4>3. QED
        BY <1>2, <3>2, <4>1, <4>2
    <3>4. CASE pc[c] = "read"
      BY <1>0, <1>2, <2>1, <3>1, <3>4, Sizes, NumBlocksAssumption
      DEF Arrives, MoreToRead, TypeOK
    <3>5. CASE pc[c] \notin {"write", "read"}
      BY <1>2, <2>1, <3>1, <3>2, <3>5 DEF Arrives
    <3>6. QED
      BY <3>3, <3>4, <3>5
  <2>3. CASE Removes(c) \/ GenerationFails(c) \/ Killed(c)
    BY <1>0, <1>2, <2>3 DEF Removes, GenerationFails, Killed, TypeOK
  <2>4. CASE Creates(c)
    <3>1. off[c] = 0 /\ (IF dir = "none" THEN c ELSE dir) \in Files
      BY <1>0, <2>4, Sizes DEF Creates, Places, Files
    <3>2. pc'[c] = "write" /\ ino'[c] = dir' /\ file'[dir'] = {} /\ off'[c] = 0
      BY <1>0, <2>4, <3>1 DEF Creates, TypeOK
    <3>3. QED
      BY <1>2, <3>2 DEF Generates
  <2>5. CASE Writes(c)
    <3>1. pc[c] = "write" /\ off[c] \in Nat /\ ino[c] # "none"
      BY <1>0, <2>5, NumBlocksAssumption DEF Writes, TypeOK, Places
    <3>2. Generates(c)'
      BY <1>0, <2>1, <2>5, <3>1, BlockWritten, Sizes DEF Generates
    <3>3. QED
      BY <1>0, <1>2, <2>5, <3>1, <3>2, BlockWritten
  <2>6. CASE Opens(c)
    <3>1. Right /\ Size(dir) = NumBlocks /\ nread[c] = 0
      BY <1>0, <2>1, <2>6, Sizes DEF Opens, Places
    <3>2. /\ pc'[c] = "read" /\ ino'[c] = dir /\ fsize'[c] = NumBlocks /\ nread'[c] = 0
          /\ UNCHANGED <<dir, file>>
      BY <1>0, <2>6, <3>1 DEF Opens, Right, TypeOK
    <3>3. QED
      BY <1>2, <3>1, <3>2, NumBlocksAssumption DEF Right
  <2>7. CASE Reads(c)
    <3>1. nread[c] + 1 <= NumBlocks /\ nread'[c] = nread[c] + 1
      BY <1>0, <2>1, <2>7, Sizes, NumBlocksAssumption DEF Reads, MoreToRead, TypeOK
    <3>2. QED
      BY <1>2, <2>1, <2>7, <3>1 DEF Reads, Right
  <2>8. QED
    BY <2>2, <2>3, <2>4, <2>5, <2>6, <2>7 DEF StepOf
<1>3. QED
  BY <1>1, <1>2

LEMMA Step == IInv /\ [Next]_vars => IInv'
<1> SUFFICES ASSUME IInv, [Next]_vars PROVE IInv'
  OBVIOUS
<1>1. ASSUME NEW c \in Clients, StepOf(c)
      PROVE  IInv'
  BY <1>1, TypeStep, PlacesStep, SoundStep, UndisturbedStep DEF IInv
<1>2. CASE UNCHANGED vars
  BY <1>2 DEF vars, fileVars, clientVars, history, IInv, TypeOK, Places, Sound, Whole, Untouched,
     Generates, Undisturbed, Right
<1>3. QED
  BY <1>1, <1>2 DEF Next, Ended, StepOf, LooksAt

LEMMA Invariance == Spec => []IInv
BY Start, Step, PTL DEF Spec

-----------------------------------------------------------------------------
(* What is proved of the clients that share a test file.                      *)

(* Every variable stays in its type: a generation never writes past the       *)
(* configured size, and no reader returns more than the file ever held.       *)
THEOREM TypeCorrectness == Spec => []TypeOK
<1>1. IInv => TypeOK
  BY DEF IInv
<1>2. QED
  BY <1>1, Invariance, PTL

(* However many clients generate the file at once, in place (generate_file,   *)
(* GenerateFile) or after fs::remove (generate_test_file): when the last of   *)
(* them is over, the name stands for a whole file.                            *)
THEOREM GenerationsEndWhole == Spec => []QuietFileIsWhole
<1>1. IInv => QuietFileIsWhole
  BY DEF IInv, QuietFileIsWhole, Sound, Whole, Untouched, Generates, Generating, Late
<1>2. QED
  BY <1>1, Invariance, PTL

(* A client whose file no other one removes or truncates reads all of it,     *)
(* whatever has been left behind and whoever else writes to it.               *)
THEOREM UndisturbedAreServed == Spec => []UndisturbedReadsAll
<1>1. IInv => UndisturbedReadsAll
  BY DEF IInv, Undisturbed, UndisturbedReadsAll
<1>2. QED
  BY <1>1, Invariance, PTL
==============================================================================
