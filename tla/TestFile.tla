------------------------------ MODULE TestFile ------------------------------
(* Several clients of one benchmark on one machine, started at any time, that *)
(* share a test file: each checks its size, generates it if the size is       *)
(* wrong, and reads it to its end. Nothing locks the file. The three code     *)
(* bases differ in how they do it, so "kind" says whose clients these are:    *)
(* "common" (gRPC and Cap'n Proto), "tcp" (C++ TCP) or "go".                  *)
EXTENDS Integers, FiniteSets, FiniteSetsExt

CONSTANTS
  Clients,    \* client processes
  NumBlocks   \* blocks of a complete file; a block stands for what one call
              \* of write or of read moves

ASSUME NumBlocksAssumption == NumBlocks \in Nat \ {0}
(* "none" and "old" stand for files that no client creates.                   *)
ASSUME NamesAssumption == {"none", "old"} \cap Clients = {}

VARIABLES
  kind,       \* which code the clients run
  dir,        \* the file the name stands for, "none" if there is none
  file,       \* the blocks written of each file: a file has the size of the
              \* last one, and what is missing before it are holes
  pc,         \* what a client does next, or how it ended
  ino,        \* the file a client has open
  off,        \* blocks the client has generated
  fsize,      \* the size its ChunkReader measured
  nread,      \* blocks its ChunkReader returned
  damage,     \* history: a generation was cut short and no later one started
  disturbed   \* history: clients whose file another one removed or truncated
              \* while they ran

fileVars == <<dir, file>>
clientVars == <<pc, ino, off, fsize, nread>>
history == <<damage, disturbed>>
vars == <<kind, fileVars, clientVars, history>>

(* A file is created under the name of the client that creates it; "old" is   *)
(* what earlier runs, perhaps of another configuration, have left.            *)
Files == Clients \cup {"old"}

Size(f) == IF file[f] = {} THEN 0 ELSE Max(file[f])

(* Mutant: any file will do, whatever its size.                              *)
RightSize_ExistsOnly == dir # "none"

(* The comparison with the configured size; false too if there is no file.    *)
RightSize == dir # "none" /\ Size(dir) = NumBlocks

Generating == {"create", "write"}
Over == {"ended", "failed", "gave_up", "killed"}
Running(c) == pc[c] \notin Over \cup {"idle"}

Init ==
  /\ kind \in {"common", "tcp", "go"}
  /\ dir \in {"none", "old"}
  /\ \E n \in 0..NumBlocks + 1 :
        file = [f \in Files |-> IF f = "old" THEN 1..n ELSE {}]
  /\ pc = [c \in Clients |-> "idle"]
  /\ ino = [c \in Clients |-> "none"]
  /\ off = [c \in Clients |-> 0]
  /\ fsize = [c \in Clients |-> 0]
  /\ nread = [c \in Clients |-> 0]
  /\ damage = FALSE
  /\ disturbed = {}

Goes(c, place) == pc' = [pc EXCEPT ![c] = place]

(* What a client does to the name or to the length of the file disturbs all   *)
(* the others that are under way.                                             *)
Disturbs(c) == disturbed' = disturbed \cup {d \in Clients \ {c} : Running(d)}

-----------------------------------------------------------------------------
(* The check of the file that is there.                                       *)

Starts(c) ==
  /\ pc[c] = "idle"
  /\ Goes(c, IF kind = "tcp" THEN "exists" ELSE "check")
  /\ UNCHANGED <<kind, fileVars, ino, off, fsize, nread, history>>

(* One call gives existence and size; a wrong file is generated in place.     *)
Checks(c) ==
  /\ pc[c] = "check"
  /\ Goes(c, CASE ~RightSize -> "create"
               [] RightSize /\ kind = "common" -> "measure"
               [] RightSize /\ kind = "go" -> "resize")
  /\ UNCHANGED <<kind, fileVars, ino, off, fsize, nread, history>>

(* fs::exists, then fs::file_size, which throws if the file has gone.         *)
ChecksExists(c) ==
  /\ pc[c] = "exists"
  /\ Goes(c, IF dir = "none" THEN "create" ELSE "size")
  /\ UNCHANGED <<kind, fileVars, ino, off, fsize, nread, history>>

ChecksSize(c) ==
  /\ pc[c] = "size"
  /\ Goes(c, CASE dir = "none" -> "failed"
               [] RightSize -> "recheck"
               [] dir # "none" /\ ~RightSize -> "remove")
  /\ UNCHANGED <<kind, fileVars, ino, off, fsize, nread, history>>

(* fs::remove takes the name away; who has the file open keeps the file.      *)
Removes(c) ==
  /\ pc[c] = "remove"
  /\ dir' = "none"
  /\ Disturbs(c)
  /\ Goes(c, "create")
  /\ UNCHANGED <<kind, file, ino, off, fsize, nread, damage>>

-----------------------------------------------------------------------------
(* The generation.                                                            *)

(* Mutant: the file is opened for writing without being truncated.           *)
Creates_NoTruncation(c) ==
  /\ pc[c] = "create"
  /\ LET f == IF dir = "none" THEN c ELSE dir
     IN  dir' = f /\ ino' = [ino EXCEPT ![c] = f]
  /\ damage' = FALSE
  /\ Disturbs(c)
  /\ Goes(c, "write")
  /\ UNCHANGED <<kind, file, off, fsize, nread>>

(* Opening for writing creates the file or truncates the one that is there.   *)
Creates(c) ==
  /\ pc[c] = "create"
  /\ LET f == IF dir = "none" THEN c ELSE dir
     IN  /\ dir' = f
         /\ file' = [file EXCEPT ![f] = {}]
         /\ ino' = [ino EXCEPT ![c] = f]
  /\ damage' = FALSE
  /\ Disturbs(c)
  /\ Goes(c, "write")
  /\ UNCHANGED <<kind, off, fsize, nread>>

(* Mutant: one block too many.                                               *)
Writes_OneMore(c) ==
  /\ pc[c] = "write"
  /\ off[c] <= NumBlocks
  /\ off' = [off EXCEPT ![c] = @ + 1]
  /\ file' = [file EXCEPT ![ino[c]] = @ \cup {off[c] + 1}]
  /\ UNCHANGED <<kind, dir, pc, ino, fsize, nread, history>>

(* A write goes to the client's own position, whatever became of the file.    *)
Writes(c) ==
  /\ pc[c] = "write"
  /\ off[c] < NumBlocks
  /\ off' = [off EXCEPT ![c] = @ + 1]
  /\ file' = [file EXCEPT ![ino[c]] = @ \cup {off[c] + 1}]
  /\ UNCHANGED <<kind, dir, pc, ino, fsize, nread, history>>

FinishesGeneration(c) ==
  /\ pc[c] = "write"
  /\ off[c] = NumBlocks
  /\ Goes(c, CASE kind = "common" -> "measure"
               [] kind = "tcp" -> "recheck"
               [] kind = "go" -> "resize")
  /\ UNCHANGED <<kind, fileVars, ino, off, fsize, nread, history>>

(* The file cannot be opened or a write fails. The program ends; only the C++ *)
(* TCP client removes the partial file, by its name.                          *)
GenerationFails(c) ==
  /\ pc[c] \in Generating
  /\ off[c] < NumBlocks
  /\ damage' = TRUE
  /\ IF kind = "tcp" /\ pc[c] = "write"
       THEN dir' = "none" /\ Disturbs(c)
       ELSE UNCHANGED <<dir, disturbed>>
  /\ Goes(c, "gave_up")
  /\ UNCHANGED <<kind, file, ino, off, fsize, nread>>

-----------------------------------------------------------------------------
(* The second check of the TCP clients, and the ChunkReader.                  *)

RechecksExists(c) ==
  /\ pc[c] = "recheck"
  /\ Goes(c, IF dir = "none" THEN "failed" ELSE "resize")
  /\ UNCHANGED <<kind, fileVars, ino, off, fsize, nread, history>>

RechecksSize(c) ==
  /\ pc[c] = "resize"
  /\ Goes(c, IF RightSize THEN "open" ELSE "failed")
  /\ UNCHANGED <<kind, fileVars, ino, off, fsize, nread, history>>

(* get_file_size opens the file a first time and throws if it has gone.       *)
Measures(c) ==
  /\ pc[c] = "measure"
  /\ Goes(c, IF dir = "none" THEN "failed" ELSE "open")
  /\ UNCHANGED <<kind, fileVars, ino, off, fsize, nread, history>>

Opens(c) ==
  /\ pc[c] = "open"
  /\ IF dir = "none"
       THEN Goes(c, "failed") /\ UNCHANGED <<ino, fsize>>
       ELSE /\ ino' = [ino EXCEPT ![c] = dir]
            /\ fsize' = [fsize EXCEPT ![c] = Size(dir)]
            /\ Goes(c, "read")
  /\ UNCHANGED <<kind, fileVars, off, nread, history>>

(* The TCP clients stop at the size the reader measured, the common reader    *)
(* at the end of the file as it is now. A hole reads as zeros.                *)
MoreToRead(c) ==
  /\ nread[c] < Size(ino[c])
  /\ kind = "common" \/ nread[c] < fsize[c]

Reads(c) ==
  /\ pc[c] = "read"
  /\ MoreToRead(c)
  /\ nread' = [nread EXCEPT ![c] = @ + 1]
  /\ UNCHANGED <<kind, fileVars, pc, ino, off, fsize, history>>

ReadsEnd(c) ==
  /\ pc[c] = "read"
  /\ ~MoreToRead(c)
  /\ Goes(c, "ended")
  /\ UNCHANGED <<kind, fileVars, ino, off, fsize, nread, history>>

(* A client is interrupted.                                                   *)
Killed(c) ==
  /\ Running(c)
  /\ damage' = (damage \/ pc[c] \in Generating)
  /\ Goes(c, "killed")
  /\ UNCHANGED <<kind, fileVars, ino, off, fsize, nread, disturbed>>

Ended == (\A c \in Clients : pc[c] \in Over) /\ UNCHANGED vars

Next ==
  \/ \E c \in Clients :
       \/ Starts(c) \/ Checks(c) \/ ChecksExists(c) \/ ChecksSize(c)
       \/ Removes(c) \/ Creates(c) \/ Writes(c) \/ FinishesGeneration(c)
       \/ GenerationFails(c) \/ RechecksExists(c) \/ RechecksSize(c)
       \/ Measures(c) \/ Opens(c) \/ Reads(c) \/ ReadsEnd(c) \/ Killed(c)
  \/ Ended

Spec == Init /\ [][Next]_vars

-----------------------------------------------------------------------------
(* Every variable holds what the comments at its declaration say.             *)
TypeOK ==
  /\ kind \in {"common", "tcp", "go"}
  /\ dir \in Files \cup {"none"}
  /\ file \in [Files -> SUBSET (1..NumBlocks + 1)]
  /\ pc \in [Clients -> {"idle", "check", "exists", "size", "remove", "recheck",
                         "resize", "measure", "open", "read"}
                        \cup Generating \cup Over]
  /\ ino \in [Clients -> Files \cup {"none"}]
  /\ off \in [Clients -> 0..NumBlocks]
  /\ fsize \in [Clients -> 0..NumBlocks + 1]
  /\ nread \in [Clients -> 0..NumBlocks + 1]
  /\ damage \in BOOLEAN
  /\ disturbed \subseteq Clients

(* However the generations of several clients overlap, truncate each other's  *)
(* file, take its name away or write into what another has truncated: when    *)
(* the last of them is over, and the last to start was not followed by one    *)
(* cut short, the name stands for a file with every block and no hole.        *)
QuietFileIsWhole ==
  /\ \A c \in Clients : pc[c] \notin Generating \cup {"remove"}
  /\ \E c \in Clients : pc[c] \in {"recheck", "resize", "measure", "open",
                                   "read", "ended"}
  /\ ~damage
  => dir # "none" /\ file[dir] = 1..NumBlocks

(* Whatever earlier, killed or concurrent clients have left: a client whose   *)
(* file no other one removes or truncates while it runs reads all of it, and  *)
(* fails for no other reason than a generation of its own that fails.         *)
UndisturbedReadsAll == \A c \in Clients \ disturbed :
  /\ pc[c] # "failed"
  /\ pc[c] = "ended" => nread[c] = NumBlocks

(* What fs::remove takes away is "the old file", found to have a wrong size.  *)
(* The size was read in an earlier call, and the name may by then stand for   *)
(* the right file that another client has generated.                          *)
RemovesOldFile ==
  [][\A c \in Clients : pc[c] = "remove" /\ pc'[c] = "create" => ~RightSize]_vars

=============================================================================
