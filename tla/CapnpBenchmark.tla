--------------------------- MODULE CapnpBenchmark ---------------------------
(* The Cap'n Proto benchmark: client processes that make one call at a time   *)
(* and wait for it, and the server, one event loop that accepts connections   *)
(* and serves the calls of all of them. Each turn of the loop is an action.   *)
EXTENDS Chunks, FiniteSets

CONSTANTS
  Clients,    \* client processes
  NumChunks   \* chunks of the test file, all of them full

ASSUME NumChunksAssumption == NumChunks \in Nat \ {0}

VARIABLES
  cpc,       \* what the client waits for: a connection or the reply to a method
  chunk,     \* chunk_buffer
  nread,     \* full chunks the ChunkReader has returned
  failed,    \* the ChunkReader's stream has failed: no more chunks
  sent,      \* record_chunk_sent was called so many times
  verified,  \* numbers of the full chunks verified
  errors,    \* kinds of errors the metrics collector holds
  csv,       \* the files the metrics were saved to
  call,      \* the client's outstanding call
  reply,     \* the answer on its way to the client
  conn,      \* the client's connection, as the server sees it
  server     \* the server's process: "running" or "gone"

fileVars == <<chunk, nread, failed>>
clientVars == <<cpc, fileVars, sent, verified, errors, csv>>
serverVars == <<conn, server>>
vars == <<clientVars, call, reply, serverVars>>

(* The process of the client is no more.                                      *)
Gone == {"exited", "killed"}

Call(method, data) == [method |-> method, data |-> data]
Nothing == Call("none", << >>)
Failure == Call("exception", << >>)

Init ==
  /\ cpc = [c \in Clients |-> "connect"]
  /\ chunk = [c \in Clients |-> << >>]
  /\ nread = [c \in Clients |-> 0]
  /\ failed = [c \in Clients |-> FALSE]
  /\ sent = [c \in Clients |-> 0]
  /\ verified = [c \in Clients |-> << >>]
  /\ errors = [c \in Clients |-> {}]
  /\ csv = [c \in Clients |-> "none"]
  /\ call = [c \in Clients |-> Nothing]
  /\ reply = [c \in Clients |-> Nothing]
  /\ conn = [c \in Clients |-> "none"]
  /\ server = "running"

-----------------------------------------------------------------------------
(* What several steps of the client share.                                    *)

Logged(c, kinds) == [errors EXCEPT ![c] = @ \cup kinds]

(* main ends, saving the metrics on the way; its connection is closed.        *)
Ends(c, file, kinds) ==
  /\ cpc' = [cpc EXCEPT ![c] = "exited"]
  /\ csv' = [csv EXCEPT ![c] = file]
  /\ errors' = Logged(c, kinds)
  /\ UNCHANGED call

Sends(c, method, data) ==
  /\ call' = [call EXCEPT ![c] = Call(method, data)]
  /\ cpc' = [cpc EXCEPT ![c] = method]
  /\ UNCHANGED csv

(* next_chunk: a full chunk; nothing at the end, or when a read fails; or     *)
(* what a failing read got, which is followed by nothing.                     *)
NextChunks(c) ==
  LET n == nread[c] + 1 IN
  IF failed[c] \/ n > NumChunks THEN {<< >>}
  ELSE {Payload(n), SubSeq(Payload(n), 1, 1), << >>}

(* The loop from its top to the next call: processChunk for a chunk,          *)
(* doneStreaming at the end of the file.                                      *)
SendNext(c) ==
  \E data \in NextChunks(c) :
    LET full == Len(data) = 2 IN
    /\ chunk' = [chunk EXCEPT ![c] = data]
    /\ nread' = [nread EXCEPT ![c] = IF full THEN @ + 1 ELSE @]
    /\ failed' = [failed EXCEPT ![c] = ~full]
    /\ IF data = << >>
       THEN Sends(c, "done", << >>) /\ UNCHANGED sent
       ELSE Sends(c, "chunk", data) /\ sent' = [sent EXCEPT ![c] = @ + 1]

(* wait() returns the reply to the outstanding call.                          *)
Receives(c, method) ==
  /\ cpc[c] = method
  /\ reply[c].method = method
  /\ reply' = [reply EXCEPT ![c] = Nothing]

-----------------------------------------------------------------------------
(* The client.                                                                *)

(* connect, bootstrap and startStreaming; the connection is in the backlog.   *)
Connects(c) ==
  /\ cpc[c] = "connect"
  /\ server = "running"
  /\ conn' = [conn EXCEPT ![c] = "backlog"]
  /\ Sends(c, "start", << >>)
  /\ UNCHANGED <<fileVars, sent, verified, errors, reply, server>>

(* connect() throws, whether there is a server or not; so does wait() if the  *)
(* connection is gone or the method on the server threw: in each case a       *)
(* kj::Exception ends the client.                                             *)
ConnectThrows(c) ==
  /\ cpc[c] = "connect"
  /\ Ends(c, "kj_error", {"connect"})
  /\ UNCHANGED <<fileVars, sent, verified, reply, serverVars>>

(* Mutant: a lost connection goes unnoticed.                                  *)
WaitThrows_ReplyOnly(c) ==
  /\ cpc[c] \in {"start", "chunk", "done"}
  /\ reply[c] = Failure
  /\ Ends(c, "kj_error", {"remote"})
  /\ UNCHANGED <<fileVars, sent, verified, reply, serverVars>>

WaitThrows(c) ==
  /\ cpc[c] \in {"start", "chunk", "done"}
  /\ \/ /\ reply[c] = Failure
        /\ Ends(c, "kj_error", {"remote"})
     \/ /\ conn[c] \in {"closed", "broken"}
        /\ Ends(c, "kj_error", {"disconnected"})
  /\ UNCHANGED <<fileVars, sent, verified, reply, serverVars>>

GetsHandler(c) ==
  /\ Receives(c, "start")
  /\ SendNext(c)
  /\ UNCHANGED <<verified, errors, serverVars>>

(* The constructor of ChunkReader throws: a std::exception.                   *)
GetsHandlerNoFile(c) ==
  /\ Receives(c, "start")
  /\ Ends(c, "std_error", {"file"})
  /\ UNCHANGED <<fileVars, sent, verified, serverVars>>

(* Mutant: whatever was sent last counts as a chunk.                          *)
VerifiedChunks_CountsPartial(c) == Append(verified[c], nread[c])

(* The chunk just verified counts if it was a full one.                       *)
VerifiedChunks(c) ==
  IF chunk[c] = Payload(nread[c]) THEN Append(verified[c], nread[c])
                                  ELSE verified[c]

(* A verification that fails leaves the loop, which is ended in order.        *)
GetsChunk(c) ==
  /\ Receives(c, "chunk")
  /\ IF reply[c].data = Reversed(chunk[c])
     THEN /\ verified' = [verified EXCEPT ![c] = VerifiedChunks(c)]
          /\ SendNext(c)
          /\ UNCHANGED errors
     ELSE /\ errors' = Logged(c, {"mismatch"})
          /\ Sends(c, "done", << >>)
          /\ UNCHANGED <<fileVars, sent, verified>>
  /\ UNCHANGED serverVars

(* Mutant: they are not.                                                      *)
GetsDone_Unchecked(c) ==
  /\ Receives(c, "done")
  /\ Ends(c, "results", {})
  /\ UNCHANGED <<fileVars, sent, verified, serverVars>>

(* The bytes verified are compared with the size of the file.                 *)
GetsDone(c) ==
  /\ Receives(c, "done")
  /\ Ends(c, "results",
          IF Len(verified[c]) = NumChunks THEN {} ELSE {"not_all_verified"})
  /\ UNCHANGED <<fileVars, sent, verified, serverVars>>

(* The client's process is killed.                                            *)
ClientDies(c) ==
  /\ cpc[c] \notin Gone
  /\ cpc' = [cpc EXCEPT ![c] = "killed"]
  /\ UNCHANGED <<fileVars, sent, verified, errors, csv, call, reply,
                 serverVars>>

-----------------------------------------------------------------------------
(* The server's event loop.                                                   *)

(* accept() returns; the connection's task joins the TaskSet.                 *)
Accepts(c) ==
  /\ server = "running"
  /\ conn[c] = "backlog"
  /\ conn' = [conn EXCEPT ![c] = "served"]
  /\ UNCHANGED <<clientVars, call, reply, server>>

(* accept() throws: the loop is left, and with main the TaskSet and all the   *)
(* connections it holds are destroyed.                                        *)
AcceptThrows ==
  /\ server = "running"
  /\ server' = "gone"
  /\ conn' = [c \in Clients |->
                IF conn[c] \in {"backlog", "served"} THEN "closed" ELSE conn[c]]
  /\ UNCHANGED <<clientVars, call, reply>>

Answers(c, answer) ==
  /\ conn[c] = "served"
  /\ call[c] # Nothing
  /\ reply' = [reply EXCEPT ![c] = answer]
  /\ call' = [call EXCEPT ![c] = Nothing]
  /\ UNCHANGED <<clientVars, serverVars>>

StartStreaming(c) == call[c].method = "start" /\ Answers(c, Call("start", << >>))

ProcessChunk(c) ==
  call[c].method = "chunk" /\ Answers(c, Call("chunk", Reversed(call[c].data)))

(* processChunk rethrows: the RPC system sends the exception to the client.   *)
ProcessChunkThrows(c) == call[c].method = "chunk" /\ Answers(c, Failure)

DoneStreaming(c) == call[c].method = "done" /\ Answers(c, Call("done", << >>))

(* Mutant: the task ends only if the client has said doneStreaming.           *)
Disconnects_OnlyOrderly(c) ==
  /\ conn[c] = "served"
  /\ cpc[c] \in Gone /\ csv[c] = "results"
  /\ conn' = [conn EXCEPT ![c] = "closed"]
  /\ UNCHANGED <<clientVars, call, reply, server>>

(* onDisconnect resolves: the task ends.                                      *)
Disconnects(c) ==
  /\ conn[c] = "served"
  /\ cpc[c] \in Gone
  /\ conn' = [conn EXCEPT ![c] = "closed"]
  /\ UNCHANGED <<clientVars, call, reply, server>>

(* The network breaks the connection, with what it carried.                   *)
ConnectionBreaks(c) ==
  /\ conn[c] \in {"backlog", "served"}
  /\ conn' = [conn EXCEPT ![c] = "broken"]
  /\ call' = [call EXCEPT ![c] = Nothing]
  /\ reply' = [reply EXCEPT ![c] = Nothing]
  /\ UNCHANGED <<clientVars, server>>

-----------------------------------------------------------------------------
ClientStep(c) ==
  \/ Connects(c) \/ ConnectThrows(c) \/ WaitThrows(c) \/ GetsHandler(c)
  \/ GetsHandlerNoFile(c) \/ GetsChunk(c) \/ GetsDone(c)

ServerStep(c) ==
  \/ Accepts(c) \/ StartStreaming(c) \/ ProcessChunk(c) \/ DoneStreaming(c)
  \/ Disconnects(c)

Ended == (\A c \in Clients : cpc[c] \in Gone) /\ UNCHANGED vars

Next ==
  \/ \E c \in Clients :
       \/ ClientStep(c) \/ ServerStep(c)
       \/ ClientDies(c) \/ ProcessChunkThrows(c) \/ ConnectionBreaks(c)
  \/ AcceptThrows
  \/ Ended

Spec == Init /\ [][Next]_vars

(* Both ends run; nothing fails by necessity.                                 *)
LiveSpec ==
  Spec /\ \A c \in Clients : WF_vars(ClientStep(c)) /\ WF_vars(ServerStep(c))

-----------------------------------------------------------------------------
(* Properties.                                                                *)

Message ==
  [method : {"none", "exception", "start", "chunk", "done"}, data : Seq(Nat)]

(* Every variable stays in its type.                                          *)
TypeOK ==
  /\ cpc \in [Clients -> {"connect", "start", "chunk", "done",
                          "exited", "killed"}]
  /\ chunk \in [Clients -> Seq(Nat)]
  /\ nread \in [Clients -> 0..NumChunks]
  /\ failed \in [Clients -> BOOLEAN]
  /\ sent \in [Clients -> 0..NumChunks]
  /\ verified \in [Clients -> Seq(1..NumChunks)]
  /\ errors \in [Clients -> SUBSET {"connect", "remote", "disconnected", "file",
                                    "mismatch", "not_all_verified"}]
  /\ csv \in [Clients -> {"none", "results", "kj_error", "std_error"}]
  /\ call \in [Clients -> Message] /\ reply \in [Clients -> Message]
  /\ conn \in [Clients -> {"none", "backlog", "served", "closed", "broken"}]
  /\ server \in {"running", "gone"}

Succeeded(c) == csv[c] = "results" /\ errors[c] = {}

(* A client that ends without having verified the whole file has an error in  *)
(* its summary, whichever way it took.                                        *)
NoSilentFailure ==
  \A c \in Clients :
    cpc[c] = "exited" =>
      (errors[c] = {} <=> verified[c] = [i \in 1..NumChunks |-> i] /\ csv[c] = "results")

(* A client loses its connection only with the network or with the server:    *)
(* the sessions of the one event loop do not disturb one another.             *)
FaultsStayLocal ==
  \A c \in Clients :
    /\ "disconnected" \in errors[c] => conn[c] = "broken" \/ server = "gone"
    /\ "mismatch" \notin errors[c]

(* Each client implements the contract that all the benchmarks share.         *)
Outcome(c) == IF cpc[c] \notin Gone THEN "running"
              ELSE IF Succeeded(c) THEN "complete" ELSE "incomplete"

Echo(c) == INSTANCE EchoBenchmark
             WITH sent <- sent[c], verified <- verified[c], outcome <- Outcome(c)
EchoSpec ==
  /\ \A c \in Clients : Echo(c)!Init
  /\ [][\A c \in Clients : Echo(c)!Next \/ UNCHANGED Echo(c)!vars]_vars

(* "Print and save the metrics on successful completion":                     *)
(* capnp_client.cpp:220.                                                      *)
ResultsMeanSuccess ==
  \A c \in Clients : csv[c] = "results" => Len(verified[c]) = NumChunks

(* Every client ends, although none of its waits has a timeout.               *)
ClientsEnd == \A c \in Clients : <>(cpc[c] \in Gone)

(* The task of a connection ends once its client is gone.                     *)
SessionsEnd ==
  \A c \in Clients :
    (cpc[c] \in Gone /\ conn[c] # "none") ~> (conn[c] \in {"closed", "broken"})
=============================================================================
