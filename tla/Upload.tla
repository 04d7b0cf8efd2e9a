------------------------------- MODULE Upload -------------------------------
(***************************************************************************)
(* POST /submissions: how a file gets from the client's form into the row  *)
(* and the event of submission_service.  The gateway cuts the file into    *)
(* chunks, one buffer for all of them, and sends them over a gRPC stream;  *)
(* submission_service puts them together until the stream ends.  Either    *)
(* side may go away at any point.                                          *)
(*   gateway/internal/handler/http_handler.go        handleCreateSubmission*)
(*   submission_service/internal/handler/grpc_handler.go  CreateSubmission *)
(*   pkg/submission/submission_grpc.pb.go            the stream            *)
(* What submission_service does once it has the code is SubmissionService, *)
(* whose actions are used here, and which this module refines.             *)
(***************************************************************************)
EXTENDS SubmissionCalls, SequencesExt

CONSTANTS
    Files,      \* the files clients send, sequences of bytes
    ChunkSize,  \* length of the gateway's buffer
    NotText,    \* bytes PostgreSQL refuses in a text column
    EventSize,  \* EventSize[f]: length of the JSON event of a file
    MaxEvent    \* kafka.Writer's BatchBytes: the longest message it takes

ASSUME UploadConstants ==
    /\ MaxAttempts \in Nat \ {0}
    /\ ChunkSize \in Nat \ {0}
    /\ EventSize \in [Files -> Nat]
    /\ MaxEvent \in Nat
    /\ IsFiniteSet(Ids)  \* UUIDs (store.go), of which there are 2^122
    /\ \A f \in Files : f \in Seq(Range(f))

\* A request is named by the submission id it will get.
VARIABLES
    gw,      \* where handleCreateSubmission is, see GatewayStates
    file,    \* the file of the request
    offset,  \* the position of the gateway's reader
    wire,    \* messages sent and not received
    link,    \* the stream: "none", "up" or "down"
    srv,     \* what the handler of submission_service receives next
    code,    \* codeData, then the code of the row and of the event
    answer,  \* the status code of the HTTP response, 0 if none yet
    why      \* history: what made submission_service refuse the call

GatewayStates == {"idle", "open", "info", "chunks", "wait", "answered"}
ServerStates  == {"none", "info", "chunks", "received"}
Causes        == {"none", "stream_error", "insert_error",
                  "event_write_error", "client_cancel"}

gatewayVars == <<gw, file, offset, answer>>
streamVars  == <<wire, link>>
serverVars  == <<srv, code, why>>
callVars    == <<calls, rows, submissions>>
uploadVars == <<gatewayVars, streamVars, serverVars, callVars, faults>>

UploadInit ==
    /\ S!Init
    /\ gw = [id \in Ids |-> "idle"]
    /\ file = [id \in Ids |-> <<>>]
    /\ offset = [id \in Ids |-> 0]
    /\ answer = [id \in Ids |-> 0]
    /\ wire = [id \in Ids |-> <<>>]
    /\ link = [id \in Ids |-> "none"]
    /\ srv = [id \in Ids |-> "none"]
    /\ code = [id \in Ids |-> <<>>]
    /\ why = [id \in Ids |-> "none"]
-----------------------------------------------------------------------------
(* The stream *)

Info        == [kind |-> "info", data |-> <<>>]
ChunkOf(s)  == [kind |-> "chunk", data |-> s]
EndOfStream == [kind |-> "eof", data |-> <<>>]

\* Send returns nil once the message is queued: on a stream that is gone and
\* not known to be, the message is lost.
Send(id, message) ==
    wire' = IF link[id] = "up" THEN [wire EXCEPT ![id] = Append(@, message)] ELSE wire

Receives(id, kind) ==
    /\ wire[id] # <<>>
    /\ Head(wire[id]).kind = kind
    /\ wire' = [wire EXCEPT ![id] = Tail(@)]
-----------------------------------------------------------------------------
(* gateway: handleCreateSubmission *)

Goto(id, state) == gw' = [gw EXCEPT ![id] = state]

Respond(id, status) ==
    /\ Goto(id, "answered")
    /\ answer' = [answer EXCEPT ![id] = status]
    /\ UNCHANGED <<file, offset>>

\* The form has a problem, a language and a file, and the file is read.
Post(id) ==
    /\ gw[id] = "idle"
    /\ \E f \in Files : file' = [file EXCEPT ![id] = f]
    /\ Goto(id, "open")
    /\ UNCHANGED <<offset, answer, streamVars, serverVars, callVars, faults>>

\* A form without one of them, or a file that cannot be read.
PostRefused(id) ==
    /\ gw[id] = "idle"
    /\ \E status \in {400, 500} : Respond(id, status)
    /\ UNCHANGED <<streamVars, serverVars, callVars, faults>>

OpenStream(id) ==
    /\ gw[id] = "open"
    /\ Goto(id, "info")
    /\ link' = [link EXCEPT ![id] = "up"]
    /\ srv' = [srv EXCEPT ![id] = "info"]
    /\ UNCHANGED <<file, offset, answer, wire, code, why, callVars, faults>>

\* submission_service is not there, or the client is not any more.
OpenStreamFailed(id) ==
    /\ gw[id] = "open"
    /\ Fails("open_error")
    /\ Respond(id, 500)
    /\ UNCHANGED <<streamVars, serverVars, callVars>>

SendInfo(id) ==
    /\ gw[id] = "info"
    /\ Send(id, Info)
    /\ Goto(id, "chunks")
    /\ UNCHANGED <<file, offset, answer, link, serverVars, callVars, faults>>

\* The next bytes, at most a buffer full of them.
Rest(id) == SubSeq(file[id], offset[id] + 1, Len(file[id]))
Read(id) == SubSeq(Rest(id), 1, Min({ChunkSize, Len(Rest(id))}))

\* Mutant of Chunk: all of the buffer, whose end may be of an earlier chunk.
WholeBuffer(id) ==
    IF offset[id] = 0 THEN Read(id)
    ELSE Read(id) \o SubSeq(file[id], offset[id] - ChunkSize + Len(Read(id)) + 1, offset[id])

\* buffer[:n]; the message is encoded before Send returns, so the next Read
\* into the same buffer does not change it.
Chunk(id) == Read(id)

SendChunk(id) ==
    /\ gw[id] = "chunks"
    /\ Rest(id) # <<>>
    /\ Send(id, ChunkOf(Chunk(id)))
    /\ offset' = [offset EXCEPT ![id] = @ + Len(Read(id))]
    /\ UNCHANGED <<gw, file, answer, link, serverVars, callVars, faults>>

\* Send notices that the stream is gone.
SendFailed(id) ==
    /\ gw[id] \in {"info", "chunks"}
    /\ link[id] = "down"
    /\ Respond(id, 500)
    /\ UNCHANGED <<streamVars, serverVars, callVars, faults>>

\* Mutant of CloseSend: RecvMsg in place of CloseAndRecv.
ReceiveWithoutClose(id) ==
    /\ gw[id] = "chunks"
    /\ Rest(id) = <<>>
    /\ Goto(id, "wait")
    /\ UNCHANGED <<file, offset, answer, streamVars, serverVars, callVars, faults>>

\* The reader is at its end: CloseAndRecv closes the sending side and waits.
CloseSend(id) ==
    /\ gw[id] = "chunks"
    /\ Rest(id) = <<>>
    /\ Send(id, EndOfStream)
    /\ Goto(id, "wait")
    /\ UNCHANGED <<file, offset, answer, link, serverVars, callVars, faults>>

\* The response of CreateSubmission arrives.
Accepted(id) ==
    /\ gw[id] = "wait" /\ link[id] = "up"
    /\ calls[id] = "accepted"
    /\ Respond(id, 202)
    /\ UNCHANGED <<streamVars, serverVars, callVars, faults>>

\* Mutant of Refused: the error of CloseAndRecv is not looked at.
RefusedUnseen(id) ==
    /\ gw[id] = "wait"
    /\ link[id] = "down" \/ calls[id] = "rejected"
    /\ Respond(id, 202)
    /\ UNCHANGED <<streamVars, serverVars, callVars, faults>>

\* CloseAndRecv returns the error of the call or of the stream.
Refused(id) ==
    /\ gw[id] = "wait"
    /\ link[id] = "down" \/ calls[id] = "rejected"
    /\ Respond(id, 500)
    /\ UNCHANGED <<streamVars, serverVars, callVars, faults>>

\* The client goes away, or the gateway is killed: the context of the request
\* is cancelled and with it the stream.
ClientGone(id) ==
    /\ gw[id] # "answered" /\ link[id] = "up"
    /\ Fails("client_gone")
    /\ link' = [link EXCEPT ![id] = "down"]
    /\ UNCHANGED <<gatewayVars, wire, serverVars, callVars>>
-----------------------------------------------------------------------------
(* submission_service: the handler of the stream *)

ReceiveInfo(id) ==
    /\ srv[id] = "info"
    /\ Receives(id, "info")
    /\ srv' = [srv EXCEPT ![id] = "chunks"]
    /\ UNCHANGED <<link, code, why, gatewayVars, callVars, faults>>

ReceiveChunk(id) ==
    /\ srv[id] = "chunks"
    /\ Receives(id, "chunk")
    /\ code' = [code EXCEPT ![id] = @ \o Head(wire[id]).data]
    /\ UNCHANGED <<link, srv, why, gatewayVars, callVars, faults>>

\* io.EOF: the gateway closed its side, the code is complete.
ReceiveEnd(id) ==
    /\ srv[id] = "chunks"
    /\ Receives(id, "eof")
    /\ srv' = [srv EXCEPT ![id] = "received"]
    /\ S!Receive(id)
    /\ UNCHANGED <<link, code, why, gatewayVars>>

\* Mutant of ReceiveFailed: any error ends the loop as io.EOF does.
ReceiveErrorIsEnd(id) ==
    /\ srv[id] \in {"info", "chunks"} /\ link[id] = "down"
    /\ srv' = [srv EXCEPT ![id] = "received"]
    /\ calls' = [calls EXCEPT ![id] = "insert"]
    /\ UNCHANGED <<streamVars, code, why, gatewayVars, rows, submissions, faults>>

\* Any other error of Recv.  On a stream that is gone it comes at once or
\* after the messages that had arrived, whichever the transport sees first.
ReceiveFailed(id) ==
    /\ srv[id] \in {"info", "chunks"} /\ link[id] = "down"
    /\ srv' = [srv EXCEPT ![id] = "received"]
    /\ calls' = [calls EXCEPT ![id] = "rejected"]
    /\ why' = [why EXCEPT ![id] = "stream_error"]
    /\ UNCHANGED <<streamVars, code, gatewayVars, rows, submissions, faults>>
-----------------------------------------------------------------------------
(* submission_service: storing and publishing the code *)

Storable(f) == \A i \in DOMAIN f : f[i] \notin NotText

\* Writer.WriteMessages measures a message before it queues it.
Fits(f) == EventSize[f] <= MaxEvent

Unchanged == UNCHANGED <<streamVars, gatewayVars, srv, code>>

InsertRow(id) == Storable(code[id]) /\ S!InsertRow(id) /\ Unchanged /\ UNCHANGED why

\* A NUL or an invalid UTF-8 byte: the INSERT fails, every time.
InsertRefused(id) ==
    /\ calls[id] = "insert" /\ ~ Storable(code[id])
    /\ calls' = [calls EXCEPT ![id] = "rejected"]
    /\ why' = [why EXCEPT ![id] = "insert_error"]
    /\ Unchanged /\ UNCHANGED <<rows, submissions, faults>>

InsertFailed(id) ==
    Storable(code[id]) /\ S!InsertFailed(id) /\ Unchanged /\ UNCHANGED why

Publish(id) ==
    /\ calls[id] = "publish" /\ Fits(code[id])
    /\ S!PublishEvent(id) \/ S!PublishRetried(id) \/ S!PublishFailed(id)
    /\ Unchanged /\ UNCHANGED why

\* Mutant of PublishTooLong: the error is only logged.
PublishTooLongAccepts(id) ==
    /\ calls[id] = "publish" /\ ~ Fits(code[id])
    /\ calls' = [calls EXCEPT ![id] = "accepted"]
    /\ why' = [why EXCEPT ![id] = "event_write_error"]
    /\ Unchanged /\ UNCHANGED <<rows, submissions, faults>>

\* MessageTooLarge: the call fails with its row in the table.
PublishTooLong(id) ==
    /\ calls[id] = "publish" /\ ~ Fits(code[id])
    /\ calls' = [calls EXCEPT ![id] = "rejected"]
    /\ why' = [why EXCEPT ![id] = "event_write_error"]
    /\ Unchanged /\ UNCHANGED <<rows, submissions, faults>>

\* The context of the stream ends while WriteMessages waits.
PublishCancelled(id) ==
    /\ calls[id] = "publish" /\ Fits(code[id]) /\ link[id] = "down"
    /\ calls' = [calls EXCEPT ![id] = "abandoned"]
    /\ why' = [why EXCEPT ![id] = "client_cancel"]
    /\ Unchanged /\ UNCHANGED <<rows, submissions, faults>>

LateWrite(id) == S!LateWrite(id) /\ Unchanged /\ UNCHANGED why

\* submission_service is killed: every stream to it breaks.
Crash ==
    /\ S!Crash
    /\ link' = [id \in Ids |-> IF link[id] = "up" THEN "down" ELSE link[id]]
    /\ wire' = [id \in Ids |-> <<>>]
    /\ UNCHANGED <<gatewayVars, serverVars>>
-----------------------------------------------------------------------------
GatewayStep(id) ==
    \/ OpenStream(id) \/ SendInfo(id) \/ SendChunk(id) \/ SendFailed(id)
    \/ CloseSend(id) \/ Accepted(id) \/ Refused(id)

ReceiveStep(id) ==
    \/ ReceiveInfo(id) \/ ReceiveChunk(id) \/ ReceiveEnd(id) \/ ReceiveFailed(id)

StoreStep(id) ==
    \/ InsertRow(id) \/ InsertRefused(id)
    \/ Publish(id) \/ PublishTooLong(id) \/ LateWrite(id)

Quiet ==
    /\ \A id \in Ids : gw[id] = "answered" /\ calls[id] \in {"none", "accepted", "rejected"}
    /\ \A id \in Ids : srv[id] \in {"none", "received"}
    /\ UNCHANGED uploadVars

UploadNext ==
    \/ \E id \in Ids :
          \/ Post(id) \/ PostRefused(id) \/ OpenStreamFailed(id) \/ ClientGone(id)
          \/ GatewayStep(id) \/ ReceiveStep(id) \/ StoreStep(id)
          \/ InsertFailed(id) \/ PublishCancelled(id)
    \/ Crash
    \/ Quiet

\* Each handler is a goroutine that runs on; calls to the database and to
\* Kafka return.  Whether a client sends anything is up to it.
UploadFairness ==
    \A id \in Ids :
        /\ WF_uploadVars(GatewayStep(id))
        /\ WF_uploadVars(ReceiveStep(id))
        /\ WF_uploadVars(StoreStep(id))

UploadSpec == UploadInit /\ [][UploadNext]_uploadVars /\ UploadFairness
-----------------------------------------------------------------------------
(* Properties *)

\* Every variable has its type.
UploadTypeOK ==
    /\ S!TypeOK
    /\ gw \in [Ids -> GatewayStates]
    /\ file \in [Ids -> Files \cup {<<>>}]
    /\ \A id \in Ids : offset[id] \in 0 .. Len(file[id])
    /\ answer \in [Ids -> {0, 202, 400, 500}]
    /\ link \in [Ids -> {"none", "up", "down"}]
    /\ srv \in [Ids -> ServerStates]
    /\ why \in [Ids -> Causes]

(* What is stored, and judged, is the client's file to the last byte,      *)
(* wherever the chunks were cut and whenever the client, the gateway or    *)
(* the service went away: there is no row with a part of a file.           *)
StoredIsSent == \A id \in Ids : rows[id] # "none" => code[id] = file[id]

(* The bytes that were received, are on the way and were not sent yet make *)
(* up the file, as long as the stream is up.                               *)
NoByteLost ==
    \A id \in Ids : link[id] = "up" =>
        file[id] = code[id] \o FlattenSeq([i \in DOMAIN wire[id] |-> wire[id][i].data])
                   \o Rest(id)

(* A client that reads 202 has its whole file in a row and in the topic,   *)
(* although the answer passed through two processes.                       *)
AcceptedIsStored ==
    \A id \in Ids : answer[id] = 202 =>
        /\ rows[id] # "none"
        /\ code[id] = file[id]
        /\ S!InTopic(id)

(* Every request is answered: no side waits for the other for ever.        *)
EveryRequestAnswered ==
    \A id \in Ids : (gw[id] = "open") ~> (gw[id] = "answered")
-----------------------------------------------------------------------------
(* Refinement: to SubmissionService a stream is one message, and what the  *)
(* stream, the text, the length or the client made fail is a fault.        *)

Because(kind)  == Cardinality({id \in Ids : why[id] = kind})
AbstractFaults == {"stream_error", "insert_error", "event_lost_ack",
                   "event_write_error", "client_cancel", "submission_crash"}

Abstract == INSTANCE SubmissionService WITH
    MaxFaults <- [k \in AbstractFaults |->
        Cardinality(Ids) + (IF k \in DOMAIN MaxFaults THEN MaxFaults[k] ELSE 0)],
    FaultMixes <- {AbstractFaults},
    faults <- [k \in AbstractFaults |-> Because(k) + Failed(k)]

(* Whatever happens on the stream, submission_service keeps to the steps   *)
(* of SubmissionService, and takes them: the guarantees of that module and *)
(* of CodeChecker hold for the calls the gateway really makes.             *)
ImplementsSubmissionService == Abstract!Spec

=============================================================================
