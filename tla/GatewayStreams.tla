--------------------------- MODULE GatewayStreams ---------------------------
(***************************************************************************)
(* The two handlers of the gateway that pass data on while it arrives: the *)
(* relay of a chat stream to the client, and the upload of files to the    *)
(* agent.  Each is a handler and a goroutine of its own that talk over a   *)
(* channel, or a pipe, without a buffer.                                   *)
(***************************************************************************)
EXTENDS Integers, Sequences

CONSTANTS
    MaxLines,   \* bound: lines of a stream
    Uploads,    \* uploads: their parts (file, allowed MIME type, size) and if Content-Length is known
    MaxBytes

VARIABLES
    stream,   \* the lines the agent writes: how many, which is [DONE], how they end
    reader,   \* the goroutine that scans lines: where it is, and how many it has scanned
    relay,    \* RelaySSE: whether it waits or has returned, and what it has written
    upload,   \* the request
    copier,   \* streamRest's goroutine: where it is, the next part
    agent,    \* what the agent has of the upload: its parts, the closing boundary, a regular end;
              \* and whether it has answered
    answer    \* the client's answer, or "none"

vars == << stream, reader, relay, upload, copier, agent, answer >>

streamVars == << stream, reader, relay >>
uploadVars == << upload, copier, agent, answer >>

-----------------------------------------------------------------------------
RelayInit ==
    /\ stream = [lines |-> 0, done |-> 0, end |-> "open"]
    /\ reader = [pc |-> "scan", line |-> 0]
    /\ relay = [pc |-> "select", wrote |-> << >>]

UploadInit ==
    /\ upload \in Uploads
    /\ copier = [pc |-> "idle", next |-> 1]
    /\ agent = [has |-> << >>, boundary |-> FALSE, whole |-> FALSE, answered |-> FALSE]
    /\ answer = "none"

Init == RelayInit /\ UploadInit

TypeOK ==
    /\ stream \in [lines : 0..MaxLines, done : 0..MaxLines, end : {"open", "closed", "broken"}]
    /\ reader \in [pc : {"scan", "offer", "ended"}, line : 0..MaxLines]
    /\ relay.pc \in {"select", "returned"} /\ relay.wrote \in Seq(1..MaxLines)
    /\ copier \in [pc : {"idle", "copy", "ended", "failed", "large", "refused"}, next : Nat]
    /\ agent.has \in Seq(1..Len(upload.parts))
    /\ agent.boundary \in BOOLEAN /\ agent.whole \in BOOLEAN /\ agent.answered \in BOOLEAN
    /\ answer \in {"none", "200", "400", "413", "415", "502", "504"}

-----------------------------------------------------------------------------
(* The agent's side of a stream; it may write on after [DONE].             *)
WriteLine(kind) ==
    /\ stream.end = "open"
    /\ stream.lines < MaxLines
    /\ kind = "done" => stream.done = 0
    /\ stream' = [stream EXCEPT !.lines = @ + 1, !.done = IF kind = "done" THEN stream.lines + 1 ELSE @]
    /\ UNCHANGED << reader, relay, uploadVars >>

\* The response ends; or its body fails: the agent is lost, a line is longer than the
\* scanner's buffer, or the timeout of the HTTP client is over, which covers the body.
EndStream(how) ==
    /\ stream.end = "open"
    /\ stream' = [stream EXCEPT !.end = how]
    /\ UNCHANGED << reader, relay, uploadVars >>

\* Closing the body, when the handler has returned, ends a read of it.
BodyClosed == relay.pc = "returned"

Scan ==
    /\ reader.pc = "scan"
    /\ reader' = IF reader.line < stream.lines /\ ~BodyClosed
                   THEN [pc |-> "offer", line |-> reader.line + 1]
                   ELSE [reader EXCEPT !.pc = "ended"]
    /\ reader.line < stream.lines \/ stream.end # "open" \/ BodyClosed
    /\ UNCHANGED << stream, relay, uploadVars >>

\* A failed read loses what was not scanned.
ScanFails ==
    /\ reader.pc = "scan"
    /\ stream.end = "broken"
    /\ reader' = [reader EXCEPT !.pc = "ended"]
    /\ UNCHANGED << stream, relay, uploadVars >>

\* (A variant, used by no specification: the relay ends when the agent does.)
WriteOn(line) == "select"

\* [DONE] ends the relay.
AfterLine(line) == IF line = stream.done THEN "returned" ELSE "select"

\* A line goes from the reader through the channel to the client; a client that is gone
\* changes nothing.
Relay ==
    /\ reader.pc = "offer"
    /\ relay.pc = "select"
    /\ reader' = [reader EXCEPT !.pc = "scan"]
    /\ relay' = [pc |-> AfterLine(reader.line), wrote |-> Append(relay.wrote, reader.line)]
    /\ UNCHANGED << stream, uploadVars >>

\* The channel is closed: so is the stream.
RelayEnds ==
    /\ reader.pc = "ended"
    /\ relay.pc = "select"
    /\ relay' = [relay EXCEPT !.pc = "returned"]
    /\ UNCHANGED << stream, reader, uploadVars >>

\* done is closed when the relay has returned: the reader offers its line no longer.
Abandon ==
    /\ reader.pc = "offer"
    /\ relay.pc = "returned"
    /\ reader' = [reader EXCEPT !.pc = "ended"]
    /\ UNCHANGED << stream, relay, uploadVars >>

-----------------------------------------------------------------------------
(* An upload.                                                              *)
Parts == upload.parts
FirstFile == CHOOSE i \in DOMAIN Parts : Parts[i].file /\ \A j \in 1..(i - 1) : ~Parts[j].file
HasFile == \E i \in DOMAIN Parts : Parts[i].file
\* What has come in when part i has.
Bytes[i \in 0..Len(upload.parts)] == IF i = 0 THEN 0 ELSE Bytes[i - 1] + upload.parts[i].size
TooLarge(i) == Bytes[i] > MaxBytes
Allowed(i) == Parts[i].file => Parts[i].allowed

\* Before anything is sent on: the length if it is known, and the parts up to the first
\* file, whose type is looked at but not its content.
Refusal ==
    CASE upload.known /\ TooLarge(Len(Parts)) -> "413"
      [] ~HasFile -> IF TooLarge(Len(Parts)) THEN "413" ELSE "400"
      [] TooLarge(FirstFile - 1) -> "413"
      [] ~Allowed(FirstFile) -> "415"
      [] OTHER -> "none"

Receive ==
    /\ copier.pc = "idle"
    /\ answer = "none"
    /\ answer' = Refusal
    /\ copier' = IF Refusal = "none" THEN [copier EXCEPT !.pc = "copy"] ELSE copier
    /\ UNCHANGED << upload, agent, streamVars >>

\* A later file part is refused as well.
Passes(i) == i = FirstFile \/ Allowed(i)

\* streamRest fails: the closing boundary is written to the pipe all the same, before the pipe
\* is closed with the error.
FailCopy(pc) ==
    /\ copier' = [copier EXCEPT !.pc = pc]
    /\ agent' = [agent EXCEPT !.boundary = ~agent.answered]

\* A part is read from the client and written to the pipe, which the request to the agent
\* reads.  The agent has no more of a part that is refused or too large than its start.
Copy ==
    /\ copier.pc = "copy"
    /\ copier.next <= Len(Parts)
    /\ IF Passes(copier.next) /\ ~TooLarge(copier.next)
         THEN /\ agent' = IF agent.answered THEN agent
                          ELSE [agent EXCEPT !.has = Append(@, copier.next)]
              /\ copier' = [pc |-> IF agent.answered THEN "ended" ELSE "copy", next |-> copier.next + 1]
         ELSE FailCopy(IF TooLarge(copier.next) THEN "large" ELSE "refused")
    /\ UNCHANGED << upload, answer, streamVars >>

\* The last part is followed by the closing boundary and the end of the pipe.
Close ==
    /\ copier.pc = "copy"
    /\ copier.next = Len(Parts) + 1
    /\ copier' = [copier EXCEPT !.pc = "ended"]
    /\ agent' = [agent EXCEPT !.boundary = ~agent.answered, !.whole = ~agent.answered]
    /\ UNCHANGED << upload, answer, streamVars >>

\* The client goes away, or its body does not parse.
ClientFails ==
    /\ copier.pc = "copy"
    /\ FailCopy("failed")
    /\ UNCHANGED << upload, answer, streamVars >>

\* The agent answers: when it has everything and its request has ended as it should, or before,
\* with an error.  A closing boundary alone does not end the request.
AgentAnswers(early) ==
    /\ copier.pc # "idle"
    /\ answer = "none"
    /\ ~agent.answered
    /\ early \/ agent.whole
    /\ agent' = [agent EXCEPT !.answered = TRUE]
    /\ answer' = IF early THEN "400" ELSE "200"
    /\ UNCHANGED << upload, copier, streamVars >>

\* The request to the agent ends with the error of the pipe,
PipeFails ==
    /\ copier.pc \in {"failed", "large", "refused"}
    /\ answer = "none"
    /\ answer' = CASE copier.pc = "failed" -> "502" [] copier.pc = "large" -> "413" [] OTHER -> "415"
    /\ UNCHANGED << upload, copier, agent, streamVars >>

\* or without an answer, within GATEWAY_FILES_UPLOAD_TIMEOUT or after it.
RequestFails(status) ==
    /\ copier.pc # "idle"
    /\ answer = "none"
    /\ answer' = status
    /\ agent' = [agent EXCEPT !.answered = TRUE]
    /\ UNCHANGED << upload, copier, streamVars >>

-----------------------------------------------------------------------------
RelayNext ==
    \/ \E kind \in {"data", "done"} : WriteLine(kind)
    \/ \E how \in {"closed", "broken"} : EndStream(how)
    \/ Scan \/ ScanFails \/ Relay \/ RelayEnds \/ Abandon

UploadNext ==
    \/ Receive \/ Copy \/ Close \/ ClientFails \/ PipeFails
    \/ \E early \in BOOLEAN : AgentAnswers(early)
    \/ \E status \in {"502", "504"} : RequestFails(status)

Next == RelayNext \/ UploadNext

Spec == Init /\ [][Next]_vars

\* The agent goes on or ends, or the timeout of the HTTP client is over; both goroutines run.
Fairness ==
    /\ WF_vars(\E how \in {"closed", "broken"} : EndStream(how))
    /\ WF_vars(Scan) /\ WF_vars(Relay) /\ WF_vars(RelayEnds) /\ WF_vars(Abandon)

-----------------------------------------------------------------------------
(* Properties.                                                             *)

\* The client gets the lines of a stream in order and each once, up to [DONE] or to the
\* end of the response, except for what a failed read loses.  The agent has a whole
\* upload only if every file of it is of an allowed type and all of it within the limit,
\* wherever in the request the offending part comes, and only then is it answered as one:
\* also what is broken off has its closing boundary.
StreamsAreWhole ==
    /\ relay.wrote = [i \in 1..Len(relay.wrote) |-> i]
    /\ LET last == IF stream.done > 0 THEN stream.done ELSE stream.lines
       IN  /\ Len(relay.wrote) <= last
           /\ relay.pc = "returned" /\ stream.end # "broken" => Len(relay.wrote) = last
    /\ agent.whole =>
        /\ agent.boundary /\ agent.has = [i \in DOMAIN Parts |-> i]
        /\ \A i \in DOMAIN Parts : Allowed(i) /\ ~TooLarge(i)
    /\ answer = "200" => agent.whole

\* A relay ends, and its goroutine with it.
RelaysEnd == <>(relay.pc = "returned" /\ reader.pc = "ended")
=============================================================================
