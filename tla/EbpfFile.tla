------------------------------ MODULE EbpfFile ------------------------------
(***************************************************************************)
(* The eBPF programs agents download (ebpf_file_server.go): a request      *)
(* serves the local file; when there is none, it fetches the file from the *)
(* centre, writes it and serves what it fetched.  Nothing is locked, the   *)
(* write truncates the file first, and a receiver may stop at any point.   *)
(* One file; requests of several agents for it.                            *)
(***************************************************************************)
EXTENDS FiniteSets

CONSTANTS Requests

VARIABLES file,       \* on disk: "absent", "cut" (truncated or half written) or "whole"
          request,    \* per request: its step, the API to ask, what it fetched
          response,   \* per request: what the agent got
          damaged     \* history: a write was cut short, or the centre sent a bad encoding

vars == <<file, request, response, damaged>>

Idle == [pc |-> "idle"]

Init == /\ file = "absent"
        /\ request = [r \in Requests |-> Idle]
        /\ response = [r \in Requests |-> "none"]
        /\ damaged = FALSE

Goto(r, to) == request' = [request EXCEPT ![r] = to]

\* (slip: the file is created before it is fetched)
StatSlip(r, version) ==
  /\ request[r].pc = "idle" /\ response[r] = "none"
  /\ Goto(r, IF file = "absent" THEN [pc |-> "fetch", version |-> version] ELSE [pc |-> "read"])
  /\ file' = IF file = "absent" THEN "cut" ELSE file
  /\ UNCHANGED <<response, damaged>>

\* checkLocalEbpfFile; a request that names distribution and architecture uses
\* the newer API, checkVersion.
Stat(r, version) ==
  /\ request[r].pc = "idle" /\ response[r] = "none"
  /\ Goto(r, IF file = "absent" THEN [pc |-> "fetch", version |-> version] ELSE [pc |-> "read"])
  /\ UNCHANGED <<file, response, damaged>>

Read(r) ==
  /\ request[r].pc = "read"
  /\ response' = [response EXCEPT ![r] = file]
  /\ Goto(r, Idle)
  /\ UNCHANGED <<file, damaged>>

\* The centre has the file: its content is decoded, errors in the encoding ignored.
Fetched(r, content) ==
  /\ request[r].pc = "fetch"
  /\ Goto(r, [pc |-> "write", content |-> content])
  /\ damaged' = (damaged \/ content = "cut")
  /\ UNCHANGED <<file, response>>

\* No answer or an empty one: the newer API falls back to the older, once.
FetchFails(r) ==
  /\ request[r].pc = "fetch"
  /\ IF request[r].version = "v1"
     THEN Goto(r, [pc |-> "fetch", version |-> "v0"]) /\ UNCHANGED response
     ELSE Goto(r, Idle) /\ response' = [response EXCEPT ![r] = "no file"]
  /\ UNCHANGED <<file, damaged>>

\* MkdirAll or opening the file fails.
CannotWrite(r) ==
  /\ request[r].pc = "write"
  /\ response' = [response EXCEPT ![r] = "error"]
  /\ Goto(r, Idle)
  /\ UNCHANGED <<file, damaged>>

\* WriteFile: truncate, then write.
Truncate(r) ==
  /\ request[r].pc = "write"
  /\ file' = "cut"
  /\ Goto(r, [request[r] EXCEPT !.pc = "writing"])
  /\ UNCHANGED <<response, damaged>>

Write(r) ==
  /\ request[r].pc = "writing"
  /\ file' = request[r].content
  /\ response' = [response EXCEPT ![r] = request[r].content]
  /\ Goto(r, Idle)
  /\ UNCHANGED damaged

\* The disk is full.
WriteFails(r) ==
  /\ request[r].pc = "writing"
  /\ damaged' = TRUE
  /\ response' = [response EXCEPT ![r] = "error"]
  /\ Goto(r, Idle)
  /\ UNCHANGED file

\* The receiver stops and is started again; requests under way are lost.
Restart ==
  /\ damaged' = (damaged \/ \E r \in Requests : request[r].pc = "writing")
  /\ request' = [r \in Requests |-> Idle]
  /\ UNCHANGED <<file, response>>

Ask(r) == response[r] # "none" /\ request[r] = Idle /\ response' = [response EXCEPT ![r] = "none"]
          /\ UNCHANGED <<file, request, damaged>>

GetFile(r) ==
  \/ \E version \in {"v0", "v1"} : Stat(r, version)
  \/ \E content \in {"whole", "cut"} : Fetched(r, content)
  \/ Read(r) \/ FetchFails(r) \/ CannotWrite(r) \/ Truncate(r) \/ Write(r) \/ WriteFails(r)

Next == Restart \/ \E r \in Requests : GetFile(r) \/ Ask(r)
Spec == Init /\ [][Next]_vars

-----------------------------------------------------------------------------
TypeOK == /\ file \in {"absent", "cut", "whole"}
          /\ response \in [Requests -> {"none", "cut", "whole", "no file", "error"}]

\* An agent is served an incomplete program only while another request is
\* writing it, or after a write was cut short or the centre's encoding was bad:
\* two downloads of the file at once leave it whole (GetFile, os.WriteFile).
WholeUnlessWriting ==
  [][\A r \in Requests :
       response'[r] = "cut" /\ response[r] # "cut" =>
         damaged \/ \E q \in Requests : request[q].pc = "writing" /\ q # r]_vars
=============================================================================
