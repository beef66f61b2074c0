---------------------------- MODULE IpcExchange ----------------------------
(***************************************************************************)
(* One request and its reply over the named pipe: the framing of           *)
(* Win32NamedPipeTransport.cpp, the codec of MessageCodec.cpp, the handler *)
(* of main_service.cpp, and clients that use the same transport, among     *)
(* them the GUI's RecoveryStatusClient.cpp.                                *)
(*                                                                         *)
(* The pipe has one instance and a buffer each way.  A frame is a sequence *)
(* of words: its length (in words), its type, its protocol version and its *)
(* payload.  Reads and writes move as many words as are there or fit.      *)
(* Clients come one after the other, may be of another version, and may    *)
(* leave at any time.  The stop of the service is in ServiceSession.       *)
(*                                                                         *)
(* A definition named Op_Variant is Op with a mistake in it; nothing uses  *)
(* it but the check that the properties notice the mistake.                *)
(***************************************************************************)
EXTENDS Integers, Sequences, FiniteSets

CONSTANTS
    Clients,
    Requests,        \* what they may ask: [type, version, key], the key a sequence of words
    PipeBufferSize,  \* kPipeBufferSize, in words
    MaxFrameLength,  \* the transport's 16 MiB, in words
    MaxKeyLength     \* ReadString's 64 KiB, in words

\* A reply of this model takes four words.
ASSUME IpcAssumption ==
    /\ PipeBufferSize \in Nat \ {0} /\ MaxKeyLength \in Nat
    /\ MaxFrameLength \in Nat /\ MaxFrameLength >= 4
    /\ IsFiniteSet(Clients)
    /\ Requests \subseteq [type : Nat, version : Nat, key : Seq(Nat)]

ProtocolVersion == 2

\* MessageType
GetStatusRequest == 1
GetStatusResponse == 2
GetCacheStatisticsRequest == 4
GetCacheStatisticsResponse == 5
FlushAllRequest == 6
FlushAllResponse == 7
InvalidateKeyRequest == 8
InvalidateKeyResponse == 9

NoClient == "none"
ASSUME ClientAssumption == NoClient \notin Clients
NoRequest == [type |-> 0, version |-> 0, key |-> <<>>]

VARIABLES
    server,              \* "accept", "length", "rest", "handle", "reply" or "close"
    frame,               \* the frame the server has read of
    sending,             \* what is left of the frame the server is sending
    pipe,                \* the client at the other end
    toServer, toClient,  \* the buffers
    client,              \* "idle", "send", "length", "rest" or "gone", for every client
    request, unsent,     \* its request, and what it has yet to send of it
    received,            \* what it has read of the reply
    left,                \* it went away before its time
    result,              \* the reply it has accepted, its payload
    outcome,             \* the payload the server replied to it, if it ran its request
    invalidated          \* keys that ForceInvalidate was called with

serverVars == <<server, frame, sending, outcome, invalidated>>
clientVars == <<client, request, unsent, received, left, result>>
pipeVars == <<pipe, toServer, toClient>>
vars == <<serverVars, clientVars, pipeVars>>

Min(a, b) == IF a < b THEN a ELSE b
Take(s, n) == SubSeq(s, 1, n)
Drop(s, n) == SubSeq(s, n + 1, Len(s))

Init ==
    /\ server = "accept" /\ frame = <<>> /\ sending = <<>>
    /\ pipe = NoClient /\ toServer = <<>> /\ toClient = <<>>
    /\ client = [c \in Clients |-> "idle"]
    /\ request = [c \in Clients |-> NoRequest] /\ unsent = [c \in Clients |-> <<>>]
    /\ received = [c \in Clients |-> <<>>] /\ left = [c \in Clients |-> FALSE]
    /\ result = [c \in Clients |-> <<>>] /\ outcome = [c \in Clients |-> <<>>]
    /\ invalidated = {}

-----------------------------------------------------------------------------
(* MessageCodec.                                                           *)

Encode(type, version, payload) == <<3 + Len(payload), type, version>> \o payload

\* A string is its length and its words.
AppendString(key) == <<Len(key)>> \o key

EncodeRequest(r) ==
    Encode(r.type, r.version,
           IF r.type = InvalidateKeyRequest THEN AppendString(r.key) ELSE <<>>)

CheckHeader(f, type, version) ==
    Len(f) >= 3 /\ f[1] = Len(f) /\ f[2] = type /\ f[3] = version

\* ReadString at the start of the payload.
ReadsString(f) == Len(f) >= 4 /\ f[4] <= MaxKeyLength /\ 4 + f[4] <= Len(f)
KeyOf(f) == SubSeq(f, 5, 4 + f[4])

DecodesInvalidateKeyRequest(f) ==
    CheckHeader(f, InvalidateKeyRequest, ProtocolVersion) /\ ReadsString(f)

-----------------------------------------------------------------------------
(* The server: one turn of IpcServerThreadBody.                            *)

ClientGone == client[pipe] = "gone"

\* ReceiveFrame, the length.
ReceiveLength ==
    /\ server = "length"
    /\ \/ /\ toServer # <<>>
          /\ frame' = Take(toServer, 1) /\ toServer' = Drop(toServer, 1)
          /\ server' = IF toServer[1] \notin 1..MaxFrameLength THEN "close"
                       ELSE IF toServer[1] = 1 THEN "handle" ELSE "rest"
       \/ /\ toServer = <<>> /\ ClientGone  \* ReadFile fails
          /\ server' = "close" /\ UNCHANGED <<frame, toServer>>
    /\ UNCHANGED <<sending, outcome, invalidated, pipe, toClient, clientVars>>

\* ReceiveFrame, the loop for the rest.
Filled(f) == f \o [i \in 1..(f[1] - Len(f)) |-> 0]
ReceiveRest_OneRead ==
    /\ server = "rest"
    /\ \/ \E n \in 1..Min(Len(toServer), frame[1] - Len(frame)) :
             /\ frame' = Filled(frame \o Take(toServer, n)) /\ toServer' = Drop(toServer, n)
             /\ server' = "handle"
       \/ /\ toServer = <<>> /\ ClientGone
          /\ server' = "close" /\ UNCHANGED <<frame, toServer>>
    /\ UNCHANGED <<sending, outcome, invalidated, pipe, toClient, clientVars>>
ReceiveRest_IgnoresEnd ==
    /\ server = "rest"
    /\ \/ \E n \in 1..Min(Len(toServer), frame[1] - Len(frame)) :
             /\ frame' = frame \o Take(toServer, n) /\ toServer' = Drop(toServer, n)
             /\ server' = IF Len(frame') = frame[1] THEN "handle" ELSE "rest"
       \/ toServer = <<>> /\ ClientGone /\ UNCHANGED <<server, frame, toServer>>
    /\ UNCHANGED <<sending, outcome, invalidated, pipe, toClient, clientVars>>
ReceiveRest ==
    /\ server = "rest"
    /\ \/ \E n \in 1..Min(Len(toServer), frame[1] - Len(frame)) :
             /\ frame' = frame \o Take(toServer, n) /\ toServer' = Drop(toServer, n)
             /\ server' = IF Len(frame') = frame[1] THEN "handle" ELSE "rest"
       \/ /\ toServer = <<>> /\ ClientGone  \* ReadFile fails
          /\ server' = "close" /\ UNCHANGED <<frame, toServer>>
    /\ UNCHANGED <<sending, outcome, invalidated, pipe, toClient, clientVars>>

Reply(type, payload) ==
    /\ sending' = Encode(type, ProtocolVersion, payload)
    /\ outcome' = [outcome EXCEPT ![pipe] = payload]
    /\ server' = "reply"

\* What a snapshot of the state shows, different for every client.
Snapshot == <<Cardinality({c \in Clients : client[c] # "idle"})>>
\* An operation succeeds (1) or fails (0).
OperationResult == {<<1>>, <<0>>}

\* HandleOneIpcRequest: PeekMessageType looks at the type and at nothing else, and only
\* the InvalidateKeyRequest is decoded.  A frame without a type, or with one that is not
\* a request, is dropped.
Handle ==
    /\ server = "handle"
    /\ LET type == IF Len(frame) < 2 THEN 0 ELSE frame[2]
       IN  \/ /\ type = GetStatusRequest
              /\ Reply(GetStatusResponse, Snapshot) /\ UNCHANGED invalidated
           \/ /\ type = GetCacheStatisticsRequest
              /\ Reply(GetCacheStatisticsResponse, Snapshot) /\ UNCHANGED invalidated
           \/ /\ type = FlushAllRequest
              /\ \E r \in OperationResult : Reply(FlushAllResponse, r)
              /\ UNCHANGED invalidated
           \/ /\ type = InvalidateKeyRequest /\ DecodesInvalidateKeyRequest(frame)
              /\ invalidated' = invalidated \cup {KeyOf(frame)}
              /\ \E r \in OperationResult : Reply(InvalidateKeyResponse, r)
           \/ /\ type = InvalidateKeyRequest /\ ~DecodesInvalidateKeyRequest(frame)
              /\ Reply(InvalidateKeyResponse, <<0>>) /\ UNCHANGED invalidated
           \/ /\ type \notin {GetStatusRequest, GetCacheStatisticsRequest, FlushAllRequest,
                              InvalidateKeyRequest}
              /\ server' = "close" /\ UNCHANGED <<sending, outcome, invalidated>>
    /\ UNCHANGED <<frame, pipeVars, clientVars>>

\* SendFrame: WriteFile returns when the buffer has taken it all, or the client is gone.
SendFrame ==
    /\ server = "reply"
    /\ \/ /\ ~ClientGone /\ Len(toClient) < PipeBufferSize
          /\ LET n == Min(PipeBufferSize - Len(toClient), Len(sending))
             IN  toClient' = toClient \o Take(sending, n) /\ sending' = Drop(sending, n)
          /\ server' = IF sending' = <<>> THEN "close" ELSE "reply"
       \/ ClientGone /\ sending' = <<>> /\ server' = "close" /\ UNCHANGED toClient
    /\ UNCHANGED <<frame, outcome, invalidated, pipe, toServer, clientVars>>

\* Close: FlushFileBuffers waits until the client has read everything, or is gone.
Close_WithoutFlush ==
    /\ server = "close" /\ server' = "accept"
    /\ frame' = <<>> /\ pipe' = NoClient /\ toServer' = <<>> /\ toClient' = <<>>
    /\ UNCHANGED <<sending, outcome, invalidated, clientVars>>
Close ==
    /\ server = "close" /\ server' = "accept"
    /\ toClient = <<>> \/ ClientGone
    /\ frame' = <<>> /\ pipe' = NoClient /\ toServer' = <<>> /\ toClient' = <<>>
    /\ UNCHANGED <<sending, outcome, invalidated, clientVars>>

ServerStep == ReceiveLength \/ ReceiveRest \/ Handle \/ SendFrame \/ Close

-----------------------------------------------------------------------------
(* The clients.                                                            *)

\* CreateFileW finds an instance that waits for a client: AcceptOnce returns.
Connect(c) ==
    /\ client[c] = "idle" /\ server = "accept" /\ pipe = NoClient
    /\ \E r \in Requests : /\ request' = [request EXCEPT ![c] = r]
                           /\ unsent' = [unsent EXCEPT ![c] = EncodeRequest(r)]
    /\ client' = [client EXCEPT ![c] = "send"]
    /\ pipe' = c /\ server' = "length"
    /\ UNCHANGED <<frame, sending, outcome, invalidated, toServer, toClient, received, left, result>>

Gone(c) == client' = [client EXCEPT ![c] = "gone"]

Send(c) ==
    /\ client[c] = "send"
    /\ \/ /\ pipe = c /\ Len(toServer) < PipeBufferSize
          /\ LET n == Min(PipeBufferSize - Len(toServer), Len(unsent[c]))
             IN  /\ toServer' = toServer \o Take(unsent[c], n)
                 /\ unsent' = [unsent EXCEPT ![c] = Drop(unsent[c], n)]
          /\ client' = [client EXCEPT ![c] = IF unsent'[c] = <<>> THEN "length" ELSE "send"]
       \/ pipe # c /\ Gone(c) /\ UNCHANGED <<toServer, unsent>>  \* WriteFile fails
    /\ UNCHANGED <<serverVars, pipe, toClient, request, received, left, result>>

\* The client decodes with the version it has been built with.
Accepted(c, f) == CheckHeader(f, request[c].type + 1, request[c].version)

\* The client reads the length of the reply and then the rest of it.
Receive(c) ==
    /\ client[c] \in {"length", "rest"}
    /\ \/ /\ pipe = c
          /\ \E n \in 1..Min(Len(toClient), IF received[c] = <<>> THEN 1
                                            ELSE received[c][1] - Len(received[c])) :
                LET f == received[c] \o Take(toClient, n)
                IN  /\ received' = [received EXCEPT ![c] = f]
                    /\ toClient' = Drop(toClient, n)
                    /\ IF f[1] \in 1..MaxFrameLength /\ Len(f) < f[1]
                       THEN client' = [client EXCEPT ![c] = "rest"] /\ UNCHANGED result
                       ELSE /\ Gone(c)
                            /\ result' = IF Accepted(c, f)
                                         THEN [result EXCEPT ![c] = Drop(f, 3)] ELSE result
       \/ pipe # c /\ Gone(c) /\ UNCHANGED <<received, toClient, result>>  \* ReadFile fails
    /\ UNCHANGED <<serverVars, pipe, toServer, request, unsent, left>>

ClientStep(c) == Send(c) \/ Receive(c)

\* The client's process ends.
Leave(c) ==
    /\ client[c] \in {"send", "length", "rest"}
    /\ Gone(c) /\ left' = [left EXCEPT ![c] = TRUE]
    /\ UNCHANGED <<serverVars, pipeVars, request, unsent, received, result>>

\* All clients have come and gone.
AtRest ==
    /\ server = "accept" /\ \A c \in Clients : client[c] = "gone"
    /\ UNCHANGED vars

Next ==
    \/ ServerStep
    \/ \E c \in Clients : Connect(c) \/ ClientStep(c) \/ Leave(c)
    \/ AtRest

Spec == Init /\ [][Next]_vars

\* The service's thread runs, and a client that has connected goes on with its calls.
FairSpec == Spec /\ WF_vars(ServerStep) /\ \A c \in Clients : WF_vars(ClientStep(c))

-----------------------------------------------------------------------------
(* Properties.                                                             *)

\* A request that the service has run is answered, with its own reply: a client of the same
\* version that stays has the outcome when it is done, although the service closes the pipe
\* after each reply; and nothing else is ever taken for the reply, whichever clients came
\* and went before and however the words of the frames were parcelled out.
RunIsAnswered ==
    \A c \in Clients :
        /\ result[c] # <<>> => result[c] = outcome[c]
        /\ client[c] = "gone" /\ ~left[c] /\ outcome[c] # <<>>
              /\ request[c].version = ProtocolVersion => result[c] = outcome[c]

\* ForceInvalidate "accepting loss of any unflushed value" is called for a key only if a
\* client of the same version has asked for that very key, in a frame it sent whole.
InvalidatedWereAsked ==
    \A k \in invalidated :
        \E c \in Clients : /\ request[c] = [type |-> InvalidateKeyRequest,
                                           version |-> ProtocolVersion, key |-> k]
                           /\ unsent[c] = <<>>

\* The service's only pipe instance comes free again, whatever the client has sent and
\* whenever it leaves.
PipeComesFree == server # "accept" ~> server = "accept"
=============================================================================
