------------------------- MODULE IpcExchange_proofs -------------------------
(***************************************************************************)
(* Proofs about the exchange over the named pipe: the framing takes the    *)
(* words of a request to the server, and those of its reply to the client, *)
(* in order and whole, for any buffer size and any parcelling.             *)
(***************************************************************************)
EXTENDS IpcExchange, TLAPS, FiniteSetTheorems

-----------------------------------------------------------------------------
(* Sequences of words.                                                     *)

Words == Seq(Nat)

\* The first words of a transfer.
LEMMA TakeFacts ==
    ASSUME NEW s \in Words, NEW n \in 0..Len(s)
    PROVE  /\ Take(s, n) \in Words /\ Len(Take(s, n)) = n
           /\ \A i \in 1..n : Take(s, n)[i] = s[i]
BY DEF Take, Words

\* The words of a transfer that are left after the first.
LEMMA DropFacts ==
    ASSUME NEW s \in Words, NEW n \in 0..Len(s)
    PROVE  /\ Drop(s, n) \in Words /\ Len(Drop(s, n)) = Len(s) - n
           /\ \A i \in 1..(Len(s) - n) : Drop(s, n)[i] = s[n + i]
BY DEF Drop, Words

\* Words that follow one another in a pipe.
LEMMA ConcatFacts ==
    ASSUME NEW s \in Words, NEW t \in Words
    PROVE  /\ s \o t \in Words /\ Len(s \o t) = Len(s) + Len(t)
           /\ \A i \in 1..Len(s) : (s \o t)[i] = s[i]
           /\ \A i \in 1..Len(t) : (s \o t)[Len(s) + i] = t[i]
BY DEF Words

\* A sequence is empty if its length is zero; sequences with the same words are the same.
LEMMA SameWords ==
    ASSUME NEW s \in Words, NEW t \in Words
    PROVE  /\ Len(s) \in Nat /\ (s = <<>> <=> Len(s) = 0)
           /\ Len(s) = Len(t) /\ (\A i \in 1..Len(s) : s[i] = t[i]) => s = t
           /\ \A i \in 1..Len(s) : s[i] \in Nat
<1>1. Len(s) \in Nat /\ \A i \in 1..Len(s) : s[i] \in Nat
  BY DEF Words
<1>2. s = <<>> <=> Len(s) = 0
  BY DEF Words
<1>3. ASSUME Len(s) = Len(t), \A i \in 1..Len(s) : s[i] = t[i] PROVE s = t
  BY <1>3 DEF Words
<1> QED
  BY <1>1, <1>2, <1>3

\* f is the frame of a message.
IsFrame(f, type, version, payload) ==
    /\ f \in Words /\ Len(f) = 3 + Len(payload)
    /\ f[1] = Len(f) /\ f[2] = type /\ f[3] = version
    /\ \A i \in 1..Len(payload) : f[3 + i] = payload[i]

\* EncodeMessage makes a frame whose length field counts it exactly.
LEMMA EncodeFacts ==
    ASSUME NEW type \in Nat, NEW version \in Nat, NEW payload \in Words
    PROVE  IsFrame(Encode(type, version, payload), type, version, payload)
<1>1. <<3 + Len(payload), type, version>> \in Words
  BY SameWords DEF Words
<1>2. PICK head \in Words : head = <<3 + Len(payload), type, version>>
  BY <1>1
<1>3. /\ head \o payload \in Words /\ Len(head \o payload) = Len(head) + Len(payload)
      /\ \A i \in 1..Len(head) : (head \o payload)[i] = head[i]
      /\ \A i \in 1..Len(payload) : (head \o payload)[Len(head) + i] = payload[i]
  BY ConcatFacts
<1>4. Len(head) = 3 /\ head[1] = 3 + Len(payload) /\ head[2] = type /\ head[3] = version
  BY <1>2
<1> QED
  BY <1>2, <1>3, <1>4 DEF Encode, IsFrame

\* AppendString writes the length of the text and then the text.
LEMMA StringFacts ==
    ASSUME NEW key \in Words
    PROVE  /\ AppendString(key) \in Words /\ Len(AppendString(key)) = 1 + Len(key)
           /\ AppendString(key)[1] = Len(key)
           /\ \A i \in 1..Len(key) : AppendString(key)[1 + i] = key[i]
<1>1. <<Len(key)>> \in Words
  BY SameWords DEF Words
<1> QED
  BY <1>1, ConcatFacts DEF AppendString

-----------------------------------------------------------------------------
(* The inductive invariant.                                                *)

\* a, b and r are the parts of the frame e, in order: what has been read of it, what is in
\* the buffer and what has yet to be sent.
Parts(a, b, r, e) ==
    /\ Len(a) + Len(b) + Len(r) = Len(e)
    /\ \A i \in 1..Len(a) : a[i] = e[i]
    /\ \A i \in 1..Len(b) : b[i] = e[Len(a) + i]
    /\ \A i \in 1..Len(r) : r[i] = e[Len(a) + Len(b) + i]

Asked == [type : Nat, version : Nat, key : Words]

IpcTypes ==
    /\ server \in {"accept", "length", "rest", "handle", "reply", "close"}
    /\ frame \in Words /\ sending \in Words /\ toServer \in Words /\ toClient \in Words
    /\ client \in [Clients -> {"idle", "send", "length", "rest", "gone"}]
    /\ request \in [Clients -> Asked] /\ unsent \in [Clients -> Words]
    /\ received \in [Clients -> Words] /\ left \in [Clients -> BOOLEAN]
    /\ result \in [Clients -> Words] /\ outcome \in [Clients -> Words]

\* What the server has of a frame and of a client at each of its steps.
ServerHolds ==
    /\ server = "accept" => /\ pipe = NoClient
                            /\ frame = <<>> /\ toServer = <<>> /\ toClient = <<>>
    /\ server # "accept" => pipe \in Clients /\ client[pipe] # "idle"
    /\ server = "length" => frame = <<>>
    /\ server \in {"rest", "handle"} => frame # <<>>
    /\ server = "handle" => Len(frame) = frame[1]
    /\ server # "reply" => sending = <<>>

\* A client that has not connected has a clean slate, and one that sends has more to send.
ClientHolds(c) ==
    /\ client[c] = "idle" => /\ request[c] = NoRequest
                             /\ received[c] = <<>> /\ outcome[c] = <<>> /\ result[c] = <<>>
    /\ client[c] = "send" => unsent[c] # <<>>

\* The request of the connected client is on its way, whole and in order.
RequestInTransit ==
    server # "accept" => Parts(frame, toServer, unsent[pipe], EncodeRequest(request[pipe]))

RequestInv ==
    /\ IpcTypes
    /\ ServerHolds
    /\ \A c \in Clients : ClientHolds(c)
    /\ RequestInTransit
    /\ InvalidatedWereAsked

ReplyTo(c) == Encode(request[c].type + 1, ProtocolVersion, outcome[c])

\* The service has not replied to c; then c has not gone but of its own will.
Unanswered(c) ==
    /\ outcome[c] = <<>> /\ received[c] = <<>> /\ result[c] = <<>>
    /\ client[c] # "rest"
    /\ client[c] = "gone" => left[c]

\* It has, and if c is waiting the reply is on its way, whole and in order.
Answered(c) ==
    /\ Len(outcome[c]) = 1 /\ client[c] # "send"
    /\ client[c] \in {"length", "rest"} => Parts(received[c], toClient, sending, ReplyTo(c))

ReplyInTransit ==
    /\ server \in {"length", "rest", "handle"} => Unanswered(pipe) /\ toClient = <<>>
    /\ server = "reply" => Answered(pipe)
    /\ server = "close" => (Unanswered(pipe) /\ toClient = <<>>) \/ Answered(pipe)

\* What a client that waits has read, and that the service does not let go of one it has
\* replied to.
ClientWaits(c) ==
    /\ client[c] \in {"send", "length", "rest"} => result[c] = <<>>
    /\ client[c] \in {"send", "length", "rest"} /\ pipe # c => outcome[c] = <<>>
    /\ client[c] \in {"send", "length"} => received[c] = <<>>
    /\ client[c] = "rest" => Len(received[c]) \in 1..3

ReplyInv == ReplyInTransit /\ (\A c \in Clients : ClientWaits(c)) /\ RunIsAnswered

-----------------------------------------------------------------------------
(* Words on their way.                                                     *)

\* Nothing is read or buffered of a frame that is all to be sent.
LEMMA PartsStart ==
    ASSUME NEW e \in Words
    PROVE  Parts(<<>>, <<>>, e, e)
<1>1. <<>> \in Words /\ Len(<<>>) = 0 /\ Len(e) \in Nat
  BY DEF Words
<1> QED
  BY <1>1 DEF Parts

\* A read takes words from the buffer.
LEMMA PartsRead ==
    ASSUME NEW a \in Words, NEW b \in Words, NEW r \in Words, NEW e \in Words,
           Parts(a, b, r, e), NEW n \in 0..Len(b)
    PROVE  Parts(a \o Take(b, n), Drop(b, n), r, e)
<1> DEFINE x == a \o Take(b, n)
           y == Drop(b, n)
<1>0. Len(a) \in Nat /\ Len(b) \in Nat /\ Len(r) \in Nat /\ Len(e) \in Nat
  BY SameWords
<1>t. /\ Take(b, n) \in Words /\ Len(Take(b, n)) = n
      /\ \A i \in 1..n : Take(b, n)[i] = b[i]
  BY TakeFacts
<1>c. /\ Len(x) = Len(a) + n
      /\ \A i \in 1..Len(a) : x[i] = a[i]
      /\ \A i \in 1..n : x[Len(a) + i] = Take(b, n)[i]
  <2>1. PICK w \in Words : w = Take(b, n)
    BY <1>t
  <2>2. /\ Len(a \o w) = Len(a) + Len(w)
        /\ \A i \in 1..Len(a) : (a \o w)[i] = a[i]
        /\ \A i \in 1..Len(w) : (a \o w)[Len(a) + i] = w[i]
    BY ConcatFacts
  <2> QED BY <1>t, <2>1, <2>2
<1>1. Len(x) = Len(a) + n /\ Len(y) = Len(b) - n
  BY <1>c, DropFacts
<1>2. ASSUME NEW i \in 1..Len(x) PROVE x[i] = e[i]
  <2>1. CASE i \in 1..Len(a)
    BY <1>c, <2>1 DEF Parts
  <2>2. CASE i > Len(a)
    <3>1. PICK j \in 1..n : i = Len(a) + j
      <4>1. i - Len(a) \in 1..n /\ i = Len(a) + (i - Len(a))
        BY <1>0, <1>1, <2>2
      <4> QED BY <4>1
    <3>2. x[i] = Take(b, n)[j]
      BY <1>c, <3>1
    <3>3. Take(b, n)[j] = b[j] /\ b[j] = e[Len(a) + j]
      BY <1>0, <1>t, <3>1 DEF Parts
    <3> QED BY <3>1, <3>2, <3>3
  <2> QED BY <1>0, <1>1, <2>1, <2>2
<1>3. ASSUME NEW i \in 1..Len(y) PROVE y[i] = e[Len(x) + i]
  <2>1. y[i] = b[n + i]
    BY <1>1, DropFacts
  <2>2. n + i \in 1..Len(b)
    BY <1>0, <1>1
  <2>3. b[n + i] = e[Len(a) + (n + i)]
    BY <2>2 DEF Parts
  <2>4. Len(a) + (n + i) = Len(x) + i
    BY <1>0, <1>1
  <2> QED BY <2>1, <2>3, <2>4
<1>4. Len(x) + Len(y) = Len(a) + Len(b)
  BY <1>0, <1>1
<1> HIDE DEF x, y
<1>5. Parts(x, y, r, e)
  BY <1>0, <1>2, <1>3, <1>4 DEF Parts
<1> QED
  BY <1>5 DEF x, y

\* A write adds words to the buffer.
LEMMA PartsWrite ==
    ASSUME NEW a \in Words, NEW b \in Words, NEW r \in Words, NEW e \in Words,
           Parts(a, b, r, e), NEW n \in 0..Len(r)
    PROVE  Parts(a, b \o Take(r, n), Drop(r, n), e)
<1> DEFINE x == b \o Take(r, n)
           y == Drop(r, n)
<1>0. Len(a) \in Nat /\ Len(b) \in Nat /\ Len(r) \in Nat /\ Len(e) \in Nat
  BY SameWords
<1>t. /\ Take(r, n) \in Words /\ Len(Take(r, n)) = n
      /\ \A i \in 1..n : Take(r, n)[i] = r[i]
  BY TakeFacts
<1>c. /\ Len(x) = Len(b) + n
      /\ \A i \in 1..Len(b) : x[i] = b[i]
      /\ \A i \in 1..n : x[Len(b) + i] = Take(r, n)[i]
  <2>1. PICK w \in Words : w = Take(r, n)
    BY <1>t
  <2>2. /\ Len(b \o w) = Len(b) + Len(w)
        /\ \A i \in 1..Len(b) : (b \o w)[i] = b[i]
        /\ \A i \in 1..Len(w) : (b \o w)[Len(b) + i] = w[i]
    BY ConcatFacts
  <2> QED BY <1>t, <2>1, <2>2
<1>1. Len(x) = Len(b) + n /\ Len(y) = Len(r) - n
  BY <1>c, DropFacts
<1>2. ASSUME NEW i \in 1..Len(x) PROVE x[i] = e[Len(a) + i]
  <2>1. CASE i \in 1..Len(b)
    BY <1>c, <2>1 DEF Parts
  <2>2. CASE i > Len(b)
    <3>1. PICK j \in 1..n : i = Len(b) + j
      <4>1. i - Len(b) \in 1..n /\ i = Len(b) + (i - Len(b))
        BY <1>0, <1>1, <2>2
      <4> QED BY <4>1
    <3>2. x[i] = Take(r, n)[j]
      BY <1>c, <3>1
    <3>3. Take(r, n)[j] = r[j] /\ r[j] = e[Len(a) + Len(b) + j]
      BY <1>0, <1>t, <3>1 DEF Parts
    <3>4. Len(a) + Len(b) + j = Len(a) + i
      BY <1>0, <3>1
    <3> QED BY <3>2, <3>3, <3>4
  <2> QED BY <1>0, <1>1, <2>1, <2>2
<1>3. ASSUME NEW i \in 1..Len(y) PROVE y[i] = e[Len(a) + Len(x) + i]
  <2>1. y[i] = r[n + i]
    BY <1>1, DropFacts
  <2>2. n + i \in 1..Len(r)
    BY <1>0, <1>1
  <2>3. r[n + i] = e[Len(a) + Len(b) + (n + i)]
    BY <2>2 DEF Parts
  <2>4. Len(a) + Len(b) + (n + i) = Len(a) + Len(x) + i
    BY <1>0, <1>1
  <2> QED BY <2>1, <2>3, <2>4
<1>4. Len(a) + Len(x) + Len(y) = Len(e)
  <2>1. Len(a) + Len(b) + Len(r) = Len(e)
    BY DEF Parts
  <2> HIDE DEF x, y
  <2> QED BY <1>0, <1>1, <2>1
<1> HIDE DEF x, y
<1>5. Parts(a, x, y, e)
  BY <1>0, <1>2, <1>3, <1>4 DEF Parts
<1> QED
  BY <1>5 DEF x, y

\* Who has read as many words as the frame has, has read the frame.
LEMMA PartsWhole ==
    ASSUME NEW a \in Words, NEW b \in Words, NEW r \in Words, NEW e \in Words,
           Parts(a, b, r, e), Len(a) = Len(e)
    PROVE  a = e /\ b = <<>> /\ r = <<>>
<1>1. Len(a) \in Nat /\ Len(b) \in Nat /\ Len(r) \in Nat
  BY SameWords
<1>2. Len(b) = 0 /\ Len(r) = 0
  BY <1>1 DEF Parts
<1> QED
  BY <1>2, SameWords DEF Parts

-----------------------------------------------------------------------------
(* The codec.                                                              *)

\* The frame of a request carries its length, its type and its version.
LEMMA RequestFrame ==
    ASSUME NEW q \in Asked
    PROVE  LET f == EncodeRequest(q)
           IN  /\ f \in Words /\ Len(f) \in Nat /\ Len(f) >= 3 /\ f # <<>>
               /\ f[1] = Len(f) /\ f[2] = q.type /\ f[3] = q.version
<1> DEFINE payload == IF q.type = InvalidateKeyRequest THEN AppendString(q.key) ELSE <<>>
<1>0. q.type \in Nat /\ q.version \in Nat /\ q.key \in Words
  BY DEF Asked
<1>1. payload \in Words
  <2>1. <<>> \in Words
    BY DEF Words
  <2> QED BY <1>0, <2>1, StringFacts
<1> HIDE DEF payload
<1> DEFINE f == Encode(q.type, q.version, payload)
<1>2. /\ f \in Words /\ Len(f) = 3 + Len(payload)
      /\ f[1] = Len(f) /\ f[2] = q.type /\ f[3] = q.version
  <2>1. IsFrame(f, q.type, q.version, payload)
    BY <1>0, <1>1, EncodeFacts
  <2> QED BY <2>1 DEF IsFrame
<1>3. EncodeRequest(q) = f
  BY DEF EncodeRequest, payload
<1> HIDE DEF f
<1>4. Len(payload) \in Nat /\ Len(f) \in Nat /\ (f = <<>> <=> Len(f) = 0)
  BY <1>1, <1>2, SameWords
<1> QED
  BY <1>2, <1>3, <1>4

\* A request to invalidate that decodes is one of this version, and its key is the one asked.
LEMMA RequestDecodes ==
    ASSUME NEW q \in Asked, DecodesInvalidateKeyRequest(EncodeRequest(q))
    PROVE  q = [type |-> InvalidateKeyRequest, version |-> ProtocolVersion,
                key |-> KeyOf(EncodeRequest(q))]
<1> DEFINE f == EncodeRequest(q)
           payload == AppendString(q.key)
<1>0. q.type \in Nat /\ q.version \in Nat /\ q.key \in Words
  BY DEF Asked
<1>1. q.type = InvalidateKeyRequest /\ q.version = ProtocolVersion
  BY RequestFrame DEF DecodesInvalidateKeyRequest, CheckHeader
<1>2. f = Encode(q.type, q.version, payload)
  BY <1>1 DEF EncodeRequest
<1>3. /\ payload \in Words /\ Len(payload) = 1 + Len(q.key) /\ payload[1] = Len(q.key)
      /\ \A i \in 1..Len(q.key) : payload[1 + i] = q.key[i]
  BY <1>0, StringFacts
<1>n. Len(q.key) \in Nat
  BY <1>0, SameWords
<1> HIDE DEF payload
<1>4. /\ f \in Words /\ Len(f) = 3 + Len(payload)
      /\ \A i \in 1..Len(payload) : f[3 + i] = payload[i]
  <2>1. IsFrame(f, q.type, q.version, payload)
    BY <1>0, <1>2, <1>3, EncodeFacts
  <2> HIDE DEF f
  <2> QED BY <2>1 DEF IsFrame
<1> HIDE DEF f
<1>5. f[4] = Len(q.key) /\ Len(f) = 4 + Len(q.key)
  <2>1. 1 \in 1..Len(payload) /\ 3 + 1 = 4
    BY <1>3, <1>n
  <2>2. f[3 + 1] = payload[1]
    BY <1>4, <2>1
  <2> QED BY <1>3, <1>4, <1>n, <2>1, <2>2
<1>6. \A i \in 1..Len(q.key) : f[4 + i] = q.key[i]
  <2> SUFFICES ASSUME NEW i \in 1..Len(q.key) PROVE f[4 + i] = q.key[i]
    OBVIOUS
  <2>1. 1 + i \in 1..Len(payload) /\ 3 + (1 + i) = 4 + i
    BY <1>3, <1>n
  <2> QED BY <1>3, <1>4, <2>1
<1>7. /\ KeyOf(f) \in Words /\ Len(KeyOf(f)) = Len(q.key)
      /\ \A i \in 1..Len(q.key) : KeyOf(f)[i] = f[4 + i]
  <2>1. /\ SubSeq(f, 5, 4 + Len(q.key)) \in Words
        /\ Len(SubSeq(f, 5, 4 + Len(q.key))) = Len(q.key)
        /\ \A i \in 1..Len(q.key) : SubSeq(f, 5, 4 + Len(q.key))[i] = f[4 + i]
    BY <1>4, <1>5, <1>n DEF Words
  <2> QED BY <1>5, <2>1 DEF KeyOf
<1>8. KeyOf(f) = q.key
  BY <1>0, <1>6, <1>7, SameWords
<1> QED
  BY <1>1, <1>8 DEF Asked, f

-----------------------------------------------------------------------------
(* Requests: the invariant, action by action.                              *)

\* HandleOneIpcRequest drops the frame, or replies to it with the response type that
\* belongs to its type, and invalidates only what the frame decodes to.
Replies(type, payload) ==
    /\ server' = "reply" /\ Len(frame) >= 2 /\ frame[2] = type
    /\ Len(payload) = 1
    /\ sending' = Encode(type + 1, ProtocolVersion, payload)
    /\ outcome' = [outcome EXCEPT ![pipe] = payload]
    /\ \/ UNCHANGED invalidated
       \/ /\ DecodesInvalidateKeyRequest(frame)
          /\ invalidated' = invalidated \cup {KeyOf(frame)}

\* The service handles a request: it closes the pipe, or replies.
LEMMA HandleEffect ==
    ASSUME IpcTypes, Handle
    PROVE  /\ server = "handle" /\ UNCHANGED <<frame, pipeVars, clientVars>>
           /\ \/ server' = "close" /\ UNCHANGED <<sending, outcome, invalidated>>
              \/ \E type \in Nat, payload \in Words : Replies(type, payload)
<1>1. server = "handle" /\ UNCHANGED <<frame, pipeVars, clientVars>>
  BY DEF Handle
<1>2. Snapshot \in Words /\ Len(Snapshot) = 1
  <2>1. Cardinality({c \in Clients : client[c] # "idle"}) \in Nat
    BY IpcAssumption, FS_Subset, FS_CardinalityType
  <2> QED BY <2>1 DEF Snapshot, Words
<1>4. <<0>> \in Words /\ Len(<<0>>) = 1
  BY DEF Words
<1>3. \A r \in OperationResult : r \in Words /\ Len(r) = 1
  <2>1. <<1>> \in Words /\ Len(<<1>>) = 1
    BY DEF Words
  <2> QED BY <1>4, <2>1, Zenon DEF OperationResult
<1>5. Len(frame) \in Nat
  <2>1. frame \in Words
    BY DEF IpcTypes
  <2> QED BY <2>1, SameWords
<1> DEFINE type == IF Len(frame) < 2 THEN 0 ELSE frame[2]
           Changed == \/ UNCHANGED invalidated
                      \/ /\ DecodesInvalidateKeyRequest(frame)
                         /\ invalidated' = invalidated \cup {KeyOf(frame)}
           Goal == \E tt \in Nat, pp \in Words : Replies(tt, pp)
<1>6. type # 0 => Len(frame) >= 2 /\ frame[2] = type
  BY <1>5
<1>h. \/ server' = "close" /\ UNCHANGED <<sending, outcome, invalidated>>
      \/ type = 1 /\ Reply(2, Snapshot) /\ Changed
      \/ type = 4 /\ Reply(5, Snapshot) /\ Changed
      \/ type = 6 /\ (\E r \in OperationResult : Reply(7, r)) /\ Changed
      \/ type = 8 /\ (\E r \in OperationResult : Reply(9, r)) /\ Changed
      \/ type = 8 /\ Reply(9, <<0>>) /\ Changed
  <2> HIDE DEF type
  <2>1. \/ type = 1 /\ Reply(2, Snapshot) /\ UNCHANGED invalidated
        \/ type = 4 /\ Reply(5, Snapshot) /\ UNCHANGED invalidated
        \/ type = 6 /\ (\E r \in OperationResult : Reply(7, r)) /\ UNCHANGED invalidated
        \/ /\ type = 8 /\ DecodesInvalidateKeyRequest(frame)
           /\ invalidated' = invalidated \cup {KeyOf(frame)}
           /\ \E r \in OperationResult : Reply(9, r)
        \/ type = 8 /\ Reply(9, <<0>>) /\ UNCHANGED invalidated
        \/ server' = "close" /\ UNCHANGED <<sending, outcome, invalidated>>
    BY Zenon DEF Handle, type, GetStatusRequest, GetStatusResponse,
       GetCacheStatisticsRequest, GetCacheStatisticsResponse, FlushAllRequest,
       FlushAllResponse, InvalidateKeyRequest, InvalidateKeyResponse
  <2> QED BY <2>1, Zenon
<1> HIDE DEF type, Changed, Goal
<1>7. ASSUME NEW t \in {1, 4, 6, 8}, type = t, NEW u, u = t + 1,
             NEW payload \in Words, Len(payload) = 1, Reply(u, payload), Changed
      PROVE  Goal
  <2>1. /\ server' = "reply" /\ sending' = Encode(t + 1, ProtocolVersion, payload)
        /\ outcome' = [outcome EXCEPT ![pipe] = payload]
    BY <1>7, Zenon DEF Reply
  <2>2. t \in Nat /\ Len(frame) >= 2 /\ frame[2] = t
    BY <1>6, <1>7
  <2>3. Replies(t, payload)
    BY <1>7, <2>1, <2>2, Zenon DEF Replies, Changed
  <2> QED BY <2>2, <2>3, Zenon DEF Goal
<1>8. ASSUME type = 1, Reply(2, Snapshot), Changed PROVE Goal
  <2>1. 2 = 1 + 1
    OBVIOUS
  <2> QED BY <1>2, <1>7, <1>8, <2>1, Zenon
<1>9. ASSUME type = 4, Reply(5, Snapshot), Changed PROVE Goal
  <2>1. 5 = 4 + 1
    OBVIOUS
  <2> QED BY <1>2, <1>7, <1>9, <2>1, Zenon
<1>10. ASSUME type = 6, NEW r \in OperationResult, Reply(7, r), Changed PROVE Goal
  <2>1. 7 = 6 + 1
    OBVIOUS
  <2> QED BY <1>3, <1>7, <1>10, <2>1, Zenon
<1>11. ASSUME type = 8, NEW r \in OperationResult, Reply(9, r), Changed PROVE Goal
  <2>1. 9 = 8 + 1
    OBVIOUS
  <2> QED BY <1>3, <1>7, <1>11, <2>1, Zenon
<1>12. ASSUME type = 8, Reply(9, << 0 >>), Changed PROVE Goal
  <2>1. 9 = 8 + 1
    OBVIOUS
  <2> QED BY <1>4, <1>7, <1>12, <2>1, Zenon
<1>13. (server' = "close" /\ UNCHANGED <<sending, outcome, invalidated>>) \/ Goal
  BY <1>h, <1>8, <1>9, <1>10, <1>11, <1>12, Zenon
<1> QED
  BY <1>1, <1>13, Zenon DEF Goal

\* What was asked stays asked.
LEMMA AskedStays ==
    ASSUME InvalidatedWereAsked, UNCHANGED invalidated,
           \A c \in Clients : \/ request[c] = NoRequest
                              \/ /\ request'[c] = request[c]
                                 /\ unsent[c] = <<>> => unsent'[c] = <<>>
    PROVE  InvalidatedWereAsked'
<1> SUFFICES ASSUME NEW k \in invalidated
             PROVE  \E c \in Clients : /\ request'[c] = [type |-> InvalidateKeyRequest,
                                           version |-> ProtocolVersion, key |-> k]
                                       /\ unsent'[c] = <<>>
  BY DEF InvalidatedWereAsked
<1>1. PICK c \in Clients : /\ request[c] = [type |-> InvalidateKeyRequest,
                                           version |-> ProtocolVersion, key |-> k]
                           /\ unsent[c] = <<>>
  BY DEF InvalidatedWereAsked
<1>2. request[c] # NoRequest
  <2>1. request[c].type = 8 /\ NoRequest.type = 0
    BY <1>1 DEF InvalidateKeyRequest, NoRequest
  <2> QED BY <2>1
<1> QED
  BY <1>1, <1>2

\* A step of the server that leaves the clients and what was invalidated alone.
LEMMA ServerStepKeeps ==
    ASSUME RequestInv, UNCHANGED <<clientVars, invalidated>>,
           ServerHolds', RequestInTransit',
           server' \in {"accept", "length", "rest", "handle", "reply", "close"},
           frame' \in Words, sending' \in Words, toServer' \in Words, toClient' \in Words,
           outcome' \in [Clients -> Words],
           \A c \in Clients : client[c] = "idle" => outcome'[c] = outcome[c]
    PROVE  RequestInv'
<1>1. IpcTypes'
  BY DEF RequestInv, IpcTypes, clientVars
<1>2. \A c \in Clients : ClientHolds(c)'
  BY DEF RequestInv, ClientHolds, clientVars
<1>3. InvalidatedWereAsked'
  BY DEF RequestInv, InvalidatedWereAsked, clientVars
<1> QED
  BY <1>1, <1>2, <1>3 DEF RequestInv

\* The server reads from the pipe.
LEMMA ServerReads ==
    ASSUME RequestInv, server \in {"length", "rest"}, NEW n \in 1..Len(toServer),
           frame' = frame \o Take(toServer, n), toServer' = Drop(toServer, n),
           server' \in {"rest", "handle", "close"},
           server' = "handle" => Len(frame') = frame'[1],
           UNCHANGED <<sending, outcome, invalidated, pipe, toClient, clientVars>>
    PROVE  RequestInv' /\ Len(frame') = Len(frame) + n
<1>1. /\ frame \in Words /\ toServer \in Words /\ pipe \in Clients
      /\ sending \in Words /\ toClient \in Words /\ sending = <<>> /\ client[pipe] # "idle"
      /\ outcome \in [Clients -> Words]
  BY DEF RequestInv, IpcTypes, ServerHolds
<1>2. unsent[pipe] \in Words /\ request[pipe] \in Asked
  BY <1>1 DEF RequestInv, IpcTypes
<1>3. EncodeRequest(request[pipe]) \in Words
  BY <1>2, RequestFrame
<1>4. n \in 0..Len(toServer) /\ n > 0 /\ n \in Nat
  BY <1>1, SameWords
<1>5. Parts(frame, toServer, unsent[pipe], EncodeRequest(request[pipe]))
  BY DEF RequestInv, RequestInTransit
<1>6. Parts(frame', toServer', unsent[pipe], EncodeRequest(request[pipe]))
  BY <1>1, <1>2, <1>3, <1>4, <1>5, PartsRead
<1>7. /\ frame' \in Words /\ toServer' \in Words /\ frame' # <<>>
      /\ Len(frame') = Len(frame) + n
  <2>1. Take(toServer, n) \in Words /\ Len(Take(toServer, n)) = n
    BY <1>1, <1>4, TakeFacts
  <2>w. PICK w \in Words : w = Take(toServer, n)
    BY <2>1
  <2>c. frame \o w \in Words /\ Len(frame \o w) = Len(frame) + Len(w)
    BY <1>1, ConcatFacts
  <2>2. frame' \in Words /\ Len(frame') = Len(frame) + n
    BY <2>1, <2>w, <2>c
  <2>3. Len(frame) \in Nat /\ (frame' = <<>> <=> Len(frame') = 0)
    BY <1>1, <2>2, SameWords
  <2>4. toServer' \in Words
    BY <1>1, <1>4, DropFacts
  <2> QED BY <1>4, <2>2, <2>3, <2>4
<1>8. ServerHolds'
  BY <1>1, <1>7 DEF ServerHolds, clientVars
<1>9. RequestInTransit'
  BY <1>6 DEF RequestInTransit, clientVars
<1>10. RequestInv'
  BY <1>1, <1>7, <1>8, <1>9, ServerStepKeeps
<1> QED
  BY <1>7, <1>10

\* The service reads the length of a frame, or finds the pipe broken.
LEMMA ReceiveLengthKeeps ==
    ASSUME RequestInv, ReceiveLength
    PROVE  RequestInv'
<1>1. /\ server = "length" /\ frame = <<>> /\ toServer \in Words /\ sending = <<>>
      /\ pipe \in Clients /\ client[pipe] # "idle"
  BY DEF RequestInv, IpcTypes, ServerHolds, ReceiveLength
<1>2. CASE toServer # <<>>
  <2>1. /\ frame' = Take(toServer, 1) /\ toServer' = Drop(toServer, 1)
        /\ server' \in {"rest", "handle", "close"}
        /\ server' = "handle" => toServer[1] = 1
        /\ UNCHANGED <<sending, outcome, invalidated, pipe, toClient, clientVars>>
    BY <1>2 DEF ReceiveLength
  <2>2. 1 \in 1..Len(toServer) /\ 1 \in 0..Len(toServer) /\ 1 \in 1..1
    BY <1>1, <1>2, SameWords
  <2>3. /\ Take(toServer, 1) \in Words /\ Len(Take(toServer, 1)) = 1
        /\ Take(toServer, 1)[1] = toServer[1]
    BY <1>1, <2>2, TakeFacts
  <2>4. Take(toServer, 1) = frame \o Take(toServer, 1)
    <3>1. PICK w \in Words : w = Take(toServer, 1)
      BY <2>3
    <3>2. <<>> \o w = w
      BY DEF Words
    <3> QED BY <1>1, <3>1, <3>2
  <2>5. frame' = frame \o Take(toServer, 1) /\ server \in {"length", "rest"}
    BY <1>1, <2>1, <2>4
  <2>6. server' = "handle" => Len(frame') = frame'[1]
    BY <2>1, <2>3
  <2> QED BY <2>1, <2>2, <2>5, <2>6, ServerReads
<1>3. CASE toServer = <<>>
  <2>1. /\ server' = "close" /\ UNCHANGED <<frame, toServer>>
        /\ UNCHANGED <<sending, outcome, invalidated, pipe, toClient, clientVars>>
    BY <1>3 DEF ReceiveLength
  <2>2. ServerHolds' /\ RequestInTransit'
    BY <1>1, <2>1 DEF RequestInv, ServerHolds, RequestInTransit, clientVars
  <2> QED BY <2>1, <2>2, ServerStepKeeps DEF RequestInv, IpcTypes
<1> QED
  BY <1>2, <1>3

\* The service reads what the length announced.
LEMMA ReceiveRestKeeps ==
    ASSUME RequestInv, ReceiveRest
    PROVE  RequestInv'
<1>1. /\ server = "rest" /\ frame # <<>> /\ frame \in Words /\ toServer \in Words
      /\ sending = <<>> /\ pipe \in Clients /\ client[pipe] # "idle"
  BY DEF RequestInv, IpcTypes, ServerHolds, ReceiveRest
<1>u. UNCHANGED <<sending, outcome, invalidated, pipe, toClient, clientVars>>
  BY DEF ReceiveRest
<1>2. ASSUME NEW n \in 1..Min(Len(toServer), frame[1] - Len(frame)),
             frame' = frame \o Take(toServer, n), toServer' = Drop(toServer, n),
             server' = IF Len(frame') = frame[1] THEN "handle" ELSE "rest"
      PROVE  RequestInv'
  <2>1. Len(toServer) \in Nat /\ Len(frame) \in Nat /\ 1 \in 1..Len(frame) /\ frame[1] \in Nat
    BY <1>1, SameWords
  <2>2. n \in 1..Len(toServer) /\ n \in 0..Len(toServer)
    BY <2>1 DEF Min
  <2>3. Take(toServer, n) \in Words
    BY <1>1, <2>2, TakeFacts
  <2>4. PICK w \in Words : w = Take(toServer, n)
    BY <2>3
  <2>5. (frame \o w)[1] = frame[1]
    BY <1>1, <2>1, ConcatFacts
  <2>6. frame'[1] = frame[1]
    BY <1>2, <2>4, <2>5
  <2>7. /\ server \in {"length", "rest"} /\ server' \in {"rest", "handle", "close"}
        /\ server' = "handle" => Len(frame') = frame'[1]
    BY <1>1, <1>2, <2>6
  <2> QED BY <1>2, <1>u, <2>2, <2>7, ServerReads
<1>3. ASSUME server' = "close", UNCHANGED <<frame, toServer>>
      PROVE  RequestInv'
  <2>1. ServerHolds' /\ RequestInTransit'
    BY <1>1, <1>3, <1>u DEF RequestInv, ServerHolds, RequestInTransit, clientVars
  <2> QED BY <1>3, <1>u, <2>1, ServerStepKeeps DEF RequestInv, IpcTypes
<1> QED
  BY <1>2, <1>3 DEF ReceiveRest

\* The frame that the server handles is the client's request, which the client has sent
\* to the last word.
LEMMA HandledIsRequest ==
    ASSUME RequestInv, server = "handle"
    PROVE  /\ pipe \in Clients /\ request[pipe] \in Asked /\ unsent[pipe] = <<>>
           /\ frame = EncodeRequest(request[pipe])
<1> DEFINE e == EncodeRequest(request[pipe])
<1>1. /\ frame \in Words /\ toServer \in Words /\ pipe \in Clients
      /\ frame # <<>> /\ Len(frame) = frame[1]
  BY DEF RequestInv, IpcTypes, ServerHolds
<1>2. unsent[pipe] \in Words /\ request[pipe] \in Asked
  BY <1>1 DEF RequestInv, IpcTypes
<1>3. e \in Words /\ e[1] = Len(e)
  BY <1>2, RequestFrame
<1>4. Parts(frame, toServer, unsent[pipe], e)
  BY DEF RequestInv, RequestInTransit
<1> HIDE DEF e
<1>5. 1 \in 1..Len(frame)
  BY <1>1, SameWords
<1>6. Len(frame) = Len(e)
  BY <1>1, <1>3, <1>4, <1>5 DEF Parts
<1>7. frame = e /\ unsent[pipe] = <<>>
  BY <1>1, <1>2, <1>3, <1>4, <1>6, PartsWhole
<1> QED
  BY <1>1, <1>2, <1>7 DEF e

\* The service invalidates a key only for a frame that a client sent.
LEMMA HandleKeeps ==
    ASSUME RequestInv, Handle
    PROVE  RequestInv'
<1>t. IpcTypes
  BY DEF RequestInv
<1>1. server = "handle" /\ UNCHANGED <<frame, pipeVars, clientVars>>
  BY <1>t, HandleEffect
<1>2. /\ pipe \in Clients /\ request[pipe] \in Asked /\ unsent[pipe] = <<>>
      /\ frame = EncodeRequest(request[pipe])
  BY <1>1, HandledIsRequest
<1>3. client[pipe] # "idle" /\ frame # <<>> /\ sending = <<>>
  BY <1>1 DEF RequestInv, ServerHolds
<1>4. RequestInTransit'
  BY <1>1 DEF RequestInv, RequestInTransit, pipeVars, clientVars
<1>5. CASE server' = "close" /\ UNCHANGED <<sending, outcome, invalidated>>
  <2>1. ServerHolds'
    BY <1>1, <1>2, <1>3, <1>5 DEF ServerHolds, pipeVars, clientVars
  <2> QED BY <1>t, <1>1, <1>4, <1>5, <2>1, ServerStepKeeps DEF IpcTypes, pipeVars
<1>6. CASE \E type \in Nat, payload \in Words : Replies(type, payload)
  <2>1. PICK type \in Nat, payload \in Words : Replies(type, payload)
    BY <1>6
  <2>2. server' = "reply" /\ sending' = Encode(type + 1, ProtocolVersion, payload)
    BY <2>1 DEF Replies
  <2>3. outcome' = [outcome EXCEPT ![pipe] = payload]
    BY <2>1 DEF Replies
  <2>4. sending' \in Words
    <3>1. type + 1 \in Nat /\ ProtocolVersion \in Nat
      BY DEF ProtocolVersion
    <3> QED BY <2>2, <3>1, EncodeFacts DEF IsFrame
  <2>5. IpcTypes'
    BY <1>t, <1>1, <2>2, <2>3, <2>4 DEF IpcTypes, pipeVars, clientVars
  <2>6. ServerHolds'
    BY <1>1, <1>2, <1>3, <2>2 DEF ServerHolds, pipeVars, clientVars
  <2>7. \A c \in Clients : ClientHolds(c)'
    BY <1>t, <1>1, <1>3, <2>3 DEF RequestInv, ClientHolds, IpcTypes, clientVars
  <2>8. CASE UNCHANGED invalidated
    <3>1. InvalidatedWereAsked'
      BY <1>1, <2>8 DEF RequestInv, InvalidatedWereAsked, clientVars
    <3> QED BY <1>4, <2>5, <2>6, <2>7, <3>1 DEF RequestInv
  <2>9. CASE /\ DecodesInvalidateKeyRequest(frame)
             /\ invalidated' = invalidated \cup {KeyOf(frame)}
    <3>1. request[pipe] = [type |-> InvalidateKeyRequest, version |-> ProtocolVersion,
                           key |-> KeyOf(frame)]
      BY <1>2, <2>9, RequestDecodes
    <3>2. InvalidatedWereAsked'
      <4>1. UNCHANGED <<request, unsent>>
        BY <1>1 DEF clientVars
      <4> QED BY <1>2, <2>9, <3>1, <4>1 DEF RequestInv, InvalidatedWereAsked
    <3> QED BY <1>4, <2>5, <2>6, <2>7, <3>2 DEF RequestInv
  <2> QED BY <2>1, <2>8, <2>9 DEF Replies
<1> QED
  BY <1>t, <1>5, <1>6, HandleEffect

\* What a write takes of what there is to send.
LEMMA WriteTakes ==
    ASSUME NEW b \in Words, NEW r \in Words, Len(b) < PipeBufferSize
    PROVE  /\ Min(PipeBufferSize - Len(b), Len(r)) \in 0..Len(r)
           /\ b \o Take(r, Min(PipeBufferSize - Len(b), Len(r))) \in Words
           /\ Drop(r, Min(PipeBufferSize - Len(b), Len(r))) \in Words
<1> DEFINE n == Min(PipeBufferSize - Len(b), Len(r))
<1>1. n \in 0..Len(r)
  <2>1. Len(b) \in Nat /\ Len(r) \in Nat
    BY SameWords
  <2> QED BY <2>1, IpcAssumption DEF Min
<1> HIDE DEF n
<1>2. Take(r, n) \in Words /\ Drop(r, n) \in Words
  BY <1>1, TakeFacts, DropFacts
<1>3. PICK w \in Words : w = Take(r, n)
  BY <1>2
<1>4. b \o w \in Words
  BY ConcatFacts
<1>5. n \in 0..Len(r) /\ b \o Take(r, n) \in Words /\ Drop(r, n) \in Words
  BY <1>1, <1>2, <1>3, <1>4
<1> QED
  BY <1>5 DEF n

\* The service writes its reply.
LEMMA SendFrameKeeps ==
    ASSUME RequestInv, SendFrame
    PROVE  RequestInv'
<1>1. /\ server = "reply" /\ pipe \in Clients /\ client[pipe] # "idle"
      /\ sending \in Words /\ toClient \in Words
      /\ UNCHANGED <<frame, outcome, invalidated, pipe, toServer, clientVars>>
  BY DEF RequestInv, IpcTypes, ServerHolds, SendFrame
<1>2. /\ server' \in {"reply", "close"} /\ toClient' \in Words /\ sending' \in Words
      /\ server' = "close" => sending' = <<>>
  <2>1. CASE ClientGone
    <3>1. sending' = <<>> /\ server' = "close" /\ UNCHANGED toClient
      BY <2>1 DEF SendFrame
    <3> QED BY <1>1, <3>1 DEF Words
  <2>2. CASE ~ClientGone
    <3> DEFINE n == Min(PipeBufferSize - Len(toClient), Len(sending))
    <3>1. /\ Len(toClient) < PipeBufferSize
          /\ toClient' = toClient \o Take(sending, n) /\ sending' = Drop(sending, n)
          /\ server' = IF sending' = <<>> THEN "close" ELSE "reply"
      BY <2>2 DEF SendFrame
    <3> QED BY <1>1, <3>1, WriteTakes
  <2> QED BY <2>1, <2>2
<1>3. ServerHolds'
  BY <1>1, <1>2 DEF ServerHolds, clientVars
<1>4. RequestInTransit'
  BY <1>1 DEF RequestInv, RequestInTransit, clientVars
<1> QED
  BY <1>1, <1>2, <1>3, <1>4, ServerStepKeeps DEF RequestInv, IpcTypes

\* The service disconnects the pipe, and what is in it is gone.
LEMMA CloseKeeps ==
    ASSUME RequestInv, Close
    PROVE  RequestInv'
<1>1. /\ server = "close" /\ server' = "accept" /\ sending = <<>>
      /\ frame' = <<>> /\ pipe' = NoClient /\ toServer' = <<>> /\ toClient' = <<>>
      /\ UNCHANGED <<sending, outcome, invalidated, clientVars>>
  BY DEF RequestInv, ServerHolds, Close
<1>2. <<>> \in Words
  BY DEF Words
<1>3. ServerHolds' /\ RequestInTransit'
  BY <1>1 DEF ServerHolds, RequestInTransit
<1> QED
  BY <1>1, <1>2, <1>3, ServerStepKeeps DEF RequestInv, IpcTypes

\* A client gets the pipe while it is empty.
LEMMA ConnectKeeps ==
    ASSUME RequestInv, NEW c \in Clients, Connect(c)
    PROVE  RequestInv'
<1>1. PICK r \in Requests : /\ request' = [request EXCEPT ![c] = r]
                            /\ unsent' = [unsent EXCEPT ![c] = EncodeRequest(r)]
  BY DEF Connect
<1>2. /\ client[c] = "idle" /\ server = "accept"
      /\ client' = [client EXCEPT ![c] = "send"] /\ pipe' = c /\ server' = "length"
      /\ UNCHANGED <<frame, sending, outcome, invalidated, toServer, toClient, received,
                     left, result>>
  BY DEF Connect
<1>3. r \in Asked
  BY IpcAssumption DEF Asked, Words
<1>4. EncodeRequest(r) \in Words /\ EncodeRequest(r) # <<>>
  BY <1>3, RequestFrame
<1>5. frame = <<>> /\ toServer = <<>> /\ sending = <<>> /\ request[c] = NoRequest
  BY <1>2 DEF RequestInv, ServerHolds, ClientHolds
<1>6. IpcTypes'
  BY <1>1, <1>2, <1>3, <1>4 DEF RequestInv, IpcTypes
<1>7. client'[c] = "send" /\ request'[c] = r /\ unsent'[c] = EncodeRequest(r)
  BY <1>1, <1>2 DEF RequestInv, IpcTypes
<1>8. ServerHolds'
  BY <1>2, <1>5, <1>7 DEF ServerHolds
<1>9. ASSUME NEW d \in Clients PROVE ClientHolds(d)'
  <2>1. CASE d = c
    BY <1>4, <1>7, <2>1 DEF ClientHolds
  <2>2. CASE d # c
    BY <1>1, <1>2, <2>2 DEF RequestInv, IpcTypes, ClientHolds
  <2> QED BY <2>1, <2>2
<1>10. RequestInTransit'
  <2>1. Parts(<<>>, <<>>, EncodeRequest(r), EncodeRequest(r))
    BY <1>4, PartsStart
  <2> QED BY <1>2, <1>5, <1>7, <2>1 DEF RequestInTransit
<1>11. InvalidatedWereAsked'
  <2>1. \A d \in Clients : \/ request[d] = NoRequest
                           \/ /\ request'[d] = request[d]
                              /\ unsent[d] = <<>> => unsent'[d] = <<>>
    BY <1>1, <1>5 DEF RequestInv, IpcTypes
  <2> QED BY <1>2, <2>1, AskedStays DEF RequestInv
<1> QED
  BY <1>6, <1>8, <1>9, <1>10, <1>11 DEF RequestInv

\* A client reads, finds the pipe broken or leaves: the way of the request is not concerned.
LEMMA ClientMoves ==
    ASSUME RequestInv, NEW c \in Clients, client[c] # "idle",
           NEW s \in {"length", "rest", "gone"}, client' = [client EXCEPT ![c] = s],
           UNCHANGED <<serverVars, pipe, toServer, request, unsent>>,
           toClient' \in Words, received' \in [Clients -> Words],
           left' \in [Clients -> BOOLEAN], result' \in [Clients -> Words],
           server = "accept" => toClient' = toClient,
           \A d \in Clients \ {c} : received'[d] = received[d] /\ result'[d] = result[d]
    PROVE  RequestInv'
<1>1. IpcTypes'
  BY DEF RequestInv, IpcTypes, serverVars
<1>2. client'[c] = s /\ \A d \in Clients \ {c} : client'[d] = client[d]
  BY DEF RequestInv, IpcTypes
<1>3. ServerHolds'
  BY <1>2 DEF RequestInv, ServerHolds, serverVars
<1>4. \A d \in Clients : ClientHolds(d)'
  BY <1>2 DEF RequestInv, ClientHolds, serverVars
<1>5. RequestInTransit' /\ InvalidatedWereAsked'
  BY DEF RequestInv, RequestInTransit, InvalidatedWereAsked, serverVars
<1> QED
  BY <1>1, <1>3, <1>4, <1>5 DEF RequestInv

\* A client writes its request, all of it or as much as gets through.
LEMMA SendKeeps ==
    ASSUME RequestInv, NEW c \in Clients, Send(c)
    PROVE  RequestInv'
<1>u. /\ client[c] = "send"
      /\ UNCHANGED <<serverVars, pipe, toClient, request, received, left, result>>
  BY DEF Send
<1>1. CASE pipe = c
  <2> DEFINE n == Min(PipeBufferSize - Len(toServer), Len(unsent[c]))
             e == EncodeRequest(request[c])
  <2>1. /\ Len(toServer) < PipeBufferSize
        /\ toServer' = toServer \o Take(unsent[c], n)
        /\ unsent' = [unsent EXCEPT ![c] = Drop(unsent[c], n)]
        /\ client' = [client EXCEPT ![c] = IF unsent'[c] = <<>> THEN "length" ELSE "send"]
    BY <1>1 DEF Send
  <2>2. /\ frame \in Words /\ toServer \in Words /\ unsent[c] \in Words
        /\ request[c] \in Asked
    BY DEF RequestInv, IpcTypes
  <2>3. e \in Words
    BY <2>2, RequestFrame
  <2>4. n \in 0..Len(unsent[c]) /\ toServer' \in Words /\ Drop(unsent[c], n) \in Words
    BY <2>1, <2>2, WriteTakes
  <2>5. server # "accept"
    BY <1>1, ClientAssumption DEF RequestInv, ServerHolds
  <2>6. Parts(frame, toServer, unsent[c], e)
    BY <1>1, <2>5 DEF RequestInv, RequestInTransit
  <2> HIDE DEF n, e
  <2>7. Parts(frame, toServer', Drop(unsent[c], n), e)
    BY <2>1, <2>2, <2>3, <2>4, <2>6, PartsWrite
  <2>8. unsent'[c] = Drop(unsent[c], n) /\ \A d \in Clients \ {c} : unsent'[d] = unsent[d]
    BY <2>1 DEF RequestInv, IpcTypes
  <2>9. /\ client'[c] = IF unsent'[c] = <<>> THEN "length" ELSE "send"
        /\ \A d \in Clients \ {c} : client'[d] = client[d]
    BY <2>1 DEF RequestInv, IpcTypes
  <2>10. IpcTypes'
    BY <1>u, <2>1, <2>4 DEF RequestInv, IpcTypes, serverVars
  <2>11. ServerHolds'
    BY <1>1, <1>u, <2>5, <2>9 DEF RequestInv, ServerHolds, serverVars
  <2>12. \A d \in Clients : ClientHolds(d)'
    BY <1>u, <2>8, <2>9 DEF RequestInv, ClientHolds, serverVars
  <2>13. RequestInTransit'
    BY <1>1, <1>u, <2>7, <2>8 DEF RequestInTransit, serverVars, e
  <2>14. InvalidatedWereAsked'
    <3>1. unsent[c] # <<>>
      BY <1>u DEF RequestInv, ClientHolds
    <3>2. \A d \in Clients : \/ request[d] = NoRequest
                             \/ /\ request'[d] = request[d]
                                /\ unsent[d] = <<>> => unsent'[d] = <<>>
      BY <1>u, <2>8, <3>1
    <3> QED BY <1>u, <3>2, AskedStays DEF RequestInv, serverVars
  <2> QED BY <2>10, <2>11, <2>12, <2>13, <2>14 DEF RequestInv
<1>2. CASE pipe # c
  <2>1. client' = [client EXCEPT ![c] = "gone"] /\ UNCHANGED <<toServer, unsent>>
    BY <1>2 DEF Send, Gone
  <2> QED BY <1>u, <2>1, ClientMoves DEF RequestInv, IpcTypes
<1> QED
  BY <1>1, <1>2

\* What a read takes of the reply.
LEMMA ReceiveEffect ==
    ASSUME RequestInv, NEW c \in Clients, Receive(c), pipe = c
    PROVE  \E n \in 1..Len(toClient), f \in Words :
              /\ f = received[c] \o Take(toClient, n) /\ Drop(toClient, n) \in Words
              /\ received' = [received EXCEPT ![c] = f] /\ toClient' = Drop(toClient, n)
              /\ received[c] = <<>> => n = 1
              /\ IF f[1] \in 1..MaxFrameLength /\ Len(f) < f[1]
                 THEN client' = [client EXCEPT ![c] = "rest"] /\ UNCHANGED result
                 ELSE /\ client' = [client EXCEPT ![c] = "gone"]
                      /\ result' = IF Accepted(c, f)
                                   THEN [result EXCEPT ![c] = Drop(f, 3)] ELSE result
<1>1. toClient \in Words /\ received[c] \in Words
  BY DEF RequestInv, IpcTypes
<1>2. Len(toClient) \in Nat
  BY <1>1, SameWords
<1> DEFINE wanted == IF received[c] = <<>> THEN 1 ELSE received[c][1] - Len(received[c])
<1>3. PICK n \in 1..Min(Len(toClient), wanted) :
         LET f == received[c] \o Take(toClient, n)
         IN  /\ received' = [received EXCEPT ![c] = f]
             /\ toClient' = Drop(toClient, n)
             /\ IF f[1] \in 1..MaxFrameLength /\ Len(f) < f[1]
                THEN client' = [client EXCEPT ![c] = "rest"] /\ UNCHANGED result
                ELSE /\ client' = [client EXCEPT ![c] = "gone"]
                     /\ result' = IF Accepted(c, f)
                                  THEN [result EXCEPT ![c] = Drop(f, 3)] ELSE result
  BY Zenon DEF Receive, Gone
<1>w. wanted \in Int /\ (received[c] = <<>> => wanted = 1)
  <2>1. received[c] # <<>> => 1 \in 1..Len(received[c])
    BY <1>1, SameWords
  <2> QED BY <1>1, <2>1, SameWords
<1> HIDE DEF wanted
<1>4. n \in 1..Len(toClient) /\ n \in 0..Len(toClient) /\ (received[c] = <<>> => n = 1)
  BY <1>2, <1>w DEF Min
<1>5. Take(toClient, n) \in Words /\ Drop(toClient, n) \in Words
  BY <1>1, <1>4, TakeFacts, DropFacts
<1>6. PICK w \in Words : w = Take(toClient, n)
  BY <1>5
<1>7. received[c] \o w \in Words
  BY <1>1, ConcatFacts
<1>8. PICK f \in Words : f = received[c] \o Take(toClient, n)
  BY <1>6, <1>7
<1>9. /\ received' = [received EXCEPT ![c] = f]
      /\ toClient' = Drop(toClient, n)
      /\ IF f[1] \in 1..MaxFrameLength /\ Len(f) < f[1]
         THEN client' = [client EXCEPT ![c] = "rest"] /\ UNCHANGED result
         ELSE /\ client' = [client EXCEPT ![c] = "gone"]
              /\ result' = IF Accepted(c, f)
                           THEN [result EXCEPT ![c] = Drop(f, 3)] ELSE result
  BY <1>3, <1>8, Zenon
<1> QED
  BY <1>4, <1>5, <1>8, <1>9, Zenon

\* A client reads its reply, part by part.
LEMMA ReceiveKeeps ==
    ASSUME RequestInv, NEW c \in Clients, Receive(c)
    PROVE  RequestInv'
<1>1. /\ client[c] # "idle"
      /\ UNCHANGED <<serverVars, pipe, toServer, request, unsent, left>>
  BY DEF Receive
<1>2. /\ toClient \in Words /\ received \in [Clients -> Words]
      /\ left \in [Clients -> BOOLEAN] /\ result \in [Clients -> Words]
  BY DEF RequestInv, IpcTypes
<1>3. CASE pipe = c
  <2>1. PICK n \in 1..Len(toClient), f \in Words :
           /\ f = received[c] \o Take(toClient, n) /\ Drop(toClient, n) \in Words
           /\ received' = [received EXCEPT ![c] = f] /\ toClient' = Drop(toClient, n)
           /\ received[c] = <<>> => n = 1
           /\ IF f[1] \in 1..MaxFrameLength /\ Len(f) < f[1]
              THEN client' = [client EXCEPT ![c] = "rest"] /\ UNCHANGED result
              ELSE /\ client' = [client EXCEPT ![c] = "gone"]
                   /\ result' = IF Accepted(c, f)
                                THEN [result EXCEPT ![c] = Drop(f, 3)] ELSE result
    BY <1>3, ReceiveEffect
  <2>2. \E s \in {"length", "rest", "gone"} : client' = [client EXCEPT ![c] = s]
    BY <2>1
  <2>3. Accepted(c, f) => Drop(f, 3) \in Words
    <3>1. Len(f) \in Nat /\ (Accepted(c, f) => Len(f) >= 3)
      BY SameWords DEF Accepted, CheckHeader
    <3>2. Accepted(c, f) => 3 \in 0..Len(f)
      BY <3>1
    <3> QED BY <3>2, DropFacts
  <2>4. /\ received' \in [Clients -> Words] /\ result' \in [Clients -> Words]
        /\ \A d \in Clients \ {c} : received'[d] = received[d] /\ result'[d] = result[d]
    BY <1>2, <2>1, <2>3
  <2>5. toClient' \in Words /\ left' \in [Clients -> BOOLEAN]
    BY <1>1, <1>2, <2>1
  <2>6. server # "accept"
    BY <1>3, ClientAssumption DEF RequestInv, ServerHolds
  <2> QED BY <1>1, <2>2, <2>4, <2>5, <2>6, ClientMoves
<1>4. CASE pipe # c
  <2>1. client' = [client EXCEPT ![c] = "gone"] /\ UNCHANGED <<received, toClient, result>>
    BY <1>4 DEF Receive, Gone
  <2> QED BY <1>1, <1>2, <2>1, ClientMoves
<1> QED
  BY <1>3, <1>4

\* A client gives up or goes away.
LEMMA LeaveKeeps ==
    ASSUME RequestInv, NEW c \in Clients, Leave(c)
    PROVE  RequestInv'
<1>1. /\ client[c] # "idle" /\ client' = [client EXCEPT ![c] = "gone"]
      /\ left' = [left EXCEPT ![c] = TRUE]
      /\ UNCHANGED <<serverVars, pipeVars, request, unsent, received, result>>
  BY DEF Leave, Gone
<1>2. left' \in [Clients -> BOOLEAN]
  BY <1>1 DEF RequestInv, IpcTypes
<1> QED
  BY <1>1, <1>2, ClientMoves DEF RequestInv, IpcTypes, pipeVars

\* The service and its clients keep RequestInv: whatever has been read of a request, is in
\* the buffer and is yet to be sent make up the frame of the request, in this order.
THEOREM RequestInvHolds == Spec => []RequestInv
<1>1. Init => RequestInv
  <2> SUFFICES ASSUME Init PROVE RequestInv
    OBVIOUS
  <2>1. <<>> \in Words
    BY DEF Words
  <2>2. NoRequest \in Asked
    BY <2>1 DEF NoRequest, Asked
  <2>3. IpcTypes
    BY <2>1, <2>2 DEF Init, IpcTypes
  <2>4. ServerHolds /\ RequestInTransit /\ InvalidatedWereAsked
    BY DEF Init, ServerHolds, RequestInTransit, InvalidatedWereAsked
  <2>5. \A c \in Clients : ClientHolds(c)
    BY DEF Init, ClientHolds
  <2> QED BY <2>3, <2>4, <2>5 DEF RequestInv
<1>2. RequestInv /\ [Next]_vars => RequestInv'
  <2> SUFFICES ASSUME RequestInv, [Next]_vars PROVE RequestInv'
    OBVIOUS
  <2>1. CASE ServerStep
    BY <2>1, ReceiveLengthKeeps, ReceiveRestKeeps, HandleKeeps, SendFrameKeeps, CloseKeeps
       DEF ServerStep
  <2>2. CASE \E c \in Clients : Connect(c) \/ ClientStep(c) \/ Leave(c)
    BY <2>2, ConnectKeeps, SendKeeps, ReceiveKeeps, LeaveKeeps DEF ClientStep
  <2>3. CASE UNCHANGED vars
    BY <2>3 DEF RequestInv, IpcTypes, ServerHolds, ClientHolds, RequestInTransit,
       InvalidatedWereAsked, vars, serverVars, clientVars, pipeVars
  <2> QED BY <2>1, <2>2, <2>3 DEF Next, AtRest
<1> QED
  BY <1>1, <1>2, PTL DEF Spec

\* ForceInvalidate is called for a key only if a client of the service's version has asked
\* for that very key, in a frame it has sent whole: for any number of clients, any requests
\* and any sizes of the buffers, the frames and the keys.
THEOREM OnlyAskedIsInvalidated == Spec => []InvalidatedWereAsked
<1>1. RequestInv => InvalidatedWereAsked
  BY DEF RequestInv
<1> QED
  BY <1>1, RequestInvHolds, PTL

-----------------------------------------------------------------------------
(* Replies: the invariant, action by action.                               *)

\* The server receives, or gives up: nobody has been replied to.
LEMMA ReceivingKeepsReplies ==
    ASSUME ReplyInv, server \in {"length", "rest"}, server' \in {"rest", "handle", "close"},
           UNCHANGED <<sending, outcome, pipe, toClient, clientVars>>
    PROVE  ReplyInv'
<1>1. ReplyInTransit'
  BY DEF ReplyInv, ReplyInTransit, Unanswered, clientVars
<1>2. \A c \in Clients : ClientWaits(c)'
  BY DEF ReplyInv, ClientWaits, clientVars
<1>3. RunIsAnswered'
  BY DEF ReplyInv, RunIsAnswered, clientVars
<1> QED
  BY <1>1, <1>2, <1>3 DEF ReplyInv

\* The reply to a request carries the type that belongs to the request, the service's
\* version and the outcome.
LEMMA ReplyFrame ==
    ASSUME RequestInv, NEW c \in Clients
    PROVE  IsFrame(ReplyTo(c), request[c].type + 1, ProtocolVersion, outcome[c])
<1>1. request[c].type + 1 \in Nat /\ ProtocolVersion \in Nat /\ outcome[c] \in Words
  BY DEF RequestInv, IpcTypes, Asked, ProtocolVersion
<1> QED
  BY <1>1, EncodeFacts DEF ReplyTo

\* The reply the service makes is the one for the request it has read.
LEMMA HandleKeepsReplies ==
    ASSUME RequestInv, ReplyInv, Handle
    PROVE  ReplyInv'
<1>t. IpcTypes
  BY DEF RequestInv
<1>1. server = "handle" /\ UNCHANGED <<frame, pipeVars, clientVars>>
  BY <1>t, HandleEffect
<1>2. /\ pipe \in Clients /\ request[pipe] \in Asked /\ unsent[pipe] = <<>>
      /\ frame = EncodeRequest(request[pipe])
  BY <1>1, HandledIsRequest
<1>3. Unanswered(pipe) /\ toClient = <<>>
  BY <1>1 DEF ReplyInv, ReplyInTransit
<1>4. CASE server' = "close" /\ UNCHANGED <<sending, outcome, invalidated>>
  <2>1. ReplyInTransit'
    BY <1>1, <1>3, <1>4 DEF ReplyInTransit, Unanswered, pipeVars, clientVars
  <2>2. \A c \in Clients : ClientWaits(c)'
    BY <1>1, <1>4 DEF ReplyInv, ClientWaits, pipeVars, clientVars
  <2>3. RunIsAnswered'
    BY <1>1, <1>4 DEF ReplyInv, RunIsAnswered, clientVars
  <2> QED BY <2>1, <2>2, <2>3 DEF ReplyInv
<1>5. CASE \E type \in Nat, payload \in Words : Replies(type, payload)
  <2>1. PICK type \in Nat, payload \in Words : Replies(type, payload)
    BY <1>5
  <2>2. /\ server' = "reply" /\ sending' = Encode(type + 1, ProtocolVersion, payload)
        /\ outcome' = [outcome EXCEPT ![pipe] = payload]
        /\ frame[2] = type /\ Len(payload) = 1
    BY <2>1 DEF Replies
  <2>3. /\ outcome'[pipe] = payload
        /\ \A c \in Clients \ {pipe} : outcome'[c] = outcome[c]
    BY <1>t, <1>2, <2>2 DEF IpcTypes
  <2>4. request[pipe].type = type
    BY <1>2, <2>2, RequestFrame
  <2>u. pipe' = pipe /\ UNCHANGED <<client, request, received, left, result, toClient>>
    BY <1>1 DEF pipeVars, clientVars
  <2>5. ReplyTo(pipe)' = sending'
    BY <2>2, <2>3, <2>4, <2>u DEF ReplyTo
  <2>6. sending' \in Words
    <3>1. type + 1 \in Nat /\ ProtocolVersion \in Nat
      BY DEF ProtocolVersion
    <3> QED BY <2>2, <3>1, EncodeFacts DEF IsFrame
  <2>7. Parts(<<>>, <<>>, sending', sending')
    BY <2>6, PartsStart
  <2>8. Answered(pipe)'
    <3>1. client[pipe] # "send"
      BY <1>2 DEF RequestInv, ClientHolds
    <3>2. Parts(received[pipe], toClient, sending', sending')
      BY <1>3, <2>7 DEF Unanswered
    <3> QED BY <2>2, <2>3, <2>5, <2>u, <3>1, <3>2 DEF Answered
  <2>9. ReplyInTransit'
    BY <2>2, <2>8 DEF ReplyInTransit
  <2>10. \A c \in Clients : ClientWaits(c)'
    BY <2>3, <2>u DEF ReplyInv, ClientWaits
  <2>11. RunIsAnswered'
    BY <1>2, <1>3, <2>3, <2>u DEF ReplyInv, RunIsAnswered, Unanswered
  <2> QED BY <2>9, <2>10, <2>11 DEF ReplyInv
<1> QED
  BY <1>t, <1>4, <1>5, HandleEffect

\* The reply goes to the client that asked.
LEMMA SendFrameKeepsReplies ==
    ASSUME RequestInv, ReplyInv, SendFrame
    PROVE  ReplyInv'
<1>1. /\ server = "reply" /\ pipe \in Clients /\ sending \in Words /\ toClient \in Words
      /\ received[pipe] \in Words /\ Answered(pipe)
  BY DEF RequestInv, IpcTypes, ServerHolds, SendFrame, ReplyInv, ReplyInTransit
<1>u. UNCHANGED <<outcome, pipe, client, request, received, left, result>>
  BY DEF SendFrame, clientVars
<1>2. Answered(pipe)' /\ server' \in {"reply", "close"}
  <2>1. CASE ClientGone
    BY <1>1, <1>u, <2>1 DEF SendFrame, Answered, ClientGone
  <2>2. CASE ~ClientGone
    <3> DEFINE n == Min(PipeBufferSize - Len(toClient), Len(sending))
    <3>1. /\ Len(toClient) < PipeBufferSize
          /\ toClient' = toClient \o Take(sending, n) /\ sending' = Drop(sending, n)
          /\ server' = IF sending' = <<>> THEN "close" ELSE "reply"
      BY <2>2 DEF SendFrame
    <3>2. n \in 0..Len(sending)
      BY <1>1, <3>1, WriteTakes
    <3>3. ReplyTo(pipe) \in Words
      BY <1>1, ReplyFrame DEF IsFrame
    <3> HIDE DEF n
    <3>4. ASSUME Parts(received[pipe], toClient, sending, ReplyTo(pipe))
          PROVE  Parts(received[pipe], toClient', sending', ReplyTo(pipe))
      BY <1>1, <3>1, <3>2, <3>3, <3>4, PartsWrite
    <3>5. ReplyTo(pipe)' = ReplyTo(pipe)
      BY <1>u DEF ReplyTo
    <3> QED BY <1>1, <1>u, <3>1, <3>4, <3>5 DEF Answered
  <2> QED BY <2>1, <2>2
<1>3. ReplyInTransit'
  BY <1>2 DEF ReplyInTransit
<1>4. \A c \in Clients : ClientWaits(c)'
  BY <1>u DEF ReplyInv, ClientWaits
<1>5. RunIsAnswered'
  BY <1>u DEF ReplyInv, RunIsAnswered
<1> QED
  BY <1>3, <1>4, <1>5 DEF ReplyInv

\* The server closes the pipe: FlushFileBuffers has seen to it that a client still there
\* has read the whole reply, and so it is not waiting.
LEMMA CloseKeepsReplies ==
    ASSUME RequestInv, ReplyInv, Close
    PROVE  ReplyInv'
<1>1. /\ server = "close" /\ server' = "accept" /\ pipe' = NoClient
      /\ toClient = <<>> \/ client[pipe] = "gone"
      /\ UNCHANGED <<sending, outcome, clientVars>>
  BY DEF Close, ClientGone
<1>2. pipe \in Clients /\ sending = <<>>
  BY <1>1 DEF RequestInv, ServerHolds
<1>3. ASSUME client[pipe] \in {"send", "length", "rest"} PROVE outcome[pipe] = <<>>
  <2>1. CASE Unanswered(pipe)
    BY <2>1 DEF Unanswered
  <2>2. CASE Answered(pipe)
    <3>1. /\ client[pipe] \in {"length", "rest"} /\ toClient = <<>>
          /\ Parts(received[pipe], toClient, sending, ReplyTo(pipe))
      BY <1>1, <1>3, <2>2 DEF Answered
    <3>2. IsFrame(ReplyTo(pipe), request[pipe].type + 1, ProtocolVersion, outcome[pipe])
      BY <1>2, ReplyFrame
    <3>3. Len(ReplyTo(pipe)) = 4
      BY <2>2, <3>2 DEF IsFrame, Answered
    <3>4. Len(<<>>) = 0 /\ received[pipe] \in Words
      BY <1>2 DEF RequestInv, IpcTypes
    <3>5. Len(received[pipe]) = 4
      BY <1>2, <3>1, <3>3, <3>4, SameWords DEF Parts
    <3>6. Len(received[pipe]) = 0 \/ Len(received[pipe]) \in 1..3
      BY <1>2, <3>1, <3>4 DEF ReplyInv, ClientWaits
    <3> QED BY <3>5, <3>6
  <2> QED BY <1>1, <2>1, <2>2 DEF ReplyInv, ReplyInTransit
<1>4. ReplyInTransit'
  BY <1>1 DEF ReplyInTransit
<1>5. \A c \in Clients : ClientWaits(c)'
  BY <1>1, <1>3 DEF ReplyInv, ClientWaits, clientVars
<1>6. RunIsAnswered'
  BY <1>1 DEF ReplyInv, RunIsAnswered, clientVars
<1> QED
  BY <1>4, <1>5, <1>6 DEF ReplyInv

\* A client that connects finds no earlier reply in the pipe.
LEMMA ConnectKeepsReplies ==
    ASSUME RequestInv, ReplyInv, NEW c \in Clients, Connect(c)
    PROVE  ReplyInv'
<1>1. /\ client[c] = "idle" /\ server = "accept" /\ pipe = NoClient
      /\ client' = [client EXCEPT ![c] = "send"] /\ pipe' = c /\ server' = "length"
      /\ UNCHANGED <<sending, outcome, toClient, received, left, result>>
      /\ \E r \in Requests : request' = [request EXCEPT ![c] = r]
  BY DEF Connect
<1>2. /\ toClient = <<>>
      /\ received[c] = <<>> /\ outcome[c] = <<>> /\ result[c] = <<>>
  BY <1>1 DEF RequestInv, ServerHolds, ClientHolds
<1>3. /\ client'[c] = "send"
      /\ \A d \in Clients \ {c} : client'[d] = client[d] /\ request'[d] = request[d]
  BY <1>1 DEF RequestInv, IpcTypes
<1>4. ReplyInTransit'
  BY <1>1, <1>2, <1>3 DEF ReplyInTransit, Unanswered
<1>5. \A d \in Clients : ClientWaits(d)'
  BY <1>1, <1>2, <1>3, ClientAssumption DEF ReplyInv, ClientWaits
<1>6. RunIsAnswered'
  BY <1>1, <1>2, <1>3 DEF ReplyInv, RunIsAnswered
<1> QED
  BY <1>4, <1>5, <1>6 DEF ReplyInv

\* A client finds that the pipe is no longer its own, or leaves.
LEMMA GoingKeepsReplies ==
    ASSUME RequestInv, ReplyInv, NEW c \in Clients,
           client[c] \in {"send", "length", "rest"},
           client' = [client EXCEPT ![c] = "gone"],
           UNCHANGED <<serverVars, pipe, toClient, request, received, result>>,
           \/ pipe # c /\ UNCHANGED left
           \/ left' = [left EXCEPT ![c] = TRUE]
    PROVE  ReplyInv'
<1>1. /\ client'[c] = "gone" /\ (pipe = c => left'[c])
      /\ \A d \in Clients \ {c} : client'[d] = client[d] /\ left'[d] = left[d]
  BY DEF RequestInv, IpcTypes
<1>u. UNCHANGED <<server, sending, outcome, pipe, toClient, request, received, result>>
  BY DEF serverVars
<1>2. ReplyInTransit'
  <2>1. server # "accept" => pipe \in Clients
    BY DEF RequestInv, ServerHolds
  <2>2. server # "accept" /\ Unanswered(pipe) => Unanswered(pipe)'
    BY <1>1, <1>u, <2>1 DEF Unanswered
  <2>3. ReplyTo(pipe)' = ReplyTo(pipe)
    BY <1>u DEF ReplyTo
  <2>4. server # "accept" /\ Answered(pipe) => Answered(pipe)'
    BY <1>1, <1>u, <2>1, <2>3 DEF Answered
  <2> QED BY <1>u, <2>2, <2>4 DEF ReplyInv, ReplyInTransit
<1>3. \A d \in Clients : ClientWaits(d)'
  BY <1>1, <1>u DEF ReplyInv, ClientWaits
<1>4. RunIsAnswered'
  <2>1. \/ left'[c]
        \/ outcome[c] = <<>>
    BY DEF RequestInv, IpcTypes, ReplyInv, ClientWaits
  <2> QED BY <1>1, <1>u, <2>1 DEF ReplyInv, RunIsAnswered
<1> QED
  BY <1>2, <1>3, <1>4 DEF ReplyInv

\* A request that is being sent has no reply yet.
LEMMA SendKeepsReplies ==
    ASSUME RequestInv, ReplyInv, NEW c \in Clients, Send(c)
    PROVE  ReplyInv'
<1>u. /\ client[c] = "send"
      /\ UNCHANGED <<serverVars, pipe, toClient, request, received, left, result>>
  BY DEF Send
<1>1. CASE pipe = c
  <2>1. client' = [client EXCEPT ![c] = IF unsent'[c] = <<>> THEN "length" ELSE "send"]
    BY <1>1 DEF Send
  <2>2. /\ client'[c] \in {"send", "length"}
        /\ \A d \in Clients \ {c} : client'[d] = client[d]
    BY <2>1 DEF RequestInv, IpcTypes
  <2>3. ~Answered(pipe) /\ server # "accept"
    BY <1>1, <1>u, ClientAssumption DEF Answered, RequestInv, ServerHolds
  <2>4. ReplyInTransit'
    BY <1>1, <1>u, <2>2, <2>3 DEF ReplyInv, ReplyInTransit, Unanswered, serverVars
  <2>5. \A d \in Clients : ClientWaits(d)'
    BY <1>1, <1>u, <2>2 DEF ReplyInv, ClientWaits, serverVars
  <2>6. RunIsAnswered'
    BY <1>u, <2>2 DEF ReplyInv, RunIsAnswered, serverVars
  <2> QED BY <2>4, <2>5, <2>6 DEF ReplyInv
<1>2. CASE pipe # c
  <2>1. client' = [client EXCEPT ![c] = "gone"]
    BY <1>2 DEF Send, Gone
  <2> QED BY <1>u, <1>2, <2>1, GoingKeepsReplies
<1> QED
  BY <1>1, <1>2

\* Parts of a reply that are all there are the reply, and its payload is the outcome.
LEMMA WholeReply ==
    ASSUME RequestInv, NEW c \in Clients, Answered(c),
           NEW f \in Words, NEW b \in Words, f # <<>>,
           Parts(f, b, sending, ReplyTo(c))
    PROVE  /\ f[1] = 4 /\ Len(f) \in 1..4
           /\ Len(f) = 4 => /\ f[2] = request[c].type + 1 /\ f[3] = ProtocolVersion
                            /\ Drop(f, 3) = outcome[c]
<1> DEFINE e == ReplyTo(c)
<1>1. /\ e \in Words /\ Len(e) = 4 /\ e[1] = 4
      /\ e[2] = request[c].type + 1 /\ e[3] = ProtocolVersion /\ e[4] = outcome[c][1]
  <2>1. IsFrame(ReplyTo(c), request[c].type + 1, ProtocolVersion, outcome[c])
    BY ReplyFrame
  <2>2. Len(outcome[c]) = 1 /\ 1 \in 1..1 /\ 3 + 1 = 4
    BY DEF Answered
  <2> QED BY <2>1, <2>2 DEF IsFrame
<1>2. sending \in Words /\ outcome[c] \in Words /\ Len(outcome[c]) = 1
  BY DEF RequestInv, IpcTypes, Answered
<1> HIDE DEF e
<1>3. Parts(f, b, sending, e)
  BY DEF e
<1>4. Len(f) \in Nat /\ Len(b) \in Nat /\ Len(sending) \in Nat /\ Len(f) # 0
  BY <1>2, SameWords
<1>5. Len(f) \in 1..4
  <2>1. Len(f) + Len(b) + Len(sending) = 4
    BY <1>1, <1>3 DEF Parts
  <2>2. PICK i \in Nat : i = Len(f)
    BY <1>4
  <2>3. PICK j \in Nat : j = Len(b)
    BY <1>4
  <2>4. PICK k \in Nat : k = Len(sending)
    BY <1>4
  <2>5. i + j + k = 4 /\ i # 0
    BY <1>4, <2>1, <2>2, <2>3, <2>4
  <2>6. i \in 1..4
    BY <2>5
  <2> QED BY <2>2, <2>6
<1>6. f[1] = 4
  <2>1. 1 \in 1..Len(f)
    BY <1>5
  <2> QED BY <1>1, <1>3, <2>1 DEF Parts
<1>7. ASSUME Len(f) = 4
      PROVE  /\ f[2] = request[c].type + 1 /\ f[3] = ProtocolVersion
             /\ Drop(f, 3) = outcome[c]
  <2>1. f = e
    BY <1>1, <1>2, <1>3, <1>7, PartsWhole
  <2>2. 3 \in 0..Len(f) /\ Len(f) - 3 = 1 /\ 1 \in 1..(Len(f) - 3) /\ 3 + 1 = 4
    BY <1>7
  <2>3. Drop(f, 3) \in Words /\ Len(Drop(f, 3)) = 1 /\ Drop(f, 3)[1] = f[4]
    BY <2>2, DropFacts
  <2>4. Drop(f, 3)[1] = outcome[c][1]
    BY <1>1, <2>1, <2>3
  <2>5. PICK w \in Words : w = Drop(f, 3)
    BY <2>3
  <2>6. \A i \in 1..1 : w[i] = outcome[c][i]
    BY <2>4, <2>5
  <2>7. w = outcome[c]
    BY <1>2, <2>3, <2>5, <2>6, SameWords
  <2> QED BY <1>1, <2>1, <2>5, <2>7
<1> QED
  BY <1>5, <1>6, <1>7

\* A client takes for its answer only what the service made for its request.
LEMMA ReceiveKeepsReplies ==
    ASSUME RequestInv, ReplyInv, NEW c \in Clients, Receive(c)
    PROVE  ReplyInv'
<1>u. /\ client[c] \in {"length", "rest"}
      /\ UNCHANGED <<serverVars, pipe, toServer, request, unsent, left>>
  BY DEF Receive
<1>1. CASE pipe = c
  <2>1. PICK n \in 1..Len(toClient), f \in Words :
           /\ f = received[c] \o Take(toClient, n) /\ Drop(toClient, n) \in Words
           /\ received' = [received EXCEPT ![c] = f] /\ toClient' = Drop(toClient, n)
           /\ received[c] = <<>> => n = 1
           /\ IF f[1] \in 1..MaxFrameLength /\ Len(f) < f[1]
              THEN client' = [client EXCEPT ![c] = "rest"] /\ UNCHANGED result
              ELSE /\ client' = [client EXCEPT ![c] = "gone"]
                   /\ result' = IF Accepted(c, f)
                                THEN [result EXCEPT ![c] = Drop(f, 3)] ELSE result
    BY <1>1, ReceiveEffect
  <2>2. toClient \in Words /\ received[c] \in Words /\ sending \in Words
    BY DEF RequestInv, IpcTypes
  <2>3. toClient # <<>> /\ n \in 0..Len(toClient) /\ n > 0 /\ n \in Nat
    BY <2>2, SameWords
  <2>4. server \in {"reply", "close"} /\ Answered(c)
    <3>1. server # "accept"
      BY <1>1, ClientAssumption DEF RequestInv, ServerHolds
    <3>2. server \in {"length", "rest", "handle", "reply", "close"}
      BY <3>1 DEF RequestInv, IpcTypes
    <3> QED BY <1>1, <2>3, <3>2 DEF ReplyInv, ReplyInTransit
  <2>5. ReplyTo(c) \in Words
    BY ReplyFrame DEF IsFrame
  <2>6. Parts(f, toClient', sending, ReplyTo(c))
    <3>1. Parts(received[c], toClient, sending, ReplyTo(c))
      BY <1>u, <2>4 DEF Answered
    <3> QED BY <2>1, <2>2, <2>3, <2>5, <3>1, PartsRead
  <2>7. f # <<>>
    <3>1. Take(toClient, n) \in Words /\ Len(Take(toClient, n)) = n
      BY <2>2, <2>3, TakeFacts
    <3>2. PICK w \in Words : w = Take(toClient, n)
      BY <3>1
    <3>3. Len(received[c] \o w) = Len(received[c]) + Len(w)
      BY <2>2, ConcatFacts
    <3>4. Len(f) = Len(received[c]) + n /\ Len(received[c]) \in Nat
      BY <2>1, <2>2, <3>1, <3>2, <3>3, SameWords
    <3>5. f = <<>> <=> Len(f) = 0
      BY SameWords
    <3> QED BY <2>3, <3>4, <3>5
  <2>8. toClient' \in Words
    BY <2>1
  <2>9. /\ f[1] = 4 /\ Len(f) \in 1..4
        /\ Len(f) = 4 => /\ f[2] = request[c].type + 1 /\ f[3] = ProtocolVersion
                         /\ Drop(f, 3) = outcome[c]
    BY <2>4, <2>6, <2>7, <2>8, WholeReply
  <2>10. f[1] \in 1..MaxFrameLength
    BY <2>9, IpcAssumption
  <2>r. /\ received'[c] = f
        /\ \A d \in Clients \ {c} : received'[d] = received[d]
    BY <2>1 DEF RequestInv, IpcTypes
  <2>v. UNCHANGED <<server, sending, outcome, pipe, request, left>>
    BY <1>u DEF serverVars
  <2>a. ReplyTo(c)' = ReplyTo(c)
    BY <2>v DEF ReplyTo
  <2>11. CASE Len(f) < 4
    <3>1. client' = [client EXCEPT ![c] = "rest"] /\ UNCHANGED result
      BY <2>1, <2>9, <2>10, <2>11
    <3>2. /\ client'[c] = "rest" /\ \A d \in Clients \ {c} : client'[d] = client[d]
      BY <3>1 DEF RequestInv, IpcTypes
    <3>3. Answered(c)'
      BY <2>4, <2>6, <2>a, <2>r, <2>v, <3>2 DEF Answered
    <3>4. ReplyInTransit'
      BY <1>1, <2>4, <2>v, <3>3 DEF ReplyInTransit
    <3>5. \A d \in Clients : ClientWaits(d)'
      <4>1. Len(received'[c]) \in 1..3
        BY <2>9, <2>11, <2>r
      <4>2. result[c] = <<>>
        BY <1>u DEF ReplyInv, ClientWaits
      <4> QED BY <1>1, <2>r, <2>v, <3>1, <3>2, <4>1, <4>2 DEF ReplyInv, ClientWaits
    <3>6. RunIsAnswered'
      BY <2>v, <3>1, <3>2 DEF ReplyInv, RunIsAnswered
    <3> QED BY <3>4, <3>5, <3>6 DEF ReplyInv
  <2>12. CASE Len(f) = 4
    <3>1. /\ client' = [client EXCEPT ![c] = "gone"]
          /\ result' = IF Accepted(c, f) THEN [result EXCEPT ![c] = Drop(f, 3)] ELSE result
      BY <2>1, <2>9, <2>12
    <3>2. /\ client'[c] = "gone" /\ \A d \in Clients \ {c} : client'[d] = client[d]
          /\ \A d \in Clients \ {c} : result'[d] = result[d]
      BY <3>1 DEF RequestInv, IpcTypes
    <3>3. Accepted(c, f) <=> request[c].version = ProtocolVersion
      BY <2>9, <2>12 DEF Accepted, CheckHeader
    <3>4. result[c] = <<>>
      BY <1>u DEF ReplyInv, ClientWaits
    <3>5. IF request[c].version = ProtocolVersion
          THEN result'[c] = outcome[c] ELSE result'[c] = <<>>
      BY <2>9, <2>12, <3>1, <3>3, <3>4 DEF RequestInv, IpcTypes
    <3>6. Answered(c)'
      BY <2>4, <2>v, <3>2 DEF Answered
    <3>7. ReplyInTransit'
      BY <1>1, <2>4, <2>v, <3>6 DEF ReplyInTransit
    <3>8. \A d \in Clients : ClientWaits(d)'
      BY <2>r, <2>v, <3>2 DEF ReplyInv, ClientWaits
    <3>9. RunIsAnswered'
      BY <2>v, <3>2, <3>5 DEF ReplyInv, RunIsAnswered
    <3> QED BY <3>7, <3>8, <3>9 DEF ReplyInv
  <2>13. Len(f) < 4 \/ Len(f) = 4
    <3>1. PICK k \in 1..4 : k = Len(f)
      BY <2>9
    <3>2. k < 4 \/ k = 4
      OBVIOUS
    <3> QED BY <3>1, <3>2
  <2> QED BY <2>11, <2>12, <2>13
<1>2. CASE pipe # c
  <2>1. client' = [client EXCEPT ![c] = "gone"] /\ UNCHANGED <<received, toClient, result>>
    BY <1>2 DEF Receive, Gone
  <2> QED BY <1>u, <1>2, <2>1, GoingKeepsReplies
<1> QED
  BY <1>1, <1>2

\* A request that the service has run is answered with its own reply: a client of the same
\* version that stays has the outcome when it is done, and no client takes anything else
\* for its reply; for any clients, requests and buffer size.
THEOREM RunsAreAnswered == Spec => []RunIsAnswered
<1>1. Init => ReplyInv
  <2> SUFFICES ASSUME Init PROVE ReplyInv
    OBVIOUS
  <2>1. ReplyInTransit /\ RunIsAnswered
    BY DEF Init, ReplyInTransit, RunIsAnswered
  <2>2. \A c \in Clients : ClientWaits(c)
    BY DEF Init, ClientWaits
  <2> QED BY <2>1, <2>2 DEF ReplyInv
<1>2. RequestInv /\ ReplyInv /\ [Next]_vars => ReplyInv'
  <2> SUFFICES ASSUME RequestInv, ReplyInv, [Next]_vars PROVE ReplyInv'
    OBVIOUS
  <2>1. CASE ReceiveLength
    BY <2>1, ReceivingKeepsReplies DEF ReceiveLength
  <2>2. CASE ReceiveRest
    BY <2>2, ReceivingKeepsReplies DEF ReceiveRest
  <2>3. CASE Handle \/ SendFrame \/ Close
    BY <2>3, HandleKeepsReplies, SendFrameKeepsReplies, CloseKeepsReplies
  <2>4. ASSUME NEW c \in Clients, Connect(c) \/ Send(c) \/ Receive(c) PROVE ReplyInv'
    BY <2>4, ConnectKeepsReplies, SendKeepsReplies, ReceiveKeepsReplies
  <2>5. ASSUME NEW c \in Clients, Leave(c) PROVE ReplyInv'
    <3>1. /\ client[c] \in {"send", "length", "rest"}
          /\ client' = [client EXCEPT ![c] = "gone"] /\ left' = [left EXCEPT ![c] = TRUE]
          /\ UNCHANGED <<serverVars, pipe, toClient, request, received, result>>
      BY <2>5 DEF Leave, Gone, pipeVars
    <3> QED BY <3>1, GoingKeepsReplies
  <2>6. CASE UNCHANGED vars
    BY <2>6 DEF ReplyInv, ReplyInTransit, Unanswered, Answered, ReplyTo, ClientWaits,
       RunIsAnswered, vars, serverVars, clientVars, pipeVars
  <2> QED BY <2>1, <2>2, <2>3, <2>4, <2>5, <2>6 DEF Next, ServerStep, ClientStep, AtRest
<1>3. ReplyInv => RunIsAnswered
  BY DEF ReplyInv
<1> QED
  BY <1>1, <1>2, <1>3, RequestInvHolds, PTL DEF Spec
=============================================================================
