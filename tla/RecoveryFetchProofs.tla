------------------------- MODULE RecoveryFetchProofs -------------------------
(***************************************************************************)
(* Proofs about the recovery fetch, for every deployment, number and size  *)
(* of objects, block numbers and sessions of the server.                   *)
(*                                                                         *)
(* WireInv says what can be on the network, BufferInv what is in the       *)
(* staging buffers outside an attempt, ExactInv what an attempt has stored *)
(* there, and TurnInv whose turn it is while nothing disturbed the fetch.  *)
(***************************************************************************)
EXTENDS RecoveryFetch, TLAPS

Size(k) == deployment.objects[k]

\* Bytes in front of block n.
Offset(b, n) == (n - 1) * b

\* The first n bytes of object k, and zero after them.
Prefix(k, n) == [i \in 1 .. MaxBytes |-> IF i <= n THEN <<k, i>> ELSE Zero]

\* An attempt of the Simple Network transport is in progress.
Active == client.pc \in {"transmit", "recycle", "arp", "receive"}

-----------------------------------------------------------------------------
(* The server and the network.                                             *)

\* The server numbers its transfers and never sends a block that lies beyond
\* the object or beyond the last block number.
ServerInv ==
    /\ \E c \in 0 .. MaxSessions : Sessions = 1 .. c
    /\ \A p \in Sessions :
          /\ server[p] \in [kind : Kinds, block : deployment.offers, sent : 0 .. LastBlock]
          /\ server[p].sent = 0 => deployment.negotiates
          /\ server[p].sent > 0 => Offset(server[p].block, server[p].sent) <= Size(server[p].kind)

\* A packet of the server says what its transfer is about.
IsOack(f) ==
    /\ f.type = "oack"
    /\ f.port \in Sessions
    /\ f = Oack(f.port, server[f.port].kind, server[f.port].block)
IsData(f) ==
    /\ f.type = "data"
    /\ f.port \in Sessions
    /\ \E n \in 1 .. server[f.port].sent : f = ServerData(f.port, server[f.port], n)

\* The client never acknowledges a block that has no successor number.
IsAck(f) ==
    /\ f.type = "ack"
    /\ f.port \in Sessions /\ f.block \in 0 .. LastBlock - 1
    /\ f = Ack(f.port, f.block)

IsRequest(f) == f = ArpRequest \/ \E k \in Kinds : f = Rrq(k)

IsFrame(f) ==
    \/ IsRequest(f) \/ f = ArpReply \/ IsAck(f) \/ IsOack(f) \/ IsData(f)
    \/ \E k \in Kinds : f = Refusal(MaxSessions + 1, k)

NetInv ==
    /\ \A f \in net : IsFrame(f)
    /\ IsRequest(client.frame) \/ IsAck(client.frame)

GuardInv ==
    /\ client.guard.expected \in 1 .. LastBlock
    /\ client.guard.received \in 0 .. deployment.maximum
    /\ client.guard.complete => client.guard.expected > 1

WireInv == TypeOK /\ ServerInv /\ NetInv /\ GuardInv

-----------------------------------------------------------------------------
(* The staging buffers.                                                    *)

BufferInv ==
    /\ \A k \in Kinds, i \in 1 .. MaxBytes : i > deployment.maximum => staging[k][i] = Zero
    /\ \A k \in Kinds : k > client.kind => receipt[k] = NoReceipt /\ staging[k] = ZeroBuffer
    /\ \A k \in Kinds : k < client.kind => receipt[k].status = "ok"
    /\ client.pc # "done" => receipt[client.kind] = NoReceipt
    /\ client.pc = "idle" => staging[client.kind] = ZeroBuffer
    /\ client.pc = "done" =>
          receipt[client.kind].status = "ok" \/ staging[client.kind] = ZeroBuffer

-----------------------------------------------------------------------------
(* Blocks, deployments and frames.                                         *)

\* The blocks of an object follow each other.
LEMMA Blocks ==
    ASSUME NEW b \in Nat \ {0}, NEW n \in Nat \ {0}
    PROVE  /\ Offset(b, n) \in Nat
           /\ Offset(b, 1) = 0
           /\ Offset(b, n + 1) = Offset(b, n) + b
           /\ Offset(b, n + 1) = n * b
           /\ n > 1 => Offset(b, n) >= b
<1>1. (n - 1) * b \in Nat
  BY SMT
<1>2. n * b = (n - 1) * b + b
  BY SMT
<1>3. n > 1 => (n - 1) * b >= b
  BY SMT
<1> QED
  BY <1>1, <1>2, <1>3 DEF Offset

\* A later block lies further on.
LEMMA BlocksGrow ==
    ASSUME NEW b \in Nat \ {0}, NEW m \in Nat \ {0}, NEW n \in Nat \ {0}, m <= n
    PROVE  Offset(b, m) <= Offset(b, n)
<1>1. (n - 1) * b = (m - 1) * b + (n - m) * b
  BY SMT
<1>2. (n - m) * b >= 0
  BY SMT
<1> QED
  BY <1>1, <1>2 DEF Offset

\* What ribon_recovery_network_binding_validate and the types say.
LEMMA DeploymentFacts ==
    ASSUME deployment \in Deployments
    PROVE  /\ deployment.block \in Nat \ {0} /\ deployment.retries \in Nat
           /\ deployment.maximum \in 1 .. MaxBytes /\ deployment.capacity \in 1 .. MaxBytes
           /\ deployment.deadline \in Nat
           /\ \A k \in Kinds : Size(k) \in Nat
           /\ deployment.offers \subseteq Nat \ {0}
           /\ \A b \in deployment.offers : b <= deployment.block
           /\ deployment.negotiates \in BOOLEAN /\ deployment.reliable \in BOOLEAN
           /\ deployment.backend \in {"snp", "pxe"}
           /\ AttemptDeadline \in Nat
           /\ LastBlock \in Nat /\ LastBlock > 1 /\ MaxBytes \in Nat /\ MaxSessions \in Nat
           /\ ObjectCount \in Nat \ {0}
<1>1. deployment \in DeploymentType /\ \A b \in deployment.offers : b <= deployment.block
  BY DeploymentAssumption, ZenonT(30)
<1>2. deployment.deadline \in Nat /\ deployment.retries + 1 \in Nat \ {0}
  BY <1>1 DEF DeploymentType
<1>3. AttemptDeadline \in Nat
  BY <1>2 DEF AttemptDeadline
<1> QED
  BY <1>1, <1>2, <1>3, DeploymentAssumption DEF DeploymentType, Size

\* An object that the binding can carry fits its staging buffer.
LEMMA FetchableFits ==
    ASSUME WireInv, Fetchable(client.kind)
    PROVE  /\ Size(client.kind) \in Nat /\ Size(client.kind) > 0
           /\ Size(client.kind) <= deployment.maximum /\ deployment.maximum <= deployment.capacity
           /\ deployment.maximum \in Nat /\ deployment.capacity \in Nat
<1>1. deployment \in Deployments
  BY DEF WireInv, TypeOK
<1>2. deployment.maximum \in 1 .. MaxBytes /\ deployment.capacity \in 1 .. MaxBytes
  BY <1>1, DeploymentFacts
<1> QED
  BY <1>2 DEF Fetchable, Size

\* The fields of a DATA packet.
LEMMA ServerDataFields ==
    ASSUME NEW p, NEW s, NEW n, n \in 1 .. LastBlock, LastBlock \in Nat
    PROVE  LET f == ServerData(p, s, n)
               left == Size(s.kind) - Offset(s.block, n)
           IN  /\ f.type = "data" /\ f.port = p /\ f.kind = s.kind /\ f.object = s.kind
               /\ f.block = n /\ f.first = Offset(s.block, n) + 1
               /\ f.size = IF left < s.block THEN left ELSE s.block
  BY DEF ServerData, Data, BlockNumber, Max16, Offset, Size

-----------------------------------------------------------------------------
(* The calls of the client.                                                *)

\* A turn of the loop of ribon_recovery_network_fetch starts from scratch.
LEMMA StartFields ==
    ASSUME TypeOK, NEW a \in Nat, client' = BeginAttempt(client, a)
    PROVE  /\ client' \in ClientType
           /\ client'.pc = IF deployment.backend = "snp" THEN "transmit" ELSE "probe"
           /\ client'.kind = client.kind /\ client'.port = 0 /\ client'.attempt = a
           /\ client'.guard = FreshGuard(deployment.block)
           /\ client'.frame \in {ArpRequest, Rrq(client.kind)} /\ IsRequest(client'.frame)
           /\ client'.then \in {"arp", "receive"}
           /\ client'.then = "arp" <=> client'.frame = ArpRequest
<1>1. client \in ClientType /\ client.kind \in Kinds
  BY ZenonT(30) DEF TypeOK, ClientType
<1>2. FirstFrame(client) \in {ArpRequest, Rrq(client.kind)}
  BY ZenonT(30) DEF FirstFrame
<1>3. {ArpRequest, Rrq(client.kind)} \subseteq FrameType
  BY <1>1 DEF FrameType, Rrq, ArpRequest
<1>4. FreshGuard(deployment.block) \in GuardType
  BY DeploymentFacts DEF TypeOK, FreshGuard, GuardType
<1>5. AttemptDeadline \in Nat /\ 0 \in 0 .. MaxSessions + 1
  BY DeploymentFacts DEF TypeOK
<1>6. client' \in ClientType
  BY <1>1, <1>2, <1>3, <1>4, <1>5, ZenonT(30) DEF BeginAttempt, ClientType
<1>7. /\ client'.kind = client.kind /\ client'.port = 0 /\ client'.attempt = a
      /\ client'.guard = FreshGuard(deployment.block)
      /\ client'.frame = FirstFrame(client)
      /\ client'.then = IF client.mac THEN "receive" ELSE "arp"
      /\ client'.pc = IF deployment.backend = "snp" THEN "transmit" ELSE "probe"
  BY <1>1, ZenonT(30) DEF BeginAttempt, ClientType
<1>8. Rrq(client.kind) # ArpRequest
  BY ZenonT(30) DEF Rrq, ArpRequest
<1>9. IsRequest(client'.frame)
  BY <1>1, <1>2, <1>7, ZenonT(30) DEF IsRequest
<1> QED
  BY <1>2, <1>6, <1>7, <1>8, <1>9, ZenonT(30) DEF FirstFrame

\* A fetch call that returns.
LEMMA ReturnFields ==
    ASSUME TypeOK, NEW status \in Statuses, NEW bytes \in 0 .. MaxBytes, Return(status, bytes)
    PROVE  /\ client' \in ClientType
           /\ client'.frame = client.frame /\ client'.guard = client.guard
           /\ client'.port = client.port
           /\ receipt' \in [Kinds -> [status : Statuses, bytes : 0 .. MaxBytes]]
           /\ receipt'[client.kind] = [status |-> status, bytes |-> bytes]
           /\ \A k \in Kinds \ {client.kind} : receipt'[k] = receipt[k]
           /\ \/ client'.pc = "done" /\ client'.kind = client.kind
              \/ /\ status = "ok" /\ client'.pc = "idle" /\ client.kind < ObjectCount
                 /\ client'.kind = client.kind + 1
<1>1. client \in ClientType /\ client.kind \in Kinds /\ ObjectCount \in Nat
  BY DeploymentAssumption, ZenonT(30) DEF TypeOK, ClientType
<1>2. /\ receipt' \in [Kinds -> [status : Statuses, bytes : 0 .. MaxBytes]]
      /\ receipt'[client.kind] = [status |-> status, bytes |-> bytes]
      /\ \A k \in Kinds \ {client.kind} : receipt'[k] = receipt[k]
  BY <1>1, ZenonT(30) DEF TypeOK, Return
<1>3. CASE status = "ok" /\ client.kind < ObjectCount
  <2>1. client' = [client EXCEPT !.pc = "idle", !.kind = @ + 1]
    BY <1>3, ZenonT(30) DEF Return
  <2>2. client.kind + 1 \in Kinds
    BY <1>1, <1>3 DEF Kinds
  <2> QED
    BY <1>1, <1>2, <1>3, <2>1, <2>2, ZenonT(30) DEF ClientType
<1>4. CASE ~(status = "ok" /\ client.kind < ObjectCount)
  <2>1. client' = [client EXCEPT !.pc = "done"]
    BY <1>4, ZenonT(30) DEF Return
  <2> QED
    BY <1>1, <1>2, <2>1, ZenonT(30) DEF ClientType
<1> QED
  BY <1>3, <1>4, ZenonT(30)

\* A wipe leaves a buffer of zeros: nothing was stored after maximum_bytes.
LEMMA WipeFacts ==
    ASSUME TypeOK, BufferInv, staging' = [staging EXCEPT ![client.kind] = Wiped(@)]
    PROVE  /\ staging' \in [Kinds -> [1 .. MaxBytes -> Bytes]]
           /\ staging'[client.kind] = ZeroBuffer
           /\ \A k \in Kinds \ {client.kind} : staging'[k] = staging[k]
<1>1. client.kind \in Kinds /\ staging \in [Kinds -> [1 .. MaxBytes -> Bytes]]
  BY ZenonT(30) DEF TypeOK, ClientType
<1>2. Wiped(staging[client.kind]) = ZeroBuffer
  <2>1. \A i \in 1 .. MaxBytes : ~(i <= deployment.maximum) => staging[client.kind][i] = Zero
    BY <1>1, DeploymentFacts DEF BufferInv, TypeOK
  <2> QED
    BY <2>1, ZenonT(30) DEF Wiped, ZeroBuffer
<1>3. ZeroBuffer \in [1 .. MaxBytes -> Bytes]
  BY ZenonT(30) DEF ZeroBuffer, Bytes
<1> QED
  BY <1>1, <1>2, <1>3, ZenonT(30)

Errors == Statuses \ {"none", "ok"}

\* An attempt that fails wipes the buffer and is repeated, or the call returns.
LEMMA FailFields ==
    ASSUME TypeOK, BufferInv, NEW status \in Errors, AttemptFails(status)
    PROVE  /\ client' \in ClientType /\ client'.kind = client.kind
           /\ staging' \in [Kinds -> [1 .. MaxBytes -> Bytes]]
           /\ staging'[client.kind] = ZeroBuffer
           /\ \A k \in Kinds \ {client.kind} : staging'[k] = staging[k] /\ receipt'[k] = receipt[k]
           /\ receipt' \in [Kinds -> [status : Statuses, bytes : 0 .. MaxBytes]]
           /\ \/ /\ status \in {"timeout", "io"} /\ client.attempt < deployment.retries
                 /\ receipt' = receipt
                 /\ client' = BeginAttempt(client, client.attempt + 1)
              \/ /\ client'.pc = "done" /\ receipt'[client.kind].status = status
                 /\ client'.frame = client.frame /\ client'.guard = client.guard
<1>1. client.kind \in Kinds /\ client.attempt \in Nat /\ MaxBytes \in Nat
  BY DeploymentAssumption, ZenonT(30) DEF TypeOK, ClientType
<1>2. staging' = [staging EXCEPT ![client.kind] = Wiped(@)]
  BY ZenonT(30) DEF AttemptFails
<1>3. CASE status \in {"timeout", "io"} /\ client.attempt < deployment.retries
  <2>1. client' = BeginAttempt(client, client.attempt + 1) /\ receipt' = receipt
    BY <1>3, ZenonT(30) DEF AttemptFails
  <2>2. client' \in ClientType /\ client'.kind = client.kind
    BY <1>1, <2>1, StartFields
  <2> QED
    BY <1>2, <1>3, <2>1, <2>2, WipeFacts, ZenonT(30) DEF TypeOK
<1>4. CASE ~(status \in {"timeout", "io"} /\ client.attempt < deployment.retries)
  <2>1. Return(status, 0) /\ status # "ok" /\ status \in Statuses /\ 0 \in 0 .. MaxBytes
    BY <1>1, <1>4 DEF AttemptFails, Errors
  <2>2. /\ client' \in ClientType /\ client'.kind = client.kind /\ client'.pc = "done"
        /\ client'.frame = client.frame /\ client'.guard = client.guard
        /\ receipt' \in [Kinds -> [status : Statuses, bytes : 0 .. MaxBytes]]
        /\ receipt'[client.kind] = [status |-> status, bytes |-> 0]
        /\ \A k \in Kinds \ {client.kind} : receipt'[k] = receipt[k]
    BY <2>1, ReturnFields, ZenonT(30)
  <2> QED
    BY <1>2, <2>2, WipeFacts
<1> QED
  BY <1>3, <1>4, ZenonT(30)

\* The guard takes a packet.
Fits(f) ==
    /\ ~client.guard.complete /\ client.guard.packets < LastBlock
    /\ f.size <= client.guard.block
    /\ \/ f.type = "oack" /\ ~client.guard.options /\ client.guard.expected = 1
       \/ /\ f.type = "data" /\ f.block = client.guard.expected
          /\ client.guard.expected # LastBlock
          /\ f.size <= deployment.maximum - client.guard.received
          /\ client.guard.received + f.size <= deployment.capacity

\* snp_fetch_once acknowledges block n and goes on.
Acknowledges(f, n, guard, then) ==
    client' = [client EXCEPT !.pc = "transmit", !.port = f.port, !.guard = guard,
                             !.frame = Ack(f.port, n), !.then = then]

Repeats(f) ==
    /\ f.type = "data" /\ client.guard.expected > 1 /\ f.block = client.guard.expected - 1
    /\ Acknowledges(f, f.block, client.guard, "receive")
    /\ UNCHANGED <<staging, receipt>>

TakesOack(f) ==
    /\ f.type = "oack" /\ Fits(f)
    /\ Acknowledges(f, 0, [client.guard EXCEPT !.block = f.size, !.options = TRUE,
                                               !.packets = @ + 1], "receive")
    /\ UNCHANGED <<staging, receipt>>

TakesData(f) ==
    /\ f.type = "data" /\ Fits(f)
    /\ Acknowledges(f, f.block,
          [client.guard EXCEPT !.options = TRUE, !.received = @ + f.size,
                               !.expected = @ + 1, !.packets = @ + 1,
                               !.complete = f.size < client.guard.block],
          IF f.size < client.guard.block THEN "finish" ELSE "receive")
    /\ staging' = [staging EXCEPT ![client.kind] = Store(@, client.guard.received, f)]
    /\ receipt' = receipt

Refuses(f) == \E status \in {"capacity", "malformed"} : AttemptFails(status) /\ ~Fits(f)

\* What ribon_tftp_guard_accept answers.
Answer(f) == GuardAccept(client.guard, f, deployment.maximum)

AnswersRepeat(f) ==
    /\ Answer(f).status = "duplicate" /\ Answer(f).guard = client.guard /\ f.type = "data"
    /\ client.guard.expected > 1 /\ f.block = client.guard.expected - 1

Declines(f) ==
    /\ Answer(f).status \in {"capacity", "malformed", "out_of_order", "invalid", "remote_error"}
    /\ Answer(f).guard = client.guard /\ ~Fits(f)

AnswersOack(f) ==
    /\ f.type = "oack" /\ Fits(f) /\ Answer(f).status = "ok"
    /\ Answer(f).guard = [client.guard EXCEPT !.block = f.size, !.options = TRUE,
                                               !.packets = @ + 1]

AnswersData(f) ==
    /\ f.type = "data" /\ f.block = client.guard.expected /\ client.guard.expected # LastBlock
    /\ ~client.guard.complete /\ client.guard.packets < LastBlock
    /\ f.size <= client.guard.block
    /\ f.size <= deployment.maximum - client.guard.received
    /\ Answer(f).status = IF f.size < client.guard.block THEN "complete" ELSE "ok"
    /\ Answer(f).guard = [client.guard EXCEPT !.options = TRUE, !.received = @ + f.size,
                                               !.expected = @ + 1, !.packets = @ + 1,
                                               !.complete = f.size < client.guard.block]

\* There is no other answer.
LEMMA GuardAnswers ==
    ASSUME WireInv, NEW f, f.type \in {"oack", "data", "error"},
           f.type # "error" => f.size \in Nat
    PROVE  AnswersRepeat(f) \/ Declines(f) \/ AnswersOack(f) \/ AnswersData(f)
<1> USE DEF Answer, AnswersRepeat, Declines, AnswersOack, AnswersData
<1> DEFINE g == client.guard
<1> DEFINE a == GuardAccept(g, f, deployment.maximum)
<1>1. g \in GuardType /\ g.expected \in 1 .. LastBlock /\ LastBlock \in Nat
  BY DeploymentAssumption, ZenonT(30) DEF WireInv, TypeOK, ClientType, GuardInv
<1>6. deployment.maximum \in Nat
  BY DeploymentFacts DEF WireInv, TypeOK
<1>2. CASE g.complete \/ g.packets >= LastBlock
  <2>1. a = [status |-> "invalid", guard |-> g]
    BY <1>2, ZenonT(30) DEF GuardAccept
  <2>2. ~Fits(f)
    BY <1>1, <1>2 DEF Fits, GuardType
  <2> QED
    BY <2>1, <2>2
<1>3. CASE f.type = "error" /\ ~(g.complete \/ g.packets >= LastBlock)
  <2>1. a = [status |-> "remote_error", guard |-> g]
    BY <1>3, ZenonT(30) DEF GuardAccept
  <2>2. ~Fits(f)
    BY <1>3, ZenonT(30) DEF Fits
  <2> QED
    BY <2>1, <2>2
<1>4. CASE f.type = "oack" /\ ~(g.complete \/ g.packets >= LastBlock)
  <2>1. a = AcceptOack(g, f)
    BY <1>4, ZenonT(30) DEF GuardAccept
  <2>2. CASE g.options \/ g.expected # 1 \/ f.size > g.block
    BY <1>1, <1>4, <2>1, <2>2 DEF AcceptOack, Fits, GuardType
  <2>3. CASE ~(g.options \/ g.expected # 1 \/ f.size > g.block)
    BY <1>1, <1>4, <2>1, <2>3 DEF AcceptOack, Fits, GuardType
  <2> QED
    BY <2>2, <2>3, ZenonT(30)
<1>5. CASE f.type = "data" /\ ~(g.complete \/ g.packets >= LastBlock)
  <2>1. a = AcceptData(g, f, deployment.maximum)
    BY <1>5, ZenonT(30) DEF GuardAccept
  <2>2. CASE f.size > g.block
    BY <1>1, <1>5, <2>1, <2>2 DEF AcceptData, Fits, GuardType
  <2>3. CASE ~(f.size > g.block) /\ g.expected > 1 /\ f.block = g.expected - 1
    BY <1>5, <2>1, <2>3 DEF AcceptData
  <2>4. CASE /\ ~(f.size > g.block) /\ ~(g.expected > 1 /\ f.block = g.expected - 1)
             /\ f.block # g.expected \/ g.expected = LastBlock
    BY <1>5, <2>1, <2>4 DEF AcceptData, Fits
  <2>5. CASE /\ ~(f.size > g.block) /\ f.block = g.expected /\ g.expected # LastBlock
             /\ f.size > deployment.maximum - g.received
    <3>1. a = [status |-> "capacity", guard |-> g]
      BY <1>1, <2>1, <2>5 DEF AcceptData
    <3> QED
      BY <1>1, <1>5, <2>5, <3>1, <1>6 DEF Fits, GuardType
  <2>6. CASE /\ ~(f.size > g.block) /\ f.block = g.expected /\ g.expected # LastBlock
             /\ ~(f.size > deployment.maximum - g.received)
    <3>1. BlockNumber(g.expected + 1) = g.expected + 1
      BY <1>1, <2>6 DEF BlockNumber, Max16
    <3>2. /\ ~(f.size > g.block) /\ ~(g.expected > 1 /\ f.block = g.expected - 1)
          /\ ~(f.block # g.expected \/ g.expected = LastBlock)
          /\ ~(f.size > deployment.maximum - g.received)
      BY <1>1, <2>6
    <3>3. a = [status |-> IF f.size < g.block THEN "complete" ELSE "ok",
               guard |-> [g EXCEPT !.options = TRUE, !.received = @ + f.size,
                                   !.expected = @ + 1, !.packets = @ + 1,
                                   !.complete = f.size < g.block]]
      BY <1>1, <2>1, <3>1, <3>2, ZenonT(30) DEF AcceptData, GuardType
    <3>4. /\ f.size <= g.block /\ f.size <= deployment.maximum - g.received
          /\ ~g.complete /\ g.packets < LastBlock
      BY <1>1, <1>5, <1>6, <2>6 DEF GuardType
    <3> QED
      BY <1>5, <2>6, <3>3, <3>4
  <2> QED
    BY <2>2, <2>3, <2>4, <2>5, <2>6, ZenonT(30)
<1> QED
  BY <1>2, <1>3, <1>4, <1>5, ZenonT(30)

\* Types of the packets that snp_fetch_once looks at.
LEMMA PacketTypes ==
    ASSUME TypeOK, NEW f \in net
    PROVE  /\ f.type \in {"oack", "data"} =>
                 f.size \in Nat /\ f.port \in 1 .. MaxSessions /\ f.kind \in Kinds
           /\ f.type = "data" =>
                 f.block \in 0 .. LastBlock /\ f.object \in Kinds /\ f.first \in Nat
           /\ f.type \in {"rrq", "error"} => f.kind \in Kinds
<1>1. f \in FrameType
  BY ZenonT(30) DEF TypeOK
<1> QED
  BY <1>1, SMTT(30) DEF FrameType, ArpRequest, ArpReply

\* snp_fetch_once acknowledges the packet or ends the attempt.
LEMMA DatagramCases ==
    ASSUME WireInv, NEW f \in net, ReceiveDatagram(f)
    PROVE  /\ client.pc = "receive" /\ IsForClient(client, f)
           /\ net' = Remaining(f) /\ UNCHANGED <<deployment, server, disturbed>>
           /\ Repeats(f) \/ TakesOack(f) \/ TakesData(f) \/ Refuses(f)
<1> DEFINE g == client.guard
<1> DEFINE a == Answer(f)
<1> USE DEF Answer
<1> DEFINE c == [client EXCEPT !.port = f.port]
<1> DEFINE d == [c EXCEPT !.guard = a.guard]
<1>1. /\ client.pc = "receive" /\ IsForClient(client, f)
      /\ net' = Remaining(f) /\ UNCHANGED <<deployment, server, disturbed>>
  BY ZenonT(30) DEF ReceiveDatagram
<1>2. f.type \in {"oack", "data", "error"}
  BY <1>1, ZenonT(30) DEF IsForClient
<1>3. f.type # "error" => f.size \in Nat
  BY <1>2, PacketTypes, ZenonT(30) DEF WireInv
<1>4. client \in ClientType
  BY ZenonT(30) DEF WireInv, TypeOK
<1>5. CASE AnswersRepeat(f)
  <2>1. /\ client' = [Acknowledge(c, f, f.block) EXCEPT !.then = "receive"]
        /\ UNCHANGED <<staging, receipt>>
    BY <1>5, ZenonT(30) DEF ReceiveDatagram, AnswersRepeat
  <2>2. Acknowledges(f, f.block, g, "receive")
    BY <1>4, <2>1, ZenonT(30) DEF Acknowledges, Acknowledge, ClientType
  <2> QED
    BY <1>1, <1>5, <2>1, <2>2, ZenonT(30) DEF Repeats, AnswersRepeat
<1>6. CASE Declines(f)
  <2>1. CASE a.status = "capacity"
    <3>1. AttemptFails("capacity")
      BY <2>1, ZenonT(30) DEF ReceiveDatagram
    <3> QED
      BY <1>1, <1>6, <3>1, ZenonT(30) DEF Refuses, Declines
  <2>2. CASE a.status # "capacity"
    <3>1. AttemptFails("malformed")
      BY <1>6, <2>2, ZenonT(30) DEF ReceiveDatagram, Declines
    <3> QED
      BY <1>1, <1>6, <3>1, ZenonT(30) DEF Refuses, Declines
  <2> QED
    BY <2>1, <2>2, ZenonT(30)
<1>7. CASE AnswersOack(f)
  <2>1. /\ client' = [Acknowledge(d, f, 0) EXCEPT !.then = "receive"]
        /\ UNCHANGED <<staging, receipt>>
    BY <1>7, ZenonT(30) DEF ReceiveDatagram, AnswersOack
  <2>2. Acknowledges(f, 0, a.guard, "receive")
    BY <1>4, <2>1, ZenonT(30) DEF Acknowledges, Acknowledge, ClientType
  <2> QED
    BY <1>1, <1>7, <2>1, <2>2, ZenonT(30) DEF TakesOack, AnswersOack
<1>8. CASE AnswersData(f)
  <2>1. IF g.received + f.size > deployment.capacity
        THEN AttemptFails("capacity")
        ELSE /\ staging' = [staging EXCEPT ![client.kind] = Store(@, g.received, f)]
             /\ client' = [Acknowledge(d, f, f.block) EXCEPT
                              !.then = IF a.status = "complete" THEN "finish" ELSE "receive"]
             /\ UNCHANGED receipt
    BY <1>8, ZenonT(30) DEF ReceiveDatagram, AnswersData
  <2>2. g.received \in Nat /\ deployment.capacity \in Nat
    <3>1. deployment.capacity \in Nat
      BY DeploymentFacts DEF WireInv, TypeOK
    <3>2. g.received \in Nat
      BY <1>4 DEF ClientType, GuardType
    <3> QED
      BY <3>1, <3>2, ZenonT(30)
  <2>3. CASE g.received + f.size > deployment.capacity
    BY <1>1, <1>3, <1>8, <2>1, <2>2, <2>3 DEF Refuses, Fits, AnswersData
  <2>4. CASE ~(g.received + f.size > deployment.capacity)
    <3>1. Acknowledges(f, f.block, a.guard,
                       IF f.size < g.block THEN "finish" ELSE "receive")
      BY <1>4, <1>8, <2>1, <2>4, ZenonT(30) DEF Acknowledges, Acknowledge, ClientType, AnswersData
    <3>2. Fits(f)
      BY <1>3, <1>8, <2>2, <2>4 DEF Fits, AnswersData
    <3> QED
      BY <1>1, <1>8, <2>1, <2>4, <3>1, <3>2, ZenonT(30) DEF TakesData, AnswersData
  <2> QED
    BY <2>3, <2>4, ZenonT(30)
<1> QED
  BY <1>2, <1>3, <1>5, <1>6, <1>7, <1>8, GuardAnswers

-----------------------------------------------------------------------------
(* The moves of the client.                                                *)

Waits ==
    /\ Active /\ UNCHANGED <<staging, receipt, net, disturbed>>
    /\ \E t \in Nat, r \in {0, 1} : client' = [client EXCEPT !.ticks = t, !.ring = r]

\* A reason for an attempt to fail that is not a disturbance.
Blamed ==
    \/ /\ client.pc = "receive"
       /\ \E f \in net : IsForClient(client, f) /\ ~Fits(f)
    \/ /\ client.pc = "recycle" /\ client.then = "finish"
       /\ client.guard.received = 0 \/ client.guard.received > deployment.maximum
    \/ /\ client.pc \in {"probe", "read"}
       /\ \/ Size(client.kind) = 0 \/ Size(client.kind) > deployment.maximum
          \/ Size(client.kind) > deployment.capacity
    \/ client.pc = "idle" /\ deployment.backend = "pxe" /\ ~PxeHasTime

Drops ==
    /\ client.pc # "done" /\ net' \subseteq net
    /\ \E status \in Errors :
          /\ AttemptFails(status)
          /\ \/ disturbed' = TRUE
             \/ disturbed' = disturbed /\ status \notin {"timeout", "io"} /\ Blamed

Starts ==
    /\ client.pc = "idle" /\ deployment.maximum <= deployment.capacity
    /\ deployment.backend = "pxe" => PxeHasTime
    /\ client' = BeginAttempt(client, 0)
    /\ staging' = [staging EXCEPT ![client.kind] = Wiped(@)]
    /\ UNCHANGED <<receipt, net, disturbed>>

TooSmall ==
    /\ client.pc = "idle" /\ deployment.maximum > deployment.capacity
    /\ Return("capacity", 0) /\ UNCHANGED <<staging, net, disturbed>>

Sends ==
    /\ client.pc = "transmit" /\ net' = net \cup {client.frame}
    /\ client' = [client EXCEPT !.pc = "recycle"]
    /\ UNCHANGED <<staging, receipt, disturbed>>

GoesOn ==
    /\ client.pc = "recycle" /\ client.then # "finish"
    /\ client' = [client EXCEPT !.pc = client.then]
    /\ UNCHANGED <<staging, receipt, net, disturbed>>

Succeeds ==
    /\ client.pc = "recycle" /\ client.then = "finish" /\ client.guard.received # 0
    /\ Return("ok", client.guard.received)
    /\ UNCHANGED <<staging, net, disturbed>>

HearsArp ==
    /\ client.pc = "arp" /\ net' \subseteq net
    /\ client' = [client EXCEPT !.mac = TRUE, !.pc = "transmit",
                                !.frame = Rrq(client.kind), !.then = "receive"]
    /\ \A f \in net : f.type # "arp_reply" => f \in net'
    /\ UNCHANGED <<staging, receipt, disturbed>>

Takes(f) ==
    /\ client.pc = "receive" /\ IsForClient(client, f) /\ net' = Remaining(f)
    /\ disturbed' = disturbed
    /\ Repeats(f) \/ TakesOack(f) \/ TakesData(f)

Probes ==
    /\ client.pc = "probe"
    /\ \E b \in BOOLEAN : client' = [client EXCEPT !.pc = "read", !.probed = b]
    /\ UNCHANGED <<staging, receipt, net, disturbed>>

Reads ==
    /\ client.pc = "read" /\ Size(client.kind) \in 1 .. deployment.maximum
    /\ staging' = [staging EXCEPT ![client.kind] = Whole(client.kind)]
    /\ Return("ok", Size(client.kind))
    /\ UNCHANGED <<net, disturbed>>

Moves ==
    \/ Waits \/ Drops \/ Starts \/ TooSmall \/ Sends \/ GoesOn \/ Succeeds \/ HearsArp
    \/ Probes \/ Reads \/ \E f \in net : Takes(f)

\* A disturbed attempt ends.
LEMMA DisturbedDrops ==
    ASSUME client.pc # "done", UNCHANGED net, NEW status \in Errors, AttemptFails(status),
           disturbed' = TRUE
    PROVE  Moves
  BY ZenonT(30) DEF Moves, Drops

\* A poll takes a tick or ends the attempt.
LEMMA PollMoves ==
    ASSUME WireInv, Active, Poll \/ PollFails \/ FirmwareFails, UNCHANGED net
    PROVE  Moves
<1>1. client \in ClientType /\ client.pc # "done"
  BY ZenonT(30) DEF WireInv, TypeOK, Active
<1>2. CASE Poll
  <2>1. client.ticks - 1 \in Nat /\ client.ring \in {0, 1}
    BY <1>1, <1>2 DEF Poll, ClientType
  <2>2. client' = [client EXCEPT !.ticks = client.ticks - 1, !.ring = client.ring]
    BY <1>1, <1>2, ZenonT(30) DEF Poll, ClientType
  <2> QED
    BY <1>2, <2>1, <2>2, ZenonT(30) DEF Poll, Moves, Waits
<1>3. CASE PollFails
  BY <1>1, <1>3, DisturbedDrops, ZenonT(30) DEF PollFails, Errors, Statuses
<1>4. CASE FirmwareFails
  <2>1. PICK status \in FirmwareStatuses : AttemptFails(status)
    BY <1>4, ZenonT(30) DEF FirmwareFails
  <2>2. status \in Errors
    BY ZenonT(30) DEF FirmwareStatuses, Errors, Statuses
  <2> QED
    BY <1>1, <1>4, <2>1, <2>2, DisturbedDrops, ZenonT(30) DEF FirmwareFails
<1> QED
  BY <1>2, <1>3, <1>4, ZenonT(30)

\* ribon_recovery_network_fetch is called.
LEMMA FetchMoves == ASSUME WireInv, Fetch PROVE Moves
<1>1. deployment.maximum \in Nat /\ deployment.capacity \in Nat
  BY DeploymentFacts DEF WireInv, TypeOK
<1>2. client.pc = "idle" /\ UNCHANGED <<net, disturbed>>
  BY ZenonT(30) DEF Fetch
<1>3. CASE deployment.maximum > deployment.capacity
  BY <1>2, <1>3, ZenonT(30) DEF Fetch, Moves, TooSmall
<1>4. CASE ~(deployment.maximum > deployment.capacity) /\ deployment.backend = "pxe" /\ ~PxeHasTime
  <2>1. AttemptFails("invalid") /\ "invalid" \in Errors
    BY <1>4, ZenonT(30) DEF Fetch, Errors, Statuses
  <2> QED
    BY <1>2, <1>4, <2>1, ZenonT(30) DEF Moves, Drops, Blamed
<1>5. CASE ~(deployment.maximum > deployment.capacity) /\ ~(deployment.backend = "pxe" /\ ~PxeHasTime)
  BY <1>1, <1>2, <1>5 DEF Fetch, Moves, Starts
<1> QED
  BY <1>3, <1>4, <1>5, ZenonT(30)

\* GetStatus returned the buffer.
LEMMA RecycledMoves == ASSUME WireInv, Recycled PROVE Moves
<1>1. client.pc = "recycle" /\ UNCHANGED <<net, disturbed>>
  BY ZenonT(30) DEF Recycled
<1>2. CASE client.then # "finish"
  BY <1>1, <1>2, ZenonT(30) DEF Recycled, Moves, GoesOn
<1>3. CASE client.then = "finish" /\ client.guard.received = 0
  <2>1. AttemptFails("truncated") /\ "truncated" \in Errors
    BY <1>3, ZenonT(30) DEF Recycled, Finish, Errors, Statuses
  <2> QED
    BY <1>1, <1>3, <2>1, ZenonT(30) DEF Moves, Drops, Blamed
<1>4. CASE client.then = "finish" /\ client.guard.received # 0
  <2>1. ~(client.guard.received > deployment.maximum)
    BY DeploymentFacts DEF WireInv, GuardInv, TypeOK
  <2>2. Return("ok", client.guard.received) /\ UNCHANGED staging
    BY <1>4, <2>1, ZenonT(30) DEF Recycled, Finish
  <2> QED
    BY <1>1, <1>4, <2>2, ZenonT(30) DEF Moves, Succeeds
<1> QED
  BY <1>2, <1>3, <1>4, ZenonT(30)

\* The first call of pxe_fetch_once.
LEMMA ProbeMoves == ASSUME WireInv, PxeProbe PROVE Moves
<1>1. client.pc = "probe" /\ UNCHANGED net
  BY ZenonT(30) DEF PxeProbe
<1>2. CASE FirmwareFails
  <2>1. PICK status \in FirmwareStatuses : AttemptFails(status)
    BY <1>2, ZenonT(30) DEF FirmwareFails
  <2>2. status \in Errors
    BY ZenonT(30) DEF FirmwareStatuses, Errors, Statuses
  <2> QED
    BY <1>1, <1>2, <2>1, <2>2, DisturbedDrops, ZenonT(30) DEF FirmwareFails
<1>3. CASE /\ client' = [client EXCEPT !.pc = "read", !.probed = FALSE]
           /\ UNCHANGED <<staging, receipt, disturbed>>
  BY <1>1, <1>3, ZenonT(30) DEF Moves, Probes
<1>4. CASE /\ IF \/ Size(client.kind) = 0 \/ Size(client.kind) > deployment.maximum
                 \/ Size(client.kind) > deployment.capacity
              THEN AttemptFails("capacity")
              ELSE /\ client' = [client EXCEPT !.pc = "read", !.probed = TRUE]
                   /\ UNCHANGED <<staging, receipt>>
           /\ UNCHANGED disturbed
  <2>1. "capacity" \in Errors
    BY ZenonT(30) DEF Errors, Statuses
  <2>2. CASE \/ Size(client.kind) = 0 \/ Size(client.kind) > deployment.maximum
             \/ Size(client.kind) > deployment.capacity
    BY <1>1, <1>4, <2>1, <2>2, ZenonT(30) DEF Moves, Drops, Blamed
  <2>3. CASE ~(\/ Size(client.kind) = 0 \/ Size(client.kind) > deployment.maximum
               \/ Size(client.kind) > deployment.capacity)
    BY <1>1, <1>4, <2>3, ZenonT(30) DEF Moves, Probes
  <2> QED
    BY <2>2, <2>3, ZenonT(30)
<1> QED
  BY <1>2, <1>3, <1>4, ZenonT(30) DEF PxeProbe, Size

\* The second one.
LEMMA ReadMoves == ASSUME WireInv, PxeRead PROVE Moves
<1>1. client.pc = "read" /\ UNCHANGED net
  BY ZenonT(30) DEF PxeRead
<1>2. {"capacity", "truncated"} \subseteq Errors /\ FirmwareStatuses \subseteq Errors
  BY ZenonT(30) DEF Errors, Statuses, FirmwareStatuses
<1>3. Size(client.kind) \in Nat /\ deployment.maximum \in Nat
  BY DeploymentFacts DEF WireInv, TypeOK, ClientType
<1>4. CASE FirmwareFails
  BY <1>1, <1>2, <1>4, DisturbedDrops, ZenonT(30) DEF FirmwareFails
<1>5. CASE AttemptFails("truncated") /\ disturbed' = TRUE
  BY <1>1, <1>2, <1>5, DisturbedDrops, ZenonT(30)
<1>6. CASE /\ IF Size(client.kind) > deployment.maximum
              THEN AttemptFails("capacity")
              ELSE IF Size(client.kind) = 0
              THEN AttemptFails("truncated")
              ELSE /\ staging' = [staging EXCEPT ![client.kind] = Whole(client.kind)]
                   /\ Return("ok", Size(client.kind))
           /\ UNCHANGED disturbed
  <2>1. CASE Size(client.kind) > deployment.maximum
    BY <1>1, <1>2, <1>6, <2>1, ZenonT(30) DEF Moves, Drops, Blamed
  <2>2. CASE Size(client.kind) = 0
    <3>1. AttemptFails("truncated")
      BY <1>3, <1>6, <2>2
    <3> QED
      BY <1>1, <1>2, <1>6, <2>2, <3>1, ZenonT(30) DEF Moves, Drops, Blamed
  <2>3. CASE ~(Size(client.kind) > deployment.maximum) /\ Size(client.kind) # 0
    BY <1>1, <1>3, <1>6, <2>3 DEF Moves, Reads
  <2> QED
    BY <2>1, <2>2, <2>3, ZenonT(30)
<1> QED
  BY <1>4, <1>5, <1>6, ZenonT(30) DEF PxeRead, Size

\* Every step of the client is one of the moves.
LEMMA ClientMoves ==
    ASSUME WireInv, Client
    PROVE  Moves /\ UNCHANGED <<deployment, server>>
<1>1. UNCHANGED <<deployment, server>>
  BY ZenonT(30) DEF Client, Fetch, PxeProbe, PxeRead, Transmit, TransmitBusy, TransmitFails, Recycled,
         RecyclePoll, RecycleFails, ReceiveNothing, ReceiveFails, ReceiveOther, ReceiveArp,
         ReceiveDatagram
<1>2. CASE Fetch \/ Recycled \/ PxeProbe \/ PxeRead
  BY <1>1, <1>2, FetchMoves, RecycledMoves, ProbeMoves, ReadMoves, ZenonT(30)
<1>3. CASE TransmitBusy \/ TransmitFails \/ RecyclePoll \/ RecycleFails \/ ReceiveNothing
  <2>1. Active /\ UNCHANGED net /\ (Poll \/ PollFails \/ FirmwareFails)
    BY <1>3, ZenonT(30) DEF TransmitBusy, TransmitFails, RecyclePoll, RecycleFails, ReceiveNothing, Active
  <2> QED
    BY <1>1, <2>1, PollMoves, ZenonT(30)
<1>4. CASE ReceiveFails
  <2>1. Active /\ client.pc # "done" /\ UNCHANGED net
    BY <1>4, ZenonT(30) DEF ReceiveFails, Active
  <2>2. CASE FirmwareFails
    BY <1>1, <2>1, <2>2, PollMoves, ZenonT(30)
  <2>3. CASE AttemptFails("malformed") /\ disturbed' = TRUE
    BY <1>1, <2>1, <2>3, DisturbedDrops, ZenonT(30) DEF Errors, Statuses
  <2> QED
    BY <1>4, <2>2, <2>3, ZenonT(30) DEF ReceiveFails
<1>5. CASE Transmit
  BY <1>5, ZenonT(30) DEF Transmit, Moves, Sends
<1>6. CASE ReceiveOther
  <2>1. client \in ClientType
    BY ZenonT(30) DEF WireInv, TypeOK
  <2>2. client' = [client EXCEPT !.ticks = client.ticks, !.ring = 1 - client.ring]
    BY <1>6, <2>1, ZenonT(30) DEF ReceiveOther, ClientType
  <2>3. client.ticks \in Nat /\ 1 - client.ring \in {0, 1}
    BY <2>1 DEF ClientType
  <2> QED
    BY <1>6, <2>2, <2>3, ZenonT(30) DEF ReceiveOther, Moves, Waits, Active
<1>7. CASE ReceiveArp
  BY <1>7 DEF ReceiveArp, Remaining, ArpReply, Moves, HearsArp
<1>8. ASSUME NEW f \in net, ReceiveDatagram(f) PROVE Moves
  <2>1. CASE Refuses(f)
    <3>1. {"capacity", "malformed"} \subseteq Errors \ {"timeout", "io"}
      BY ZenonT(30) DEF Errors, Statuses
    <3>2. net' \subseteq net /\ disturbed' = disturbed /\ client.pc = "receive"
      BY <1>8, DatagramCases, ZenonT(30) DEF Remaining
    <3>3. Blamed
      BY <1>8, <2>1, DatagramCases, ZenonT(30) DEF Refuses, Blamed
    <3> QED
      BY <2>1, <3>1, <3>2, <3>3, ZenonT(30) DEF Refuses, Moves, Drops
  <2>2. CASE Repeats(f) \/ TakesOack(f) \/ TakesData(f)
    BY <1>8, <2>2, DatagramCases, ZenonT(30) DEF Moves, Takes
  <2> QED
    BY <1>8, <2>1, <2>2, DatagramCases, ZenonT(30)
<1> QED
  BY <1>1, <1>2, <1>3, <1>4, <1>5, <1>6, <1>7, <1>8, ZenonT(30) DEF Client

-----------------------------------------------------------------------------
(* What is on the network.                                                 *)

\* A frame is what its type says.
LEMMA FrameOrigin ==
    ASSUME WireInv, NEW f \in net
    PROVE  /\ f.type = "data" => IsData(f)
           /\ f.type = "oack" => IsOack(f)
           /\ f.type = "ack" => IsAck(f)
           /\ f.type = "rrq" => f.kind \in Kinds /\ f = Rrq(f.kind)
           /\ f.type = "error" => f.kind \in Kinds /\ f = Refusal(MaxSessions + 1, f.kind)
<1>1. IsFrame(f)
  BY ZenonT(30) DEF WireInv, NetInv
<1>2. CASE IsAck(f) \/ IsOack(f) \/ IsData(f)
  BY <1>2, ZenonT(30) DEF IsAck, IsOack, IsData
<1>3. CASE IsRequest(f) \/ f = ArpReply \/ \E k \in Kinds : f = Refusal(MaxSessions + 1, k)
  BY <1>3 DEF IsRequest, ArpRequest, ArpReply, Rrq, Refusal
<1> QED
  BY <1>1, <1>2, <1>3, ZenonT(30) DEF IsFrame

\* The packets of a transfer.
LEMMA OackOrigin ==
    ASSUME WireInv, NEW f \in net, f.type = "oack"
    PROVE  /\ f.port \in Sessions /\ f.kind = server[f.port].kind
           /\ f.size = server[f.port].block
           /\ f = Oack(f.port, server[f.port].kind, server[f.port].block)
<1>1. IsOack(f)
  BY FrameOrigin, ZenonT(30)
<1>2. f.port \in Sessions /\ f = Oack(f.port, server[f.port].kind, server[f.port].block)
  BY <1>1, ZenonT(30) DEF IsOack
<1> QED
  BY <1>2 DEF Oack

\* Length of block n of transfer s.
Left(s, n) == Size(s.kind) - Offset(s.block, n)
Length(s, n) == IF Left(s, n) < s.block THEN Left(s, n) ELSE s.block

LEMMA DataOrigin ==
    ASSUME WireInv, NEW f \in net, f.type = "data"
    PROVE  /\ f.port \in Sessions /\ f.kind = server[f.port].kind
           /\ f.object = server[f.port].kind
           /\ f.block \in 1 .. server[f.port].sent
           /\ f.first = Offset(server[f.port].block, f.block) + 1
           /\ f.size = Length(server[f.port], f.block)
           /\ f = ServerData(f.port, server[f.port], f.block)
<1>1. IsData(f)
  BY FrameOrigin, ZenonT(30)
<1>2. f.port \in Sessions
  BY <1>1, ZenonT(30) DEF IsData
<1>3. PICK n \in 1 .. server[f.port].sent : f = ServerData(f.port, server[f.port], n)
  BY <1>1, ZenonT(30) DEF IsData
<1>4. LastBlock \in Nat /\ server[f.port].sent \in 0 .. LastBlock
  BY <1>2, DeploymentAssumption, ZenonT(30) DEF WireInv, ServerInv
<1>5. n \in 1 .. LastBlock
  BY <1>4
<1> QED
  BY <1>2, <1>3, <1>4, <1>5, ServerDataFields DEF Length, Left

\* The facts about a transfer.
LEMMA SessionFacts ==
    ASSUME WireInv, NEW p \in Sessions
    PROVE  /\ server[p].kind \in Kinds /\ server[p].block \in deployment.offers
           /\ server[p].block \in Nat \ {0} /\ server[p].block <= deployment.block
           /\ server[p].sent \in 0 .. LastBlock /\ server[p].sent \in Nat
           /\ Size(server[p].kind) \in Nat
           /\ p \in 1 .. MaxSessions
           /\ server[p].sent > 0 => Offset(server[p].block, server[p].sent) <= Size(server[p].kind)
<1>1. deployment.offers \subseteq Nat \ {0} /\ \A b \in deployment.offers : b <= deployment.block
  BY DeploymentFacts, ZenonT(30) DEF WireInv, TypeOK
<1>2. \A k \in Kinds : Size(k) \in Nat
  BY DeploymentFacts, ZenonT(30) DEF WireInv, TypeOK
<1>3. server[p] \in [kind : Kinds, block : deployment.offers, sent : 0 .. LastBlock]
  BY ZenonT(30) DEF WireInv, ServerInv
<1> QED
  <2>1. server[p].sent \in Nat
    BY <1>3, DeploymentAssumption
  <2>2. p \in 1 .. MaxSessions
    <3>1. PICK c \in 0 .. MaxSessions : Sessions = 1 .. c
      BY ZenonT(30) DEF WireInv, ServerInv
    <3> QED
      BY <3>1, DeploymentAssumption
  <2>3. server[p].sent > 0 => Offset(server[p].block, server[p].sent) <= Size(server[p].kind)
    BY ZenonT(30) DEF WireInv, ServerInv
  <2> QED
    BY <1>1, <1>2, <1>3, <2>1, <2>2, <2>3, Zenon

\* A block of a transfer lies in the object.
LEMMA BlockFits ==
    ASSUME WireInv, NEW p \in Sessions, NEW n \in 1 .. server[p].sent
    PROVE  /\ Offset(server[p].block, n) \in Nat
           /\ Left(server[p], n) \in Nat
           /\ Length(server[p], n) \in 0 .. server[p].block
           /\ Offset(server[p].block, n) + Length(server[p], n) <= Size(server[p].kind)
           /\ Length(server[p], n) < server[p].block =>
                 Offset(server[p].block, n) + Length(server[p], n) = Size(server[p].kind)
<1>1. /\ server[p].block \in Nat \ {0} /\ server[p].sent \in Nat
      /\ server[p].sent > 0 => Offset(server[p].block, server[p].sent) <= Size(server[p].kind)
      /\ Size(server[p].kind) \in Nat
  BY SessionFacts, ZenonT(30)
<1>2. n \in Nat \ {0} /\ server[p].sent \in Nat \ {0} /\ n <= server[p].sent
  BY <1>1
<1>3. /\ Offset(server[p].block, n) <= Offset(server[p].block, server[p].sent)
      /\ Offset(server[p].block, n) \in Nat /\ Offset(server[p].block, server[p].sent) \in Nat
  BY <1>1, <1>2, Blocks, BlocksGrow, ZenonT(30)
<1> QED
  BY <1>1, <1>2, <1>3 DEF Left, Length

\* A step of the client leaves the network as described.
LEMMA WireKeeps ==
    ASSUME WireInv, UNCHANGED <<deployment, server>>,
           client' \in ClientType,
           staging' \in [Kinds -> [1 .. MaxBytes -> Bytes]],
           receipt' \in [Kinds -> [status : Statuses, bytes : 0 .. MaxBytes]],
           disturbed' \in BOOLEAN,
           net' \subseteq net \cup {client.frame},
           IsRequest(client'.frame) \/ IsAck(client'.frame),
           client'.guard.expected \in 1 .. LastBlock,
           client'.guard.received \in 0 .. deployment.maximum,
           client'.guard.complete => client'.guard.expected > 1
    PROVE  WireInv'
<1>1. TypeOK'
  BY ZenonT(30) DEF WireInv, TypeOK, ClientType, Sessions
<1>2. ServerInv'
  BY ZenonT(30) DEF WireInv, ServerInv, Sessions, Offset, Size
<1>3. GuardInv'
  BY ZenonT(30) DEF GuardInv
<1>4. ASSUME NEW f \in net' PROVE IsFrame(f)'
  <2>1. IsFrame(f)
    BY ZenonT(30) DEF WireInv, NetInv, IsFrame
  <2> QED
    BY <2>1, ZenonT(30) DEF IsFrame, IsAck, IsOack, IsData, Sessions, ServerData
<1>5. (IsRequest(client.frame) \/ IsAck(client.frame))'
  BY ZenonT(30) DEF IsAck, Sessions
<1> QED
  BY <1>1, <1>2, <1>3, <1>4, <1>5, ZenonT(30) DEF WireInv, NetInv

\* The fields after an acknowledgement.
LEMMA AcknowledgeFields ==
    ASSUME WireInv, NEW f \in net, f.type \in {"oack", "data"},
           NEW n \in 0 .. LastBlock - 1, NEW guard \in GuardType,
           NEW then \in {"receive", "finish"}, Acknowledges(f, n, guard, then)
    PROVE  /\ client' \in ClientType
           /\ client'.pc = "transmit" /\ client'.port = f.port /\ client'.guard = guard
           /\ client'.frame = Ack(f.port, n) /\ client'.then = then
           /\ client'.kind = client.kind /\ client'.attempt = client.attempt
           /\ IsAck(client'.frame)
<1>1. client \in ClientType /\ LastBlock \in Nat /\ MaxSessions \in Nat
  BY DeploymentAssumption, ZenonT(30) DEF WireInv, TypeOK
<1>2. f.port \in Sessions /\ f.port \in 1 .. MaxSessions
  BY OackOrigin, DataOrigin, PacketTypes, ZenonT(30) DEF WireInv
<1>3. Ack(f.port, n) \in FrameType
  BY <1>1, <1>2 DEF Ack, FrameType
<1>4. f.port \in 0 .. MaxSessions + 1
  BY <1>1, <1>2
<1>5. /\ client'.pc = "transmit" /\ client'.port = f.port /\ client'.guard = guard
      /\ client'.frame = Ack(f.port, n) /\ client'.then = then
      /\ client'.kind = client.kind /\ client'.attempt = client.attempt
  BY <1>1, ZenonT(30) DEF Acknowledges, ClientType
<1>6. client' \in ClientType
  BY <1>1, <1>3, <1>4, ZenonT(30) DEF Acknowledges, ClientType
<1> QED
  BY <1>2, <1>5, <1>6 DEF IsAck, Ack

\* The guard after an OACK and after DATA.
GuardOack(f) == [client.guard EXCEPT !.block = f.size, !.options = TRUE, !.packets = @ + 1]
GuardData(f) ==
    [client.guard EXCEPT !.options = TRUE, !.received = @ + f.size, !.expected = @ + 1,
                         !.packets = @ + 1, !.complete = f.size < client.guard.block]

LEMMA GuardOackFields ==
    ASSUME WireInv, NEW f \in net, TakesOack(f)
    PROVE  /\ GuardOack(f) \in GuardType /\ GuardOack(f).block = f.size
           /\ GuardOack(f).options = TRUE /\ GuardOack(f).packets = client.guard.packets + 1
           /\ GuardOack(f).received = client.guard.received
           /\ GuardOack(f).expected = client.guard.expected
           /\ GuardOack(f).complete = client.guard.complete
           /\ Acknowledges(f, 0, GuardOack(f), "receive")
<1>1. client.guard \in GuardType /\ f.size \in Nat
  BY PacketTypes, ZenonT(30) DEF WireInv, TypeOK, ClientType, TakesOack
<1>2. Acknowledges(f, 0, GuardOack(f), "receive")
  BY ZenonT(30) DEF GuardOack, TakesOack
<1>3. client.guard.packets + 1 \in Nat
  BY <1>1 DEF GuardType
<1>4. GuardOack(f) \in GuardType
  BY <1>1, <1>3, ZenonT(30) DEF GuardOack, GuardType
<1> QED
  BY <1>1, <1>2, <1>4, ZenonT(30) DEF GuardOack, GuardType

LEMMA GuardDataFields ==
    ASSUME WireInv, NEW f \in net, TakesData(f)
    PROVE  /\ GuardData(f) \in GuardType /\ GuardData(f).block = client.guard.block
           /\ GuardData(f).options = TRUE /\ GuardData(f).packets = client.guard.packets + 1
           /\ GuardData(f).received = client.guard.received + f.size
           /\ GuardData(f).received \in 0 .. deployment.maximum
           /\ GuardData(f).expected = client.guard.expected + 1
           /\ GuardData(f).expected \in 2 .. LastBlock
           /\ GuardData(f).complete = (f.size < client.guard.block)
           /\ f.block \in 1 .. LastBlock - 1 /\ f.block = client.guard.expected
           /\ Acknowledges(f, f.block, GuardData(f),
                           IF f.size < client.guard.block THEN "finish" ELSE "receive")
<1>1. client.guard \in GuardType /\ f.size \in Nat
  BY PacketTypes, ZenonT(30) DEF WireInv, TypeOK, ClientType, TakesData
<1>2. deployment.maximum \in 1 .. MaxBytes /\ MaxBytes \in Nat /\ LastBlock \in Nat
  BY DeploymentFacts, ZenonT(30) DEF WireInv, TypeOK
<1>3. /\ f.block = client.guard.expected /\ client.guard.expected # LastBlock
      /\ client.guard.expected \in 1 .. LastBlock
      /\ f.size <= deployment.maximum - client.guard.received
      /\ client.guard.received \in 0 .. deployment.maximum
  BY ZenonT(30) DEF TakesData, Fits, WireInv, GuardInv
<1>4. /\ client.guard.received + f.size \in 0 .. deployment.maximum
      /\ client.guard.received + f.size \in 0 .. MaxBytes
      /\ client.guard.expected + 1 \in 2 .. LastBlock
      /\ client.guard.expected + 1 \in 0 .. LastBlock
      /\ f.block \in 1 .. LastBlock - 1
  BY <1>1, <1>2, <1>3
<1>5. (f.size < client.guard.block) \in BOOLEAN
  BY <1>1 DEF GuardType
<1>6. client.guard.packets + 1 \in Nat
  BY <1>1 DEF GuardType
<1>7. GuardData(f) \in GuardType
  BY <1>1, <1>4, <1>5, <1>6, ZenonT(30) DEF GuardData, GuardType
<1>8. /\ GuardData(f).block = client.guard.block
      /\ GuardData(f).options = TRUE /\ GuardData(f).packets = client.guard.packets + 1
      /\ GuardData(f).received = client.guard.received + f.size
      /\ GuardData(f).expected = client.guard.expected + 1
      /\ GuardData(f).complete = (f.size < client.guard.block)
  BY <1>1, ZenonT(30) DEF GuardData, GuardType
<1>9. Acknowledges(f, f.block, GuardData(f),
                   IF f.size < client.guard.block THEN "finish" ELSE "receive")
  BY ZenonT(30) DEF TakesData, GuardData
<1> QED
  BY <1>3, <1>4, <1>7, <1>8, <1>9, ZenonT(30)

\* A packet that is taken.
LEMMA TakesWire ==
    ASSUME WireInv, UNCHANGED <<deployment, server>>, NEW f \in net, Takes(f)
    PROVE  WireInv'
<1>1. net' \subseteq net /\ disturbed' \in BOOLEAN /\ LastBlock \in Nat /\ LastBlock > 1
  BY DeploymentAssumption DEF Takes, Remaining, WireInv, TypeOK
<1>2. /\ staging \in [Kinds -> [1 .. MaxBytes -> Bytes]]
      /\ receipt \in [Kinds -> [status : Statuses, bytes : 0 .. MaxBytes]]
      /\ client.guard \in GuardType /\ client.kind \in Kinds
  BY ZenonT(30) DEF WireInv, TypeOK, ClientType
<1>3. GuardInv
  BY ZenonT(30) DEF WireInv
<1>4. CASE Repeats(f)
  <2>1. f.block \in 0 .. LastBlock - 1
    BY <1>1, <1>3, <1>4 DEF Repeats, GuardInv
  <2>2. client' \in ClientType /\ client'.guard = client.guard /\ IsAck(client'.frame)
    BY <1>2, <1>4, <2>1, AcknowledgeFields, ZenonT(30) DEF Repeats
  <2> QED
    BY <1>1, <1>2, <1>3, <1>4, <2>2, WireKeeps, ZenonT(30) DEF Repeats, GuardInv
<1>5. CASE TakesOack(f)
  <2>1. 0 \in 0 .. LastBlock - 1
    BY <1>1
  <2>2. client' \in ClientType /\ client'.guard = GuardOack(f) /\ IsAck(client'.frame)
    BY <1>5, <2>1, AcknowledgeFields, GuardOackFields, ZenonT(30) DEF TakesOack
  <2> QED
    BY <1>1, <1>2, <1>3, <1>5, <2>2, GuardOackFields, WireKeeps, ZenonT(30) DEF TakesOack, GuardInv
<1>6. CASE TakesData(f)
  <2>6. f.block \in 1 .. LastBlock - 1 /\ f.type = "data"
    BY <1>6, GuardDataFields, ZenonT(30) DEF TakesData
  <2>1. f.block \in 0 .. LastBlock - 1 /\ f.type = "data"
    BY <1>1, <2>6
  <2>2. client' \in ClientType /\ client'.guard = GuardData(f) /\ IsAck(client'.frame)
    BY <1>6, <2>1, AcknowledgeFields, GuardDataFields, ZenonT(30)
  <2>3. Store(staging[client.kind], client.guard.received, f) \in [1 .. MaxBytes -> Bytes]
    <3>1. f.object \in Kinds /\ f.first \in Nat
      BY <2>1, PacketTypes, ZenonT(30) DEF WireInv
    <3>2. client.guard.received \in Nat
      BY <1>2 DEF GuardType
    <3>3. \A i \in 1 .. MaxBytes : i > client.guard.received =>
             <<f.object, f.first + (i - client.guard.received - 1)>> \in Bytes
      BY <3>1, <3>2 DEF Bytes
    <3>4. staging[client.kind] \in [1 .. MaxBytes -> Bytes]
      BY <1>2, ZenonT(30)
    <3> QED
      BY <3>3, <3>4, ZenonT(30) DEF Store
  <2>4. staging' \in [Kinds -> [1 .. MaxBytes -> Bytes]] /\ receipt' = receipt
    BY <1>2, <1>6, <2>3, ZenonT(30) DEF TakesData
  <2>7. client'.guard.expected \in 2 .. LastBlock
    BY <1>6, <2>2, GuardDataFields, ZenonT(30)
  <2>8. client'.guard.received \in 0 .. deployment.maximum
    BY <1>6, <2>2, GuardDataFields, ZenonT(30)
  <2>5. client'.guard.expected \in 1 .. LastBlock /\ client'.guard.expected > 1
    BY <1>1, <2>7
  <2> QED
    BY <1>1, <1>2, <2>2, <2>4, <2>5, <2>8, WireKeeps, ZenonT(30)
<1> QED
  BY <1>4, <1>5, <1>6, ZenonT(30) DEF Takes

\* A move of the client.
LEMMA MovesWire ==
    ASSUME WireInv, BufferInv, UNCHANGED <<deployment, server>>, Moves
    PROVE  WireInv'
<1>1. /\ TypeOK /\ client \in ClientType /\ client.kind \in Kinds
      /\ client.frame \in FrameType /\ disturbed \in BOOLEAN
      /\ staging \in [Kinds -> [1 .. MaxBytes -> Bytes]]
      /\ receipt \in [Kinds -> [status : Statuses, bytes : 0 .. MaxBytes]]
      /\ GuardInv /\ (IsRequest(client.frame) \/ IsAck(client.frame))
  BY ZenonT(30) DEF WireInv, TypeOK, ClientType, NetInv
<1>2. /\ deployment.block \in Nat \ {0} /\ deployment.maximum \in 1 .. MaxBytes
      /\ LastBlock \in Nat /\ LastBlock > 1 /\ MaxBytes \in Nat /\ ObjectCount \in Nat
  BY <1>1, DeploymentFacts, ZenonT(30) DEF TypeOK
<1>3. ASSUME NEW a \in Nat, client' = BeginAttempt(client, a)
      PROVE  /\ client' \in ClientType /\ IsRequest(client'.frame)
             /\ client'.guard.expected \in 1 .. LastBlock
             /\ client'.guard.received \in 0 .. deployment.maximum
             /\ client'.guard.complete => client'.guard.expected > 1
  <2>1. /\ client' \in ClientType /\ IsRequest(client'.frame)
        /\ client'.guard = FreshGuard(deployment.block)
    BY <1>1, <1>3, StartFields, ZenonT(30)
  <2> QED
    BY <1>2, <2>1 DEF FreshGuard
<1>4. CASE Waits
  <2>1. PICK t \in Nat, r \in {0, 1} : client' = [client EXCEPT !.ticks = t, !.ring = r]
    BY <1>4, ZenonT(30) DEF Waits
  <2>2. client' \in ClientType /\ client'.frame = client.frame /\ client'.guard = client.guard
    BY <1>1, <2>1, ZenonT(30) DEF ClientType
  <2> QED
    BY <1>1, <1>4, <2>2, WireKeeps, ZenonT(30) DEF Waits, GuardInv
<1>5. CASE Drops
  <2>1. PICK status \in Errors : AttemptFails(status)
    BY <1>5, ZenonT(30) DEF Drops
  <2>2. net' \subseteq net /\ disturbed' \in BOOLEAN
    BY <1>1, <1>5, ZenonT(30) DEF Drops
  <2>3. /\ client' \in ClientType
        /\ staging' \in [Kinds -> [1 .. MaxBytes -> Bytes]]
        /\ receipt' \in [Kinds -> [status : Statuses, bytes : 0 .. MaxBytes]]
        /\ \/ client' = BeginAttempt(client, client.attempt + 1)
           \/ client'.frame = client.frame /\ client'.guard = client.guard
    BY <1>1, <2>1, FailFields, ZenonT(30)
  <2>4. client.attempt + 1 \in Nat
    BY <1>1 DEF ClientType
  <2>5. CASE client' = BeginAttempt(client, client.attempt + 1)
    BY <1>3, <2>2, <2>3, <2>4, <2>5, WireKeeps, ZenonT(30)
  <2>6. CASE client'.frame = client.frame /\ client'.guard = client.guard
    BY <1>1, <2>2, <2>3, <2>6, WireKeeps, ZenonT(30) DEF GuardInv
  <2> QED
    BY <2>3, <2>5, <2>6, ZenonT(30)
<1>6. CASE Starts
  <2>1. /\ client' = BeginAttempt(client, 0) /\ receipt' = receipt
        /\ net' \subseteq net \cup {client.frame} /\ disturbed' \in BOOLEAN
    BY <1>1, <1>6, ZenonT(30) DEF Starts
  <2>2. staging' \in [Kinds -> [1 .. MaxBytes -> Bytes]]
    BY <1>1, <1>6, WipeFacts, ZenonT(30) DEF Starts
  <2> QED
    BY <1>1, <1>3, <2>1, <2>2, WireKeeps, ZenonT(30)
<1>7. ASSUME NEW status \in Statuses, NEW bytes \in 0 .. MaxBytes, Return(status, bytes),
             staging' \in [Kinds -> [1 .. MaxBytes -> Bytes]], UNCHANGED <<net, disturbed>>
      PROVE  WireInv'
  <2>1. /\ client' \in ClientType
        /\ client'.frame = client.frame /\ client'.guard = client.guard
        /\ receipt' \in [Kinds -> [status : Statuses, bytes : 0 .. MaxBytes]]
    BY <1>1, <1>7, ReturnFields, ZenonT(30)
  <2> QED
    BY <1>1, <1>7, <2>1, WireKeeps, ZenonT(30) DEF GuardInv
<1>8. CASE TooSmall
  <2>1. "capacity" \in Statuses /\ 0 \in 0 .. MaxBytes
    BY <1>2 DEF Statuses
  <2> QED
    BY <1>1, <1>7, <1>8, <2>1, ZenonT(30) DEF TooSmall
<1>9. CASE Sends \/ GoesOn \/ Probes
  <2>1. /\ client' \in ClientType
        /\ client'.frame = client.frame /\ client'.guard = client.guard
    BY <1>1, <1>9, ZenonT(30) DEF Sends, GoesOn, Probes, ClientType
  <2>2. net' \subseteq net \cup {client.frame} /\ UNCHANGED <<staging, receipt, disturbed>>
    BY <1>9, ZenonT(30) DEF Sends, GoesOn, Probes
  <2> QED
    BY <1>1, <2>1, <2>2, WireKeeps, ZenonT(30) DEF GuardInv
<1>10. CASE Succeeds
  <2>1. "ok" \in Statuses /\ client.guard.received \in 0 .. MaxBytes
    BY <1>1, <1>2, ZenonT(30) DEF Statuses, ClientType, GuardType
  <2> QED
    BY <1>1, <1>7, <1>10, <2>1, ZenonT(30) DEF Succeeds
<1>11. CASE HearsArp
  <2>1. Rrq(client.kind) \in FrameType /\ IsRequest(Rrq(client.kind))
    BY <1>1, ZenonT(30) DEF Rrq, FrameType, IsRequest
  <2>2. /\ client' \in ClientType /\ client'.guard = client.guard
        /\ client'.frame = Rrq(client.kind)
    BY <1>1, <1>11, <2>1, ZenonT(30) DEF HearsArp, ClientType
  <2> QED
    BY <1>1, <1>11, <2>1, <2>2, WireKeeps, ZenonT(30) DEF HearsArp, GuardInv
<1>12. CASE Reads
  <2>1. "ok" \in Statuses /\ Size(client.kind) \in 0 .. MaxBytes
    BY <1>2, <1>12 DEF Reads, Statuses
  <2>2. Whole(client.kind) \in [1 .. MaxBytes -> Bytes]
    BY <1>1 DEF Whole, Bytes
  <2>3. staging' \in [Kinds -> [1 .. MaxBytes -> Bytes]]
    BY <1>1, <1>12, <2>2, ZenonT(30) DEF Reads
  <2> QED
    BY <1>7, <1>12, <2>1, <2>3, ZenonT(30) DEF Reads
<1> QED
  BY <1>4, <1>5, <1>6, <1>8, <1>9, <1>10, <1>11, <1>12, TakesWire, ZenonT(30) DEF Moves

-----------------------------------------------------------------------------
(* The moves of the server.                                                *)

SessionType == [kind : Kinds, block : deployment.offers, sent : 0 .. LastBlock]

\* Transfer p sends packet LastPacket(p, s) in answer to frame f.
Opens(f, p, s) ==
    /\ f.type = "rrq" /\ f.kind \in Kinds /\ s.kind = f.kind
    /\ s.sent = (IF deployment.negotiates THEN 0 ELSE 1)
    /\ Sessions = 1 .. p - 1 /\ DOMAIN server' = 1 .. p
    /\ disturbed' = disturbed

Continues(f, p, s) ==
    /\ f = Ack(p, server[p].sent) /\ p \in Sessions
    /\ s = [server[p] EXCEPT !.sent = @ + 1]
    /\ server[p].sent > 0 => Offset(server[p].block, s.sent) <= Size(s.kind)
    /\ DOMAIN server' = Sessions
    /\ disturbed' = disturbed

Serves(f, p, s) ==
    /\ f \in net /\ net' = Remaining(f) \cup {LastPacket(p, s)}
    /\ p \in 1 .. MaxSessions /\ s \in SessionType
    /\ s.sent > 0 => Offset(s.block, s.sent) <= Size(s.kind)
    /\ server'[p] = s /\ \A q \in Sessions \ {p} : server'[q] = server[q]
    /\ Opens(f, p, s) \/ Continues(f, p, s)

ServerMoves ==
    \/ ServerArp
    \/ \E f \in net : ServerRefuse(f)
    \/ \E f \in net, p \in 1 .. MaxSessions, s \in SessionType : Serves(f, p, s)

\* A request starts a transfer.
LEMMA StartServes ==
    ASSUME WireInv, NEW f \in net, ServerStart(f)
    PROVE  ServerMoves
<1>1. PICK p \in 1 .. MaxSessions, b \in deployment.offers :
         LET s == [kind |-> f.kind, block |-> b,
                   sent |-> IF deployment.negotiates THEN 0 ELSE 1]
         IN  /\ Sessions = 1 .. p - 1
             /\ server' = [q \in 1 .. p |-> IF q = p THEN s ELSE server[q]]
             /\ net' = Remaining(f) \cup {LastPacket(p, s)}
  BY ZenonT(30) DEF ServerStart
<1> DEFINE s == [kind |-> f.kind, block |-> b, sent |-> IF deployment.negotiates THEN 0 ELSE 1]
<1>2. p \in Nat /\ MaxSessions \in Nat /\ LastBlock \in Nat /\ LastBlock > 1
  BY DeploymentAssumption
<1>3. f.type = "rrq" /\ f.kind \in Kinds /\ disturbed' = disturbed
  BY FrameOrigin, ZenonT(30) DEF ServerStart
<1>4. /\ Sessions = 1 .. p - 1
      /\ server' = [q \in 1 .. p |-> IF q = p THEN s ELSE server[q]]
      /\ net' = Remaining(f) \cup {LastPacket(p, s)}
  BY <1>1, ZenonT(30)
<1>5. s \in SessionType
  BY <1>2, <1>3 DEF SessionType
<1>6. s.sent > 0 => Offset(s.block, s.sent) <= Size(s.kind)
  <2>1. b \in Nat \ {0} /\ Size(f.kind) \in Nat
    BY <1>3, DeploymentFacts, ZenonT(30) DEF WireInv, TypeOK
  <2>2. Offset(b, 1) = 0
    BY <2>1, Blocks, ZenonT(30)
  <2> QED
    BY <2>1, <2>2
<1>7. server'[p] = s /\ \A q \in Sessions \ {p} : server'[q] = server[q]
  BY <1>2, <1>4
<1>8. Opens(f, p, s)
  BY <1>2, <1>3, <1>4, ZenonT(30) DEF Opens
<1>9. Serves(f, p, s)
  BY <1>4, <1>5, <1>6, <1>7, <1>8, ZenonT(30) DEF Serves
<1> QED
  BY <1>5, <1>9, ZenonT(30) DEF ServerMoves

\* An acknowledgement moves a transfer on.
LEMMA NextServes ==
    ASSUME WireInv, NEW f \in net, ServerNext(f)
    PROVE  ServerMoves
<1> DEFINE p == f.port
<1> DEFINE s == [server[p] EXCEPT !.sent = @ + 1]
<1>1. /\ f.type = "ack" /\ p \in Sessions /\ f.block = BlockNumber(server[p].sent)
      /\ server[p].sent > 0 => ~IsLast(server[p], server[p].sent)
      /\ server' = [server EXCEPT ![p] = s]
      /\ net' = Remaining(f) \cup {LastPacket(p, s)} /\ disturbed' = disturbed
  BY ZenonT(30) DEF ServerNext
<1>2. /\ server[p].kind \in Kinds /\ server[p].block \in deployment.offers
      /\ server[p].block \in Nat \ {0} /\ server[p].sent \in 0 .. LastBlock
      /\ server[p].sent \in Nat /\ Size(server[p].kind) \in Nat
      /\ p \in 1 .. MaxSessions
  BY <1>1, SessionFacts, ZenonT(30)
<1>3. LastBlock \in Nat /\ server[p] \in SessionType
  BY <1>1, DeploymentAssumption, ZenonT(30) DEF WireInv, ServerInv, SessionType
<1>4. IsAck(f)
  BY <1>1, FrameOrigin, ZenonT(30)
<1>5. BlockNumber(server[p].sent) = server[p].sent
  BY <1>2, <1>3 DEF BlockNumber, Max16
<1>6. server[p].sent \in 0 .. LastBlock - 1 /\ f = Ack(p, server[p].sent)
  BY <1>1, <1>4, <1>5, ZenonT(30) DEF IsAck
<1>7. server[p].sent + 1 \in 0 .. LastBlock
  BY <1>3, <1>6
<1>8. /\ s \in SessionType /\ s.sent = server[p].sent + 1 /\ s.kind = server[p].kind
      /\ s.block = server[p].block
  BY <1>3, <1>7, ZenonT(30) DEF SessionType
<1>9. Offset(s.block, s.sent) <= Size(s.kind)
  <2>1. CASE server[p].sent = 0
    BY <1>2, <1>8, <2>1, Blocks
  <2>2. CASE server[p].sent # 0
    <3>1. Offset(s.block, s.sent) = server[p].sent * server[p].block
      BY <1>2, <1>8, <2>2, Blocks, ZenonT(30)
    <3>2. ~(Size(server[p].kind) < server[p].sent * server[p].block)
      BY <1>1, <1>2, <2>2 DEF IsLast, Size
    <3>3. server[p].sent * server[p].block \in Nat
      BY <1>2, SMT
    <3> QED
      BY <1>2, <1>8, <3>1, <3>2, <3>3
  <2> QED
    BY <2>1, <2>2, ZenonT(30)
<1>10. /\ server'[p] = s /\ DOMAIN server' = Sessions
       /\ \A q \in Sessions \ {p} : server'[q] = server[q]
  BY <1>1, ZenonT(30) DEF Sessions
<1>11. Continues(f, p, s)
  BY <1>1, <1>6, <1>9, <1>10 DEF Continues
<1>12. Serves(f, p, s)
  BY <1>1, <1>2, <1>8, <1>9, <1>10, <1>11, ZenonT(30) DEF Serves
<1> QED
  BY <1>2, <1>8, <1>12, ZenonT(30) DEF ServerMoves

\* Every step of the server is one of these.
LEMMA ServerMovesAll ==
    ASSUME WireInv, Server
    PROVE  ServerMoves /\ UNCHANGED <<deployment, client, staging, receipt>>
<1>1. UNCHANGED <<deployment, client, staging, receipt>>
  BY ZenonT(30) DEF Server, ServerArp, ServerStart, ServerRefuse, ServerNext
<1> QED
  BY <1>1, StartServes, NextServes, ZenonT(30) DEF Server, ServerMoves

\* A packet of the server is a frame.
LEMMA PacketIsTyped ==
    ASSUME WireInv, NEW p \in 1 .. MaxSessions, NEW s \in SessionType,
           s.sent > 0 => Offset(s.block, s.sent) <= Size(s.kind)
    PROVE  LastPacket(p, s) \in FrameType
<1>1. /\ s.kind \in Kinds /\ s.block \in Nat \ {0} /\ s.sent \in 0 .. LastBlock
      /\ Size(s.kind) \in Nat /\ LastBlock \in Nat
  BY DeploymentFacts, ZenonT(30) DEF WireInv, TypeOK, SessionType
<1>2. CASE s.sent = 0
  BY <1>1, <1>2, ZenonT(30) DEF LastPacket, Oack, FrameType
<1>3. CASE s.sent # 0
  <2> DEFINE f == ServerData(p, s, s.sent)
  <2>1. s.sent \in Nat \ {0} /\ s.sent \in 1 .. LastBlock
    BY <1>1, <1>3
  <2>6. Offset(s.block, s.sent) \in Nat
    BY <1>1, <2>1, Blocks, ZenonT(30)
  <2>2. Offset(s.block, s.sent) \in Nat /\ Offset(s.block, s.sent) <= Size(s.kind)
    BY <2>1, <2>6
  <2>3. Left(s, s.sent) \in Nat /\ Length(s, s.sent) \in Nat
    BY <1>1, <2>2 DEF Left, Length
  <2>4. f = [type |-> "data", port |-> p, kind |-> s.kind, block |-> s.sent,
             object |-> s.kind, first |-> Offset(s.block, s.sent) + 1,
             size |-> Length(s, s.sent)]
    BY <1>1, <2>1 DEF ServerData, Data, BlockNumber, Max16, Offset, Size, Left, Length
  <2>5. f \in FrameType
    BY <1>1, <2>1, <2>2, <2>3, <2>4 DEF FrameType
  <2> QED
    BY <1>3, <2>5, ZenonT(30) DEF LastPacket
<1> QED
  BY <1>2, <1>3, ZenonT(30)

\* The server's transfers go forward, and their packets stay what they are.
LEMMA ServerKeeps ==
    ASSUME WireInv, UNCHANGED <<deployment, client, staging, receipt>>,
           disturbed' \in BOOLEAN, ServerInv', Sessions \subseteq Sessions',
           \A p \in Sessions : /\ server'[p].kind = server[p].kind
                               /\ server'[p].block = server[p].block
                               /\ server'[p].sent >= server[p].sent,
           net' \subseteq FrameType,
           \A f \in net' : f \notin net => IsFrame(f)'
    PROVE  WireInv'
<1>1. TypeOK'
  <2>1. DOMAIN server' \subseteq 1 .. MaxSessions
    <3>1. PICK c \in 0 .. MaxSessions : Sessions' = 1 .. c
      BY ZenonT(30) DEF ServerInv
    <3>2. 1 .. c \subseteq 1 .. MaxSessions
      BY DeploymentAssumption
    <3> QED
      BY <3>1, <3>2, ZenonT(30) DEF Sessions
  <2>2. ASSUME NEW p \in Sessions'
        PROVE  server'[p] \in [kind : Kinds, block : Nat \ {0}, sent : Nat]
    <3>1. server'[p] \in [kind : Kinds, block : deployment.offers, sent : 0 .. LastBlock]
      BY ZenonT(30) DEF ServerInv
    <3>2. deployment.offers \subseteq Nat \ {0} /\ 0 .. LastBlock \subseteq Nat
      BY DeploymentFacts DEF WireInv, TypeOK
    <3> QED
      BY <3>1, <3>2, ZenonT(30)
  <2> QED
    BY <2>1, <2>2, ZenonT(30) DEF WireInv, TypeOK
<1>2. GuardInv'
  BY ZenonT(30) DEF WireInv, GuardInv
<1>3. ASSUME NEW f \in net' PROVE IsFrame(f)'
  <2>1. CASE f \notin net
    BY <2>1, ZenonT(30)
  <2>2. CASE f \in net /\ ~(IsAck(f) \/ IsOack(f) \/ IsData(f))
    BY <2>2, ZenonT(30) DEF WireInv, NetInv, IsFrame
  <2>3. CASE IsAck(f) \/ IsOack(f)
    BY <2>3, ZenonT(30) DEF IsFrame, IsAck, IsOack, Oack
  <2>4. CASE IsData(f)
    <3>1. f.type = "data" /\ f.port \in Sessions
      BY <2>4, ZenonT(30) DEF IsData
    <3>2. PICK n \in 1 .. server[f.port].sent : f = ServerData(f.port, server[f.port], n)
      BY <2>4, ZenonT(30) DEF IsData
    <3>3. server[f.port].sent \in Nat /\ server'[f.port].sent \in Nat
      <4>1. f.port \in Sessions'
        BY <3>1, ZenonT(30)
      <4>2. server'[f.port].sent \in 0 .. LastBlock
        BY <4>1, ZenonT(30) DEF ServerInv
      <4>3. LastBlock \in Nat
        BY DeploymentAssumption, ZenonT(30)
      <4> QED
        BY <3>1, <4>2, <4>3, SessionFacts
    <3>4. n \in 1 .. server'[f.port].sent
      BY <3>1, <3>2, <3>3
    <3>5. ServerData(f.port, server[f.port], n) = ServerData(f.port, server[f.port], n)'
      BY <3>1, ZenonT(30) DEF ServerData
    <3>6. IsData(f)'
      BY <3>1, <3>2, <3>4, <3>5, ZenonT(30) DEF IsData
    <3> QED
      BY <3>6, ZenonT(30) DEF IsFrame
  <2> QED
    BY <2>1, <2>2, <2>3, <2>4, ZenonT(30)
<1>4. (IsRequest(client.frame) \/ IsAck(client.frame))'
  BY ZenonT(30) DEF WireInv, NetInv, IsAck
<1> QED
  BY <1>1, <1>2, <1>3, <1>4, ZenonT(30) DEF WireInv, NetInv

\* A packet sent by the server.
LEMMA ServesWire ==
    ASSUME WireInv, UNCHANGED <<deployment, client, staging, receipt>>,
           NEW f, NEW p, NEW s, Serves(f, p, s)
    PROVE  WireInv' /\ Sessions \subseteq Sessions' /\ p \in Sessions'
<1>1. /\ p \in 1 .. MaxSessions /\ s \in SessionType /\ MaxSessions \in Nat /\ p \in Nat
      /\ server'[p] = s /\ \A q \in Sessions \ {p} : server'[q] = server[q]
      /\ s.sent > 0 => Offset(s.block, s.sent) <= Size(s.kind)
      /\ net' = Remaining(f) \cup {LastPacket(p, s)}
  BY DeploymentAssumption DEF Serves
<1>2. disturbed' \in BOOLEAN
  BY ZenonT(30) DEF Serves, Opens, Continues, WireInv, TypeOK
<1>3. Sessions \subseteq Sessions' /\ p \in Sessions' /\ \A q \in Sessions' : q = p \/ q \in Sessions
  BY <1>1 DEF Serves, Opens, Continues, Sessions
<1>4. \E c \in 0 .. MaxSessions : Sessions' = 1 .. c
  <2>1. CASE Opens(f, p, s)
    BY <1>1, <2>1 DEF Opens, Sessions
  <2>2. CASE Continues(f, p, s)
    BY <2>2, ZenonT(30) DEF Continues, Sessions, WireInv, ServerInv
  <2> QED
    BY <2>1, <2>2, ZenonT(30) DEF Serves
<1>5. ASSUME NEW q \in Sessions
      PROVE  /\ server'[q].kind = server[q].kind /\ server'[q].block = server[q].block
             /\ server'[q].sent >= server[q].sent
  <2>1. server[q].sent \in Nat
    BY SessionFacts, ZenonT(30)
  <2>2. CASE q # p
    BY <1>1, <2>1, <2>2
  <2>3. CASE q = p /\ Continues(f, p, s)
    <3>1. server[p] \in SessionType /\ s = [server[p] EXCEPT !.sent = @ + 1]
      BY <1>5, <2>3, ZenonT(30) DEF Continues, WireInv, ServerInv, SessionType
    <3> QED
      BY <1>1, <2>1, <2>3, <3>1 DEF SessionType
  <2>4. CASE q = p /\ Opens(f, p, s)
    BY <1>1, <1>5, <2>4 DEF Opens
  <2> QED
    BY <2>2, <2>3, <2>4, ZenonT(30) DEF Serves
<1>6. ServerInv'
  <2>1. ASSUME NEW q \in Sessions'
        PROVE  /\ server'[q] \in SessionType
               /\ server'[q].sent = 0 => deployment.negotiates
               /\ server'[q].sent > 0 =>
                     Offset(server'[q].block, server'[q].sent) <= Size(server'[q].kind)
    <3>1. CASE q # p
      BY <1>1, <1>3, <2>1, <3>1, ZenonT(30) DEF WireInv, ServerInv, SessionType
    <3>2. CASE q = p
      <4>1. s.sent = 0 => deployment.negotiates
        <5>1. CASE Opens(f, p, s)
          BY <5>1 DEF Opens
        <5>2. CASE Continues(f, p, s)
          <6>1. server[p] \in SessionType /\ s = [server[p] EXCEPT !.sent = @ + 1]
                /\ server[p].sent \in Nat
            BY <5>2, SessionFacts, ZenonT(30) DEF Continues, WireInv, ServerInv, SessionType
          <6> QED
            BY <6>1 DEF SessionType
        <5> QED
          BY <5>1, <5>2, ZenonT(30) DEF Serves
      <4> QED
        BY <1>1, <3>2, <4>1, ZenonT(30)
    <3> QED
      BY <3>1, <3>2, ZenonT(30)
  <2> QED
    BY <1>4, <2>1, ZenonT(30) DEF ServerInv, SessionType, Offset, Size
<1>7. LastPacket(p, s) \in FrameType /\ net \subseteq FrameType
  BY <1>1, PacketIsTyped, ZenonT(30) DEF WireInv, TypeOK
<1>8. ASSUME NEW g, g = LastPacket(p, s) PROVE IsFrame(g)'
  <2>0. s.sent \in 0 .. LastBlock /\ LastBlock \in Nat
    BY <1>1, DeploymentAssumption, ZenonT(30) DEF SessionType
  <2>1. CASE s.sent = 0
    <3>1. g = Oack(p, s.kind, s.block)
      BY <1>8, <2>1, ZenonT(30) DEF LastPacket
    <3>2. IsOack(g)'
      BY <1>1, <1>3, <3>1, ZenonT(30) DEF IsOack, Oack
    <3> QED
      BY <3>2, ZenonT(30) DEF IsFrame
  <2>2. CASE s.sent # 0
    <3>1. s.sent \in 1 .. s.sent /\ g = ServerData(p, s, s.sent)
      BY <1>8, <2>0, <2>2 DEF LastPacket
    <3>2. g.type = "data" /\ g.port = p
      BY <3>1, ZenonT(30) DEF ServerData, Data
    <3>3. ServerData(p, s, s.sent) = ServerData(p, s, s.sent)'
      BY ZenonT(30) DEF ServerData
    <3>4. IsData(g)'
      BY <1>1, <1>3, <3>1, <3>2, <3>3, ZenonT(30) DEF IsData
    <3> QED
      BY <3>4, ZenonT(30) DEF IsFrame
  <2> QED
    BY <2>1, <2>2, ZenonT(30)
<1>9. \A g \in net' : g \in net \/ g = LastPacket(p, s)
  BY <1>1, ZenonT(30) DEF Remaining
<1>10. net' \subseteq FrameType
  BY <1>7, <1>9, ZenonT(30)
<1>11. \A g \in net' : g \notin net => IsFrame(g)'
  BY <1>8, <1>9, ZenonT(30)
<1> QED
  BY <1>2, <1>3, <1>5, <1>6, <1>7, <1>10, <1>11, ServerKeeps, ZenonT(30)

LEMMA ServerWire ==
    ASSUME WireInv, UNCHANGED <<deployment, client, staging, receipt>>, ServerMoves
    PROVE  WireInv'
<1>1. /\ ServerInv /\ net \subseteq FrameType /\ disturbed \in BOOLEAN
      /\ \A p \in Sessions : server[p].sent \in Nat
  BY SessionFacts, ZenonT(30) DEF WireInv, TypeOK
<1>2. ASSUME server' = server, disturbed' \in BOOLEAN, NEW g, g \in FrameType, IsFrame(g)',
             \A f \in net' : f \in net \/ f = g
      PROVE  WireInv'
  <2>1. ServerInv' /\ Sessions' = Sessions
    BY <1>1, <1>2, ZenonT(30) DEF ServerInv, Sessions, Offset, Size
  <2>2. \A p \in Sessions : /\ server'[p].kind = server[p].kind
                            /\ server'[p].block = server[p].block
                            /\ server'[p].sent >= server[p].sent
    BY <1>1, <1>2
  <2> QED
    BY <1>1, <1>2, <2>1, <2>2, ServerKeeps, ZenonT(30)
<1>3. CASE ServerArp
  <2>1. ArpReply \in FrameType /\ IsFrame(ArpReply)'
    BY ZenonT(30) DEF FrameType, IsFrame
  <2> QED
    BY <1>1, <1>2, <1>3, <2>1, ZenonT(30) DEF ServerArp, Remaining
<1>4. ASSUME NEW f \in net, ServerRefuse(f) PROVE WireInv'
  <2>1. f.kind \in Kinds
    BY <1>4, FrameOrigin, ZenonT(30) DEF ServerRefuse
  <2>2. Refusal(MaxSessions + 1, f.kind) \in FrameType
    BY <2>1, ZenonT(30) DEF FrameType, Refusal
  <2>3. IsFrame(Refusal(MaxSessions + 1, f.kind))'
    BY <2>1, ZenonT(30) DEF IsFrame
  <2> QED
    BY <1>1, <1>2, <1>4, <2>2, <2>3, ZenonT(30) DEF ServerRefuse, Remaining
<1> QED
  BY <1>3, <1>4, ServesWire, ZenonT(30) DEF ServerMoves

-----------------------------------------------------------------------------
(* The buffers outside an attempt.                                         *)

LEMMA BufferMoves ==
    ASSUME WireInv, BufferInv, UNCHANGED deployment, Moves
    PROVE  BufferInv'
<1>1. /\ TypeOK /\ client \in ClientType /\ client.kind \in Kinds
      /\ staging \in [Kinds -> [1 .. MaxBytes -> Bytes]]
      /\ receipt \in [Kinds -> [status : Statuses, bytes : 0 .. MaxBytes]]
  BY ZenonT(30) DEF WireInv, TypeOK, ClientType
<1>2. /\ deployment.maximum \in 1 .. MaxBytes /\ MaxBytes \in Nat /\ ObjectCount \in Nat
      /\ \A k \in Kinds : Size(k) \in Nat /\ k \in Nat
  BY <1>1, DeploymentFacts DEF TypeOK, Kinds
<1>3. ASSUME UNCHANGED <<staging, receipt>>, client'.kind = client.kind,
             client.pc # "done", client'.pc \notin {"idle", "done"}
      PROVE  BufferInv'
  BY <1>3, ZenonT(30) DEF BufferInv
<1>4. ASSUME \A k \in Kinds \ {client.kind} : staging'[k] = staging[k] /\ receipt'[k] = receipt[k],
             staging'[client.kind] = ZeroBuffer, client'.kind = client.kind,
             client.pc # "done", client'.pc # "idle",
             client'.pc # "done" => receipt' = receipt
      PROVE  BufferInv'
  <2>1. ASSUME NEW k \in Kinds, NEW i \in 1 .. MaxBytes, i > deployment.maximum
        PROVE  staging'[k][i] = Zero
    <3>1. CASE k = client.kind
      BY <1>4, <3>1, ZenonT(30) DEF ZeroBuffer
    <3>2. CASE k # client.kind
      BY <1>2, <1>4, <2>1, <3>2, ZenonT(30) DEF BufferInv
    <3> QED
      BY <3>1, <3>2, ZenonT(30)
  <2>2. \A k \in Kinds : k # client.kind => k \in Kinds \ {client.kind}
    BY ZenonT(30)
  <2>3. \A k \in Kinds : k > client'.kind => receipt'[k] = NoReceipt /\ staging'[k] = ZeroBuffer
    BY <1>1, <1>2, <1>4 DEF BufferInv
  <2>4. \A k \in Kinds : k < client'.kind => receipt'[k].status = "ok"
    BY <1>1, <1>2, <1>4 DEF BufferInv
  <2> QED
    BY <1>4, <2>1, <2>3, <2>4, ZenonT(30) DEF BufferInv
<1>5. ASSUME NEW bytes \in 0 .. MaxBytes, Return("ok", bytes), client.pc # "done",
             \A k \in Kinds \ {client.kind} : staging'[k] = staging[k],
             \A i \in 1 .. MaxBytes : i > deployment.maximum => staging'[client.kind][i] = Zero
      PROVE  BufferInv'
  <2>0. "ok" \in Statuses
    BY ZenonT(30) DEF Statuses
  <2>7. /\ receipt'[client.kind] = [status |-> "ok", bytes |-> bytes]
        /\ \A k \in Kinds \ {client.kind} : receipt'[k] = receipt[k]
        /\ \/ client'.pc = "done" /\ client'.kind = client.kind
           \/ /\ client'.pc = "idle" /\ client.kind < ObjectCount
              /\ client'.kind = client.kind + 1
    BY <1>1, <1>5, <2>0, ReturnFields, ZenonT(30)
  <2>1. /\ receipt'[client.kind].status = "ok"
        /\ \A k \in Kinds \ {client.kind} : receipt'[k] = receipt[k]
        /\ \/ client'.pc = "done" /\ client'.kind = client.kind
           \/ /\ client'.pc = "idle" /\ client.kind < ObjectCount
              /\ client'.kind = client.kind + 1
    BY <2>7
  <2>2. ASSUME NEW k \in Kinds, NEW i \in 1 .. MaxBytes, i > deployment.maximum
        PROVE  staging'[k][i] = Zero
    BY <1>5, <2>2, ZenonT(30) DEF BufferInv
  <2>3. \A k \in Kinds : k > client.kind =>
           receipt'[k] = NoReceipt /\ staging'[k] = ZeroBuffer
    BY <1>1, <1>2, <1>5, <2>1 DEF BufferInv
  <2>4. ASSUME NEW k \in Kinds, k <= client.kind PROVE receipt'[k].status = "ok"
    <3>1. CASE k = client.kind
      BY <2>1, <3>1, ZenonT(30)
    <3>2. CASE k # client.kind
      <4>1. k < client.kind
        BY <1>1, <1>2, <2>4, <3>2
      <4> QED
        BY <2>1, <3>2, <4>1, ZenonT(30) DEF BufferInv
    <3> QED
      BY <3>1, <3>2, ZenonT(30)
  <2>5. CASE client'.pc = "done" /\ client'.kind = client.kind
    BY <1>1, <1>2, <2>1, <2>2, <2>3, <2>4, <2>5, ZenonT(30) DEF BufferInv
  <2>6. CASE client'.pc = "idle" /\ client.kind < ObjectCount /\ client'.kind = client.kind + 1
    <3>1. client'.kind \in Kinds /\ client'.kind > client.kind
      <4>1. \A c \in Kinds : c < ObjectCount => c + 1 \in Kinds /\ c + 1 > c
        BY DeploymentAssumption DEF Kinds
      <4> QED
        BY <1>1, <2>6, <4>1, ZenonT(30)
    <3>2. \A k \in Kinds : k > client'.kind => k > client.kind
      BY <1>1, <1>2, <2>6
    <3>3. \A k \in Kinds : k < client'.kind => k <= client.kind
      BY <1>1, <1>2, <2>6
    <3> QED
      BY <2>2, <2>3, <2>4, <2>6, <3>1, <3>2, <3>3, ZenonT(30) DEF BufferInv
  <2> QED
    BY <2>1, <2>5, <2>6, ZenonT(30)
<1>6. CASE Waits
  BY <1>1, <1>3, <1>6, ZenonT(30) DEF Waits, Active, ClientType
<1>7. CASE Drops
  <2>1. PICK status \in Errors : AttemptFails(status)
    BY <1>7, ZenonT(30) DEF Drops
  <2>2. /\ client'.kind = client.kind /\ staging'[client.kind] = ZeroBuffer
        /\ \A k \in Kinds \ {client.kind} : staging'[k] = staging[k] /\ receipt'[k] = receipt[k]
        /\ \/ receipt' = receipt /\ client' = BeginAttempt(client, client.attempt + 1)
           \/ client'.pc = "done"
    BY <1>1, <2>1, FailFields, ZenonT(30)
  <2>3. client.attempt + 1 \in Nat
    BY <1>1 DEF ClientType
  <2>4. client'.pc # "idle" /\ (client'.pc # "done" => receipt' = receipt)
    BY <1>1, <2>2, <2>3, StartFields, ZenonT(30)
  <2> QED
    BY <1>4, <1>7, <2>2, <2>4, ZenonT(30) DEF Drops
<1>8. CASE Starts
  <2>1. /\ client' = BeginAttempt(client, 0) /\ receipt' = receipt /\ client.pc = "idle"
        /\ staging' = [staging EXCEPT ![client.kind] = Wiped(@)]
    BY <1>8, ZenonT(30) DEF Starts
  <2>2. client'.kind = client.kind /\ client'.pc # "idle"
    BY <1>1, <2>1, StartFields, ZenonT(30)
  <2> QED
    BY <1>1, <1>4, <2>1, <2>2, WipeFacts, ZenonT(30)
<1>9. CASE TooSmall
  <2>1. "capacity" \in Statuses /\ 0 \in 0 .. MaxBytes /\ Return("capacity", 0)
        /\ client.pc = "idle" /\ staging' = staging
    BY <1>2, <1>9 DEF Statuses, TooSmall
  <2>2. /\ client'.pc = "done" /\ client'.kind = client.kind
        /\ \A k \in Kinds \ {client.kind} : receipt'[k] = receipt[k]
    BY <1>1, <2>1, ReturnFields, ZenonT(30)
  <2>3. staging[client.kind] = ZeroBuffer
    BY <2>1, ZenonT(30) DEF BufferInv
  <2> QED
    BY <1>4, <2>1, <2>2, <2>3, ZenonT(30)
<1>10. CASE Sends \/ GoesOn \/ HearsArp \/ Probes
  BY <1>1, <1>3, <1>10, ZenonT(30) DEF Sends, GoesOn, HearsArp, Probes, ClientType
<1>11. CASE Succeeds
  <2>1. client.guard.received \in 0 .. MaxBytes
    BY <1>1, ZenonT(30) DEF ClientType, GuardType
  <2> QED
    BY <1>1, <1>5, <1>11, <2>1, ZenonT(30) DEF Succeeds, BufferInv
<1>12. CASE Reads
  <2>1. /\ Size(client.kind) \in 1 .. deployment.maximum /\ client.pc = "read"
        /\ staging' = [staging EXCEPT ![client.kind] = Whole(client.kind)]
        /\ Return("ok", Size(client.kind))
    BY <1>12, ZenonT(30) DEF Reads
  <2>2. Size(client.kind) \in 0 .. MaxBytes
    BY <1>2, <2>1
  <2>3. \A i \in 1 .. MaxBytes : i > deployment.maximum => Whole(client.kind)[i] = Zero
    BY <1>2, <2>1 DEF Whole, Size
  <2> QED
    BY <1>1, <1>5, <2>1, <2>2, <2>3, ZenonT(30)
<1>13. ASSUME NEW f \in net, Takes(f) PROVE BufferInv'
  <2>1. client.pc = "receive" /\ client'.kind = client.kind /\ client'.pc = "transmit"
    BY <1>1, <1>13, ZenonT(30) DEF Takes, Repeats, TakesOack, TakesData, Acknowledges, ClientType
  <2>2. CASE Repeats(f) \/ TakesOack(f)
    BY <1>3, <2>1, <2>2, ZenonT(30) DEF Repeats, TakesOack
  <2>3. CASE TakesData(f)
    <3>1. /\ staging' = [staging EXCEPT ![client.kind] = Store(@, client.guard.received, f)]
          /\ receipt' = receipt /\ f.size <= deployment.maximum - client.guard.received
          /\ f.type = "data"
      BY <2>3, ZenonT(30) DEF TakesData, Fits
    <3>2. client.guard.received \in Nat /\ f.size \in Nat
      BY <1>1, <3>1, PacketTypes DEF ClientType, GuardType
    <3>3. \A i \in 1 .. MaxBytes : i > deployment.maximum =>
             Store(staging[client.kind], client.guard.received, f)[i] = staging[client.kind][i]
      BY <1>2, <3>1, <3>2 DEF Store
    <3>4. ASSUME NEW k \in Kinds, NEW i \in 1 .. MaxBytes, i > deployment.maximum
          PROVE  staging'[k][i] = Zero
      BY <1>1, <3>1, <3>3, <3>4, ZenonT(30) DEF BufferInv
    <3>5. \A k \in Kinds : k > client.kind => staging'[k] = staging[k]
      BY <1>1, <1>2, <3>1
    <3> QED
      BY <2>1, <3>1, <3>4, <3>5, ZenonT(30) DEF BufferInv
  <2> QED
    BY <1>13, <2>2, <2>3, ZenonT(30) DEF Takes
<1> QED
  BY <1>6, <1>7, <1>8, <1>9, <1>10, <1>11, <1>12, <1>13, ZenonT(30) DEF Moves

-----------------------------------------------------------------------------
(* The wire and the buffers.                                               *)

LEMMA WireInitHolds == Init => WireInv /\ BufferInv
<1> SUFFICES ASSUME Init PROVE WireInv /\ BufferInv
  BY ZenonT(30)
<1> USE DEF Init
<1>1. /\ deployment.block \in Nat \ {0} /\ deployment.maximum \in 1 .. MaxBytes
      /\ LastBlock \in Nat /\ LastBlock > 1 /\ MaxBytes \in Nat /\ MaxSessions \in Nat
      /\ ObjectCount \in Nat \ {0} /\ deployment.reliable \in BOOLEAN
  BY DeploymentFacts, ZenonT(30)
<1>2. 1 \in Kinds
  BY <1>1 DEF Kinds
<1>3. FreshGuard(deployment.block) \in GuardType /\ ArpRequest \in FrameType
  BY <1>1 DEF FreshGuard, GuardType, FrameType
<1>4. client \in ClientType
  BY <1>1, <1>2, <1>3 DEF ClientType
<1>5. ZeroBuffer \in [1 .. MaxBytes -> Bytes] /\ NoReceipt \in [status : Statuses, bytes : 0 .. MaxBytes]
  BY <1>1 DEF ZeroBuffer, Bytes, NoReceipt, Statuses
<1>6. Sessions = {} /\ client.pc = "idle" /\ client.kind = 1
  BY ZenonT(30) DEF Sessions
<1>7. TypeOK
  BY <1>1, <1>4, <1>5, <1>6, ZenonT(30) DEF TypeOK, Sessions
<1>8. ServerInv
  <2>1. 0 \in 0 .. MaxSessions /\ 1 .. 0 = {}
    BY <1>1
  <2> QED
    BY <1>6, <2>1, ZenonT(30) DEF ServerInv
<1>9. NetInv
  BY ZenonT(30) DEF NetInv, IsRequest
<1>10. GuardInv
  BY <1>1 DEF GuardInv, FreshGuard
<1>11. BufferInv
  <2>1. \A k \in Kinds : ~(k < 1)
    BY DEF Kinds
  <2> QED
    BY <1>2, <1>6, <2>1, ZenonT(30) DEF BufferInv, ZeroBuffer, NoReceipt
<1> QED
  BY <1>7, <1>8, <1>9, <1>10, <1>11, ZenonT(30) DEF WireInv

LEMMA WireNextHolds ==
    ASSUME WireInv, BufferInv, [Next]_vars PROVE WireInv' /\ BufferInv'
<1>1. CASE Client
  <2>1. Moves /\ UNCHANGED <<deployment, server>>
    BY <1>1, ClientMoves, ZenonT(30)
  <2> QED
    BY <2>1, MovesWire, BufferMoves, ZenonT(30)
<1>2. CASE Server
  <2>1. ServerMoves /\ UNCHANGED <<deployment, client, staging, receipt>>
    BY <1>2, ServerMovesAll, ZenonT(30)
  <2>2. BufferInv'
    BY <2>1, ZenonT(30) DEF BufferInv
  <2> QED
    BY <2>1, <2>2, ServerWire, ZenonT(30)
<1>3. CASE UNCHANGED vars
  <2>1. WireInv'
    BY <1>3, ZenonT(30) DEF vars, WireInv, TypeOK, ServerInv, NetInv, GuardInv, Sessions, IsFrame,
               IsAck, IsOack, IsData, ServerData, Offset, Size
  <2>2. BufferInv'
    BY <1>3, ZenonT(30) DEF vars, BufferInv
  <2> QED
    BY <2>1, <2>2, ZenonT(30)
<1> QED
  BY <1>1, <1>2, <1>3, ZenonT(30) DEF Next, Done

LEMMA WireInvariant == Spec => [](WireInv /\ BufferInv)
  BY WireInitHolds, WireNextHolds, PTL DEF Spec

\* The locals of fetch, snp_fetch_once and the guard, the buffers, the receipts
\* and the frames keep their types: no block number, byte count or port leaves
\* the range of its C type.
THEOREM FetchTypes == Spec => []TypeOK
<1>1. WireInv => TypeOK
  BY ZenonT(30) DEF WireInv
<1> QED
  BY <1>1, WireInvariant, PTL

\* ribon_recovery_network_fetch leaves the staging buffer zero when it returns
\* an error, whatever its attempts stored there.
THEOREM FailedFetchIsWiped == Spec => []WipedOnFailure
<1>1. WireInv /\ BufferInv => WipedOnFailure
  <2> SUFFICES ASSUME WireInv, BufferInv, NEW k \in Kinds, receipt[k].status # "ok",
                      client.pc \in {"idle", "done"}
               PROVE  staging[k] = ZeroBuffer
    BY ZenonT(30) DEF WipedOnFailure
  <2>1. BufferInv /\ client.kind \in Nat /\ k \in Nat
    BY DeploymentAssumption DEF WireInv, TypeOK, ClientType, Kinds
  <2>2. CASE k < client.kind
    BY <2>1, <2>2, ZenonT(30) DEF BufferInv
  <2>3. CASE k = client.kind
    BY <2>1, <2>3, ZenonT(30) DEF BufferInv
  <2>4. CASE k > client.kind
    BY <2>1, <2>4, ZenonT(30) DEF BufferInv
  <2> QED
    BY <2>1, <2>2, <2>3, <2>4
<1> QED
  BY <1>1, WireInvariant, PTL

-----------------------------------------------------------------------------
(* What an attempt has stored.                                             *)

\* The block size that the guard starts with is the one that a server uses
\* whose first packet is DATA: no server chooses another one, or it chooses in
\* an OACK that no DATA of an earlier attempt can overtake.
SizesAgree ==
    \/ deployment.backend = "pxe"
    \/ deployment.offers = {deployment.block}
    \/ deployment.negotiates /\ deployment.retries = 0

\* The client is locked to a transfer of its object and knows its block size.
Locked ==
    /\ client.port \in Sessions
    /\ server[client.port].kind = client.kind
    /\ client.guard.block = server[client.port].block

ProgressInv ==
    Active =>
        /\ IF client.guard.options
           THEN Locked
           ELSE client.guard.expected = 1 /\ client.guard.block = deployment.block
                /\ ~client.guard.complete /\ client.frame.type # "ack"
        /\ client.guard.received =
              IF client.guard.complete THEN Size(client.kind)
              ELSE Offset(client.guard.block, client.guard.expected)
        /\ client.guard.received <= Size(client.kind)
        /\ staging[client.kind] = Prefix(client.kind, client.guard.received)
        /\ client.then = "finish" => client.guard.complete
        /\ client.frame.type = "ack" => client.frame.port = client.port

\* With one attempt for an object, only the transfer that the client is locked
\* to gets an acknowledgement and sends DATA.
Answered(p) == server[p].sent > 0 \/ \E f \in net : f.type = "ack" /\ f.port = p

OneAttemptInv ==
    deployment.negotiates /\ deployment.retries = 0 /\ deployment.backend = "snp" =>
        \A p \in Sessions :
            Answered(p) /\ server[p].kind = client.kind /\ Active =>
                client.guard.options /\ client.port = p

\* No object is requested before its fetch.
Behind(k) == k < client.kind \/ (k = client.kind /\ client.pc # "idle")

RequestInv ==
    /\ \A f \in net : f.type = "rrq" => Behind(f.kind)
    /\ \A p \in Sessions : Behind(server[p].kind)
    /\ Active /\ client.frame.type = "rrq" => client.frame = Rrq(client.kind)

BackendInv ==
    /\ Active => deployment.backend = "snp"
    /\ client.pc \in {"probe", "read"} => deployment.backend = "pxe"

ExactInv == BackendInv /\ RequestInv /\ (SizesAgree => ExactReceipt /\ ProgressInv /\ OneAttemptInv)

-----------------------------------------------------------------------------
(* The turns of an undisturbed transfer.                                   *)

\* The client has not sent the request for its object.
Asking == client.frame = ArpRequest \/ (client.frame = Rrq(client.kind) /\ client.pc = "transmit")

\* The packets of transfer p that can be received.
Packets(p) == {f \in net : f.type \in {"oack", "data", "ack"} /\ f.port = p}

Fresh == client.port = 0 /\ client.guard = FreshGuard(deployment.block)

Listening == client.pc \in {"recycle", "receive"} /\ client.then = "receive"

\* The client has stored all blocks before the next one.
StoredBefore(p) ==
    /\ client.guard.block >= server[p].block
    /\ client.guard.expected > 1 => client.guard.block = server[p].block
    /\ client.guard.received = Offset(server[p].block, client.guard.expected)
    /\ client.guard.packets <= client.guard.expected
    /\ ~client.guard.complete

ServersTurn(p) ==
    /\ client.port = p
    /\ client.guard.expected = server[p].sent + 1
    /\ client.guard.options
    /\ client.then = "receive"
    /\ \/ client.pc = "transmit" /\ client.frame = Ack(p, server[p].sent) /\ Packets(p) = {}
       \/ client.pc \in {"recycle", "receive"} /\ Packets(p) = {Ack(p, server[p].sent)}

ClientsTurn(p) ==
    /\ Listening
    /\ Packets(p) = {LastPacket(p, server[p])}
    /\ client.port \in {0, p}
    /\ IF server[p].sent = 0 THEN Fresh ELSE client.guard.expected = server[p].sent

Requested == \E f \in net : f.type = "rrq" /\ f.kind = client.kind
Transfers(k) == {p \in Sessions : server[p].kind = k}

\* The client is about to ask for its object, waits for a transfer to start,
\* takes turns with transfer p, or is done with it.
TurnToAsk ==
    /\ Asking /\ Fresh /\ ~Requested /\ Transfers(client.kind) = {}
    /\ client.then = IF client.frame = ArpRequest THEN "arp" ELSE "receive"
TurnToWait == ~Asking /\ Fresh /\ Listening /\ Requested /\ Transfers(client.kind) = {}
TurnWith(p) ==
    /\ ~Asking /\ ~Requested /\ Transfers(client.kind) = {p}
    /\ StoredBefore(p)
    /\ ServersTurn(p) \/ ClientsTurn(p)
TurnToFinish ==
    /\ client.guard.complete /\ client.then = "finish"
    /\ client.pc \in {"transmit", "recycle"}
    /\ client.guard.received # 0

Turn == TurnToAsk \/ TurnToWait \/ (\E p \in Sessions : TurnWith(p)) \/ TurnToFinish

TurnInv ==
    ~disturbed =>
        /\ deployment.reliable
        /\ \A f \in net : f.type # "error"
        /\ \A k \in Kinds : receipt[k].status \notin {"none", "ok"} => ~Fetchable(k)
        /\ Active => deployment.maximum <= deployment.capacity
        /\ client.pc \in {"probe", "read"} => PxeHasTime
        /\ Active /\ Fetchable(client.kind) => Turn

-----------------------------------------------------------------------------
(* What a move does to an attempt.                                         *)

\* Moves that leave the attempt as it is.
Steady ==
    /\ Active /\ client'.pc \in {"transmit", "recycle", "arp", "receive"}
    /\ client'.kind = client.kind /\ client'.port = client.port
    /\ client'.guard = client.guard /\ client'.frame = client.frame
    /\ client'.then = client.then
    /\ UNCHANGED <<staging, receipt, disturbed>>

LEMMA SteadyMoves ==
    ASSUME WireInv, Waits \/ Sends \/ GoesOn
    PROVE  Steady
<1>1. client \in ClientType
  BY ZenonT(30) DEF WireInv, TypeOK
<1>2. CASE Waits
  BY <1>1, <1>2, ZenonT(30) DEF Waits, Steady, ClientType, Active
<1>3. CASE Sends
  BY <1>1, <1>3, ZenonT(30) DEF Sends, Steady, ClientType, Active
<1>4. CASE GoesOn
  <2>1. client.then \in {"arp", "receive"} /\ client.pc = "recycle"
    BY <1>1, <1>4, ZenonT(30) DEF GoesOn, ClientType
  <2> QED
    BY <1>1, <1>4, <2>1, ZenonT(30) DEF GoesOn, Steady, ClientType, Active
<1> QED
  BY <1>2, <1>3, <1>4, ZenonT(30)

\* Moves that start an attempt.
Begins ==
    /\ \E a \in Nat : client' = BeginAttempt(client, a)
    /\ client.pc # "done" /\ receipt' = receipt
    /\ staging'[client.kind] = ZeroBuffer
    /\ \A k \in Kinds \ {client.kind} : staging'[k] = staging[k]
    /\ net' \subseteq net

\* Moves that end a fetch.
Ends(status) ==
    /\ client.pc # "done"
    /\ receipt'[client.kind].status = status
    /\ \A k \in Kinds \ {client.kind} : receipt'[k] = receipt[k] /\ staging'[k] = staging[k]
    /\ \/ client'.pc = "done" /\ client'.kind = client.kind
       \/ /\ status = "ok" /\ client'.pc = "idle" /\ client'.kind = client.kind + 1
          /\ client.kind < ObjectCount
    /\ net' \subseteq net

LEMMA DropCases ==
    ASSUME WireInv, BufferInv, Drops
    PROVE  \/ Begins /\ client.attempt < deployment.retries /\ disturbed' = TRUE
           \/ \E status \in Errors : Ends(status) /\ (disturbed' = TRUE \/ Blamed)
<1>1. PICK status \in Errors :
         /\ AttemptFails(status)
         /\ \/ disturbed' = TRUE
            \/ disturbed' = disturbed /\ status \notin {"timeout", "io"} /\ Blamed
  BY ZenonT(30) DEF Drops
<1>2. client.pc # "done" /\ net' \subseteq net /\ client.attempt + 1 \in Nat
  BY DEF Drops, WireInv, TypeOK, ClientType
<1>3. /\ client'.kind = client.kind /\ staging'[client.kind] = ZeroBuffer
      /\ \A k \in Kinds \ {client.kind} : staging'[k] = staging[k] /\ receipt'[k] = receipt[k]
      /\ \/ /\ status \in {"timeout", "io"} /\ client.attempt < deployment.retries
            /\ receipt' = receipt
            /\ client' = BeginAttempt(client, client.attempt + 1)
         \/ client'.pc = "done" /\ receipt'[client.kind].status = status
  BY <1>1, FailFields, ZenonT(30) DEF WireInv
<1>4. CASE /\ status \in {"timeout", "io"} /\ client.attempt < deployment.retries
           /\ receipt' = receipt
           /\ client' = BeginAttempt(client, client.attempt + 1)
  BY <1>1, <1>2, <1>3, <1>4, ZenonT(30) DEF Begins
<1>5. CASE client'.pc = "done" /\ receipt'[client.kind].status = status
  BY <1>1, <1>2, <1>3, <1>5, ZenonT(30) DEF Ends
<1> QED
  BY <1>3, <1>4, <1>5, ZenonT(30)

LEMMA StartBegins ==
    ASSUME WireInv, BufferInv, Starts
    PROVE  Begins
<1>1. /\ staging'[client.kind] = ZeroBuffer
      /\ \A k \in Kinds \ {client.kind} : staging'[k] = staging[k]
  BY WipeFacts, ZenonT(30) DEF WireInv, Starts
<1> QED
  BY <1>1, ZenonT(30) DEF Starts, Begins

\* A fetch succeeds after the last acknowledgement, or with the whole object.
LEMMA SuccessEnds ==
    ASSUME WireInv, Succeeds \/ Reads
    PROVE  Ends("ok") /\ disturbed' = disturbed
<1>1. TypeOK /\ client.kind \in Kinds /\ "ok" \in Statuses
  BY ZenonT(30) DEF WireInv, TypeOK, ClientType, Statuses
<1>2. PICK bytes \in 0 .. MaxBytes : Return("ok", bytes)
  <2>1. client.guard.received \in 0 .. MaxBytes
    BY ZenonT(30) DEF WireInv, TypeOK, ClientType, GuardType
  <2>2. Reads => Size(client.kind) \in 0 .. MaxBytes
    BY DeploymentFacts DEF Reads, WireInv, TypeOK
  <2> QED
    BY <2>1, <2>2, ZenonT(30) DEF Succeeds, Reads
<1>3. /\ receipt'[client.kind] = [status |-> "ok", bytes |-> bytes]
      /\ \A k \in Kinds \ {client.kind} : receipt'[k] = receipt[k]
      /\ \/ client'.pc = "done" /\ client'.kind = client.kind
         \/ /\ client'.pc = "idle" /\ client.kind < ObjectCount
            /\ client'.kind = client.kind + 1
  BY <1>1, <1>2, ReturnFields, ZenonT(30)
<1>4. /\ \A k \in Kinds \ {client.kind} : staging'[k] = staging[k]
      /\ net' \subseteq net /\ disturbed' = disturbed /\ client.pc # "done"
  BY <1>1, ZenonT(30) DEF Succeeds, Reads, WireInv, TypeOK
<1> QED
  BY <1>3, <1>4 DEF Ends

LEMMA TooSmallEnds ==
    ASSUME WireInv, TooSmall
    PROVE  Ends("capacity") /\ disturbed' = disturbed
<1>1. TypeOK /\ "capacity" \in Statuses /\ 0 \in 0 .. MaxBytes
  BY DeploymentAssumption DEF WireInv, Statuses
<1>2. /\ receipt'[client.kind] = [status |-> "capacity", bytes |-> 0]
      /\ \A k \in Kinds \ {client.kind} : receipt'[k] = receipt[k]
      /\ client'.pc = "done" /\ client'.kind = client.kind
  BY <1>1, ReturnFields, ZenonT(30) DEF TooSmall
<1> QED
  BY <1>2 DEF TooSmall, Ends

\* Every move of the client, as the later invariants see it.
Effects ==
    \/ Waits \/ Sends \/ GoesOn \/ HearsArp \/ Probes \/ \E f \in net : Takes(f)
    \/ Begins /\ (Starts \/ (client.attempt < deployment.retries /\ disturbed' = TRUE))
    \/ Ends("ok") /\ (Succeeds \/ Reads)
    \/ \E status \in Errors : Ends(status) /\ (disturbed' = TRUE \/ Blamed \/ TooSmall)

LEMMA MoveEffects ==
    ASSUME WireInv, BufferInv, Moves
    PROVE  Effects
<1>1. "capacity" \in Errors
  BY ZenonT(30) DEF Errors, Statuses
<1>2. CASE Drops
  BY <1>2, DropCases, ZenonT(30) DEF Effects
<1>3. CASE Starts
  BY <1>3, StartBegins, ZenonT(30) DEF Effects
<1>4. CASE TooSmall
  BY <1>1, <1>4, TooSmallEnds, ZenonT(30) DEF Effects
<1>5. CASE Succeeds \/ Reads
  BY <1>5, SuccessEnds, ZenonT(30) DEF Effects
<1> QED
  BY <1>2, <1>3, <1>4, <1>5, ZenonT(30) DEF Moves, Effects

\* A packet that is taken is acknowledged.
LEMMA TakesFields ==
    ASSUME WireInv, NEW f \in net, Takes(f)
    PROVE  /\ client.pc = "receive" /\ client'.pc = "transmit" /\ client'.kind = client.kind
           /\ client'.port = f.port /\ client'.frame = Ack(f.port, client'.frame.block)
           /\ receipt' = receipt /\ disturbed' = disturbed /\ net' = Remaining(f)
           /\ f.type \in {"oack", "data"} /\ IsForClient(client, f)
<1>1. client \in ClientType
  BY ZenonT(30) DEF WireInv, TypeOK
<1>2. ASSUME NEW n, NEW g, NEW t, Acknowledges(f, n, g, t)
      PROVE  /\ client'.pc = "transmit" /\ client'.kind = client.kind
             /\ client'.port = f.port /\ client'.frame = Ack(f.port, client'.frame.block)
  BY <1>1, <1>2, ZenonT(30) DEF Acknowledges, ClientType, Ack
<1>3. CASE Repeats(f)
  BY <1>2, <1>3, ZenonT(30) DEF Repeats, Takes
<1>4. CASE TakesOack(f)
  BY <1>2, <1>4, ZenonT(30) DEF TakesOack, Takes
<1>5. CASE TakesData(f)
  BY <1>2, <1>5, ZenonT(30) DEF TakesData, Takes
<1> QED
  BY <1>3, <1>4, <1>5, ZenonT(30) DEF Takes

LEMMA BackendMoves ==
    ASSUME WireInv, BufferInv, BackendInv, UNCHANGED deployment, Moves
    PROVE  BackendInv'
<1>1. client \in ClientType /\ deployment.backend \in {"snp", "pxe"} /\ TypeOK
  BY DeploymentFacts, ZenonT(30) DEF WireInv, TypeOK
<1>2. CASE Waits \/ Sends \/ GoesOn
  BY <1>2, SteadyMoves, ZenonT(30) DEF Steady, BackendInv, Active
<1>3. CASE HearsArp \/ Probes
  BY <1>1, <1>3, ZenonT(30) DEF HearsArp, Probes, ClientType, BackendInv, Active
<1>6. ASSUME NEW f \in net, Takes(f) PROVE BackendInv'
  BY <1>6, TakesFields, ZenonT(30) DEF BackendInv, Active
<1>4. CASE Begins
  <2>1. PICK a \in Nat : client' = BeginAttempt(client, a)
    BY <1>4, ZenonT(30) DEF Begins
  <2>2. client'.pc = IF deployment.backend = "snp" THEN "transmit" ELSE "probe"
    BY <1>1, <2>1, StartFields, ZenonT(30)
  <2> QED
    BY <1>1, <2>2, ZenonT(30) DEF BackendInv, Active
<1>5. ASSUME NEW status, Ends(status) PROVE BackendInv'
  BY <1>5, ZenonT(30) DEF Ends, BackendInv, Active
<1> QED
  BY <1>2, <1>3, <1>4, <1>5, <1>6, MoveEffects, ZenonT(30) DEF Effects

\* An attempt starts with nothing stored.
LEMMA BeginsProgress ==
    ASSUME WireInv, Begins, UNCHANGED deployment
    PROVE  ProgressInv'
<1>1. PICK a \in Nat : client' = BeginAttempt(client, a)
  BY ZenonT(30) DEF Begins
<1>2. /\ client'.kind = client.kind /\ client'.guard = FreshGuard(deployment.block)
      /\ client'.frame \in {ArpRequest, Rrq(client.kind)}
      /\ client'.then \in {"arp", "receive"} /\ client.kind \in Kinds
  BY <1>1, StartFields, ZenonT(30) DEF WireInv, TypeOK, ClientType
<1>3. client'.frame.type # "ack"
  BY <1>2, SMTT(30) DEF ArpRequest, Rrq
<1>4. deployment.block \in Nat \ {0} /\ Size(client.kind) \in Nat
  BY <1>2, DeploymentFacts, ZenonT(30) DEF WireInv, TypeOK
<1>5. /\ client'.guard.options = FALSE /\ client'.guard.expected = 1
      /\ client'.guard.block = deployment.block /\ client'.guard.complete = FALSE
      /\ client'.guard.received = 0
  BY <1>2 DEF FreshGuard
<1>6. Offset(deployment.block, 1) = 0
  BY <1>4, Blocks, ZenonT(30)
<1>7. ZeroBuffer = Prefix(client.kind, 0)
  BY DEF ZeroBuffer, Prefix
<1>8. staging'[client'.kind] = Prefix(client'.kind, client'.guard.received)
  BY <1>2, <1>5, <1>7, ZenonT(30) DEF Begins
<1> QED
  BY <1>2, <1>3, <1>4, <1>5, <1>6, <1>8 DEF ProgressInv, Offset, Size

\* The transfer of a packet that is not an acknowledgement of the client's.
LEMMA LockedPort ==
    ASSUME WireInv, ProgressInv, Active, client.guard.options, NEW f, IsForClient(client, f)
    PROVE  f.port = client.port /\ client.port \in Sessions
<1>1. client.port \in Sessions
  BY ZenonT(30) DEF ProgressInv, Locked
<1>2. client.port \in 1 .. MaxSessions
  BY <1>1, SessionFacts, ZenonT(30)
<1>3. client.port # 0
  BY <1>2
<1> QED
  BY <1>1, <1>3, ZenonT(30) DEF IsForClient

\* DATA that continues what is stored comes from a transfer whose block size
\* the guard knows.
LEMMA SameBlock ==
    ASSUME WireInv, BackendInv, SizesAgree, ProgressInv, OneAttemptInv,
           NEW f \in net, Takes(f), TakesData(f)
    PROVE  /\ f.port \in Sessions /\ server[f.port].kind = client.kind
           /\ client.guard.block = server[f.port].block
<1>1. /\ Active /\ client.pc = "receive" /\ IsForClient(client, f)
      /\ f.type = "data" /\ client.kind = f.kind
  BY ZenonT(30) DEF Takes, TakesData, IsForClient, Active
<1>2. f.port \in Sessions /\ server[f.port].kind = client.kind /\ f.block \in 1 .. server[f.port].sent
  BY <1>1, DataOrigin, ZenonT(30)
<1>3. deployment.backend = "snp"
  BY <1>1, ZenonT(30) DEF BackendInv
<1>4. CASE client.guard.options
  BY <1>1, <1>2, <1>4, LockedPort, ZenonT(30) DEF ProgressInv, Locked
<1>5. CASE ~client.guard.options /\ deployment.offers = {deployment.block}
  <2>1. client.guard.block = deployment.block
    BY <1>1, <1>5, ZenonT(30) DEF ProgressInv
  <2>2. server[f.port].block \in deployment.offers
    BY <1>2, SessionFacts, ZenonT(30)
  <2> QED
    BY <1>2, <1>5, <2>1, <2>2, ZenonT(30)
<1>6. CASE ~client.guard.options /\ deployment.negotiates /\ deployment.retries = 0
  <2>1. server[f.port].sent \in Nat
    BY <1>2, SessionFacts, ZenonT(30)
  <2>2. Answered(f.port)
    BY <1>2, <2>1 DEF Answered
  <2>3. client.guard.options
    BY <1>1, <1>2, <1>3, <1>6, <2>2, ZenonT(30) DEF OneAttemptInv
  <2> QED
    BY <1>6, <2>3, ZenonT(30)
<1> QED
  BY <1>3, <1>4, <1>5, <1>6, ZenonT(30) DEF SizesAgree

\* memcpy of a block extends the stored prefix.
LEMMA StoreExtends ==
    ASSUME NEW k, NEW r \in Nat, NEW f, f.object = k, f.first = r + 1, f.size \in Nat
    PROVE  Store(Prefix(k, r), r, f) = Prefix(k, r + f.size)
<1>1. ASSUME NEW i \in 1 .. MaxBytes
      PROVE  (IF i > r /\ i <= r + f.size THEN <<f.object, f.first + (i - r - 1)>>
              ELSE IF i <= r THEN <<k, i>> ELSE Zero)
             = (IF i <= r + f.size THEN <<k, i>> ELSE Zero)
  <2>1. i \in Int
    OBVIOUS
  <2>2. CASE i > r /\ i <= r + f.size
    <3>1. f.first + (i - r - 1) = i
      BY <2>1
    <3> QED
      BY <2>1, <2>2, <3>1, ZenonT(30)
  <2>3. CASE i <= r
    BY <2>1, <2>3
  <2>4. CASE i > r + f.size
    BY <2>1, <2>4
  <2> QED
    BY <2>1, <2>2, <2>3, <2>4
<1> QED
  BY <1>1, ZenonT(30) DEF Store, Prefix

\* DATA that is taken.
LEMMA DataProgress ==
    ASSUME WireInv, BackendInv, SizesAgree, ProgressInv, OneAttemptInv,
           UNCHANGED <<deployment, server>>, NEW f \in net, Takes(f), TakesData(f)
    PROVE  ProgressInv'
<1> DEFINE p == f.port
<1> DEFINE b == server[p].block
<1> DEFINE n == client.guard.expected
<1> DEFINE r == client.guard.received
<1>1. p \in Sessions /\ server[p].kind = client.kind /\ client.guard.block = b /\ f.type = "data"
  BY SameBlock, ZenonT(30) DEF TakesData
<1>2. /\ f.object = client.kind /\ n \in 1 .. server[p].sent /\ f.first = Offset(b, n) + 1
      /\ f.size = Length(server[p], n) /\ f.block = n
  BY <1>1, DataOrigin, GuardDataFields, ZenonT(30)
<1>3. /\ Offset(b, n) \in Nat /\ Length(server[p], n) \in 0 .. b
      /\ Offset(b, n) + Length(server[p], n) <= Size(client.kind)
      /\ Length(server[p], n) < b => Offset(b, n) + Length(server[p], n) = Size(client.kind)
  BY <1>1, <1>2, BlockFits, ZenonT(30)
<1>4. b \in Nat \ {0} /\ server[p].sent \in Nat
  BY <1>1, SessionFacts, ZenonT(30)
<1>5. n \in Nat \ {0}
  BY <1>2, <1>4
<1>6. Offset(b, n + 1) = Offset(b, n) + b
  BY <1>4, <1>5, Blocks, ZenonT(30)
<1>7. r = Offset(b, n) /\ staging[client.kind] = Prefix(client.kind, r)
  BY <1>1, ZenonT(30) DEF ProgressInv, Active, Takes, TakesData, Fits
<1>8. /\ client'.kind = client.kind /\ client'.port = p /\ client'.frame = Ack(p, client'.frame.block)
      /\ client'.pc = "transmit"
  BY TakesFields, ZenonT(30)
<1>9. client'.guard = GuardData(f) /\ client'.then = IF f.size < b THEN "finish" ELSE "receive"
  <2>1. client \in ClientType
    BY ZenonT(30) DEF WireInv, TypeOK
  <2>2. Acknowledges(f, f.block, GuardData(f), IF f.size < b THEN "finish" ELSE "receive")
    BY <1>1, GuardDataFields, ZenonT(30)
  <2> QED
    BY <2>1, <2>2, ZenonT(30) DEF Acknowledges, ClientType
<1>10. /\ client'.guard.options = TRUE /\ client'.guard.block = b
       /\ client'.guard.received = r + f.size /\ client'.guard.expected = n + 1
       /\ client'.guard.complete = (f.size < b)
  BY <1>1, <1>9, GuardDataFields, ZenonT(30)
<1>11. client'.guard.received =
          IF client'.guard.complete THEN Size(client.kind)
          ELSE Offset(client'.guard.block, client'.guard.expected)
  <2>1. CASE f.size < b
    BY <1>2, <1>3, <1>7, <1>10, <2>1, ZenonT(30)
  <2>2. CASE ~(f.size < b)
    <3>1. f.size = b
      BY <1>2, <1>3, <1>4, <2>2
    <3> QED
      BY <1>6, <1>7, <1>10, <2>2, <3>1, ZenonT(30)
  <2> QED
    BY <2>1, <2>2, ZenonT(30)
<1>12. client'.guard.received <= Size(client.kind)
  BY <1>2, <1>3, <1>7, <1>10, ZenonT(30)
<1>13. staging'[client.kind] = Prefix(client.kind, client'.guard.received)
  <2>1. f.size \in Nat
    BY <1>2, <1>3, <1>4
  <2>2. Store(Prefix(client.kind, r), r, f) = Prefix(client.kind, r + f.size)
    BY <1>2, <1>3, <1>7, <2>1, StoreExtends, ZenonT(30)
  <2>3. staging \in [Kinds -> [1 .. MaxBytes -> Bytes]] /\ client.kind \in Kinds
    BY ZenonT(30) DEF WireInv, TypeOK, ClientType
  <2>4. staging'[client.kind] = Store(staging[client.kind], r, f)
    BY <2>3, ZenonT(30) DEF TakesData
  <2> QED
    BY <1>7, <1>10, <2>2, <2>4, ZenonT(30)
<1>14. client'.then = "finish" => client'.guard.complete
  BY <1>9, <1>10, ZenonT(30)
<1>15. /\ client'.frame.type = "ack" /\ client'.frame.port = client'.port
  BY <1>8 DEF Ack
<1>16. Locked'
  BY <1>1, <1>8, <1>10, ZenonT(30) DEF Locked, Sessions
<1> QED
  BY <1>8, <1>10, <1>11, <1>12, <1>13, <1>14, <1>15, <1>16, ZenonT(30) DEF ProgressInv, Size, Offset

\* The client remembers what it stored.
LEMMA ProgressMoves ==
    ASSUME WireInv, BufferInv, BackendInv, SizesAgree, ProgressInv, OneAttemptInv,
           UNCHANGED <<deployment, server>>, Moves
    PROVE  ProgressInv'
<1>1. client \in ClientType
  BY ZenonT(30) DEF WireInv, TypeOK
<1>2. CASE Waits \/ Sends \/ GoesOn
  BY <1>2, SteadyMoves, ZenonT(30) DEF Steady, ProgressInv, Active, Locked, Sessions, Size, Offset
<1>3. CASE HearsArp
  <2>1. /\ client'.kind = client.kind /\ client'.port = client.port
        /\ client'.guard = client.guard /\ client'.frame = Rrq(client.kind)
        /\ client'.then = "receive" /\ Active
    BY <1>1, <1>3, ZenonT(30) DEF HearsArp, ClientType, Active
  <2>2. client'.frame.type = "rrq"
    BY <2>1 DEF Rrq
  <2>3. UNCHANGED staging
    BY <1>3, ZenonT(30) DEF HearsArp
  <2> QED
    BY <2>1, <2>2, <2>3, ZenonT(30) DEF ProgressInv, Locked, Sessions, Size, Offset
<1>4. CASE Probes
  <2>1. client'.pc = "read"
    BY <1>1, <1>4, ZenonT(30) DEF Probes, ClientType
  <2> QED
    BY <2>1, ZenonT(30) DEF ProgressInv, Active
<1>5. ASSUME NEW status, Ends(status) PROVE ProgressInv'
  BY <1>5, ZenonT(30) DEF Ends, ProgressInv, Active
<1>6. ASSUME NEW f \in net, Takes(f) PROVE ProgressInv'
  <2>1. /\ client'.kind = client.kind /\ client'.port = f.port /\ client.pc = "receive"
        /\ client'.frame = Ack(f.port, client'.frame.block) /\ IsForClient(client, f)
    BY <1>6, TakesFields, ZenonT(30)
  <2>2. Active /\ client'.frame.type = "ack" /\ client'.frame.port = client'.port
    BY <2>1 DEF Active, Ack
  <2>3. CASE Repeats(f)
    <3>1. client'.guard = client.guard /\ client'.then = "receive" /\ UNCHANGED staging
      BY <1>1, <2>3, ZenonT(30) DEF Repeats, Acknowledges, ClientType
    <3>2. client.guard.options
      BY <2>2, <2>3, DeploymentAssumption DEF Repeats, ProgressInv, WireInv, GuardInv
    <3>3. client'.port = client.port
      BY <2>1, <2>2, <3>2, LockedPort, ZenonT(30)
    <3> QED
      BY <2>1, <2>2, <3>1, <3>2, <3>3, ZenonT(30) DEF ProgressInv, Locked, Sessions, Size, Offset
  <2>4. CASE TakesOack(f)
    <3>0. Acknowledges(f, 0, GuardOack(f), "receive") /\ UNCHANGED staging
      BY <2>4, GuardOackFields, ZenonT(30) DEF TakesOack
    <3>1. client'.guard = GuardOack(f) /\ client'.then = "receive" /\ UNCHANGED staging
      BY <1>1, <3>0, ZenonT(30) DEF Acknowledges, ClientType
    <3>2. f.port \in Sessions /\ f.size = server[f.port].block /\ f.kind = server[f.port].kind
      BY <2>4, OackOrigin, ZenonT(30) DEF TakesOack
    <3>3. /\ client'.guard.options = TRUE /\ client'.guard.block = f.size
          /\ client'.guard.received = client.guard.received
          /\ client'.guard.expected = client.guard.expected
          /\ client'.guard.complete = client.guard.complete
      BY <2>4, <3>1, GuardOackFields, ZenonT(30)
    <3>4. ~client.guard.complete /\ client.guard.expected = 1 /\ ~client.guard.options
      BY <2>4, ZenonT(30) DEF TakesOack, Fits
    <3>5. client.guard.received = 0 /\ Offset(f.size, 1) = 0
      <4>1. f.size \in Nat \ {0}
        BY <3>2, SessionFacts, ZenonT(30)
      <4>2. deployment.block \in Nat \ {0}
        BY DeploymentFacts, ZenonT(30) DEF WireInv, TypeOK
      <4>3. client.guard.received = Offset(deployment.block, 1)
        BY <2>2, <3>4, ZenonT(30) DEF ProgressInv
      <4> QED
        BY <4>1, <4>2, <4>3, Blocks, ZenonT(30)
    <3>6. Locked'
      BY <2>1, <3>2, <3>3, ZenonT(30) DEF Locked, Sessions, IsForClient
    <3> QED
      BY <2>1, <2>2, <3>1, <3>3, <3>4, <3>5, <3>6, ZenonT(30) DEF ProgressInv, Size, Offset
  <2> QED
    BY <1>6, <2>3, <2>4, DataProgress, ZenonT(30) DEF Takes
<1> QED
  BY <1>2, <1>3, <1>4, <1>5, <1>6, BeginsProgress, MoveEffects, ZenonT(30) DEF Effects

\* The buffers of the objects that were fetched.
LEMMA ReceiptMoves ==
    ASSUME WireInv, BufferInv, ProgressInv, ExactReceipt, UNCHANGED deployment, Moves
    PROVE  ExactReceipt'
<1>1. /\ client.kind \in Kinds /\ staging \in [Kinds -> [1 .. MaxBytes -> Bytes]]
      /\ client \in ClientType
  BY ZenonT(30) DEF WireInv, TypeOK, ClientType
<1>2. ASSUME client.pc # "done",
             \A k \in Kinds \ {client.kind} : receipt'[k] = receipt[k] /\ staging'[k] = staging[k],
             receipt'[client.kind].status = "ok" =>
                 receipt'[client.kind].bytes = Size(client.kind)
                 /\ staging'[client.kind] = Whole(client.kind)
      PROVE  ExactReceipt'
  BY <1>1, <1>2, ZenonT(30) DEF ExactReceipt, Whole, Size
<1>3. ASSUME client.pc # "done", receipt' = receipt,
             \A k \in Kinds \ {client.kind} : staging'[k] = staging[k]
      PROVE  ExactReceipt'
  <2>1. receipt[client.kind].status # "ok"
    BY <1>3 DEF BufferInv, NoReceipt
  <2> QED
    BY <1>2, <1>3, <2>1, ZenonT(30)
<1>4. CASE Waits \/ Sends \/ GoesOn \/ HearsArp \/ Probes
  BY <1>3, <1>4, ZenonT(30) DEF Waits, Sends, GoesOn, HearsArp, Probes, Active
<1>5. ASSUME NEW f \in net, Takes(f) PROVE ExactReceipt'
  <2>1. client.pc # "done" /\ receipt' = receipt
    BY <1>5, TakesFields, ZenonT(30)
  <2>2. \A k \in Kinds \ {client.kind} : staging'[k] = staging[k]
    BY <1>1, <1>5, ZenonT(30) DEF Takes, Repeats, TakesOack, TakesData
  <2> QED
    BY <1>3, <2>1, <2>2, ZenonT(30)
<1>6. CASE Begins
  BY <1>3, <1>6, ZenonT(30) DEF Begins
<1>7. ASSUME NEW status \in Errors, Ends(status) PROVE ExactReceipt'
  <2>1. status # "ok"
    BY ZenonT(30) DEF Errors
  <2> QED
    BY <1>2, <1>7, <2>1, ZenonT(30) DEF Ends
<1>8. CASE Ends("ok") /\ Succeeds
  <2>1. /\ receipt'[client.kind] = [status |-> "ok", bytes |-> client.guard.received]
        /\ staging' = staging /\ client.pc = "recycle" /\ client.then = "finish"
    BY <1>1, <1>8, ZenonT(30) DEF Succeeds, Return, WireInv, TypeOK
  <2>2. client.guard.received = Size(client.kind)
        /\ staging[client.kind] = Prefix(client.kind, Size(client.kind))
    BY <2>1, ZenonT(30) DEF ProgressInv, Active
  <2>3. staging'[client.kind] = Whole(client.kind)
    BY <2>1, <2>2, ZenonT(30) DEF Prefix, Whole, Size
  <2>4. receipt'[client.kind].bytes = Size(client.kind)
    BY <2>1, <2>2
  <2> QED
    BY <1>2, <1>8, <2>3, <2>4, ZenonT(30) DEF Ends
<1>9. CASE Ends("ok") /\ Reads
  <2>1. /\ receipt'[client.kind] = [status |-> "ok", bytes |-> Size(client.kind)]
        /\ staging'[client.kind] = Whole(client.kind)
    BY <1>1, <1>9, ZenonT(30) DEF Reads, Return, WireInv, TypeOK
  <2>2. receipt'[client.kind].bytes = Size(client.kind)
    BY <2>1
  <2> QED
    BY <1>2, <1>9, <2>1, <2>2, ZenonT(30) DEF Ends
<1> QED
  BY <1>4, <1>5, <1>6, <1>7, <1>8, <1>9, MoveEffects, ZenonT(30) DEF Effects

\* The client asks for its object only.
LEMMA RequestMoves ==
    ASSUME WireInv, BufferInv, RequestInv, UNCHANGED server, Moves
    PROVE  RequestInv'
<1>1. /\ client \in ClientType /\ client.kind \in Kinds /\ client.kind \in Nat
      /\ \A k \in Kinds : k \in Nat
  BY DeploymentAssumption DEF WireInv, TypeOK, ClientType, Kinds
<1>2. /\ \A f \in net : f.type = "rrq" => f.kind \in Nat
      /\ \A p \in Sessions : server[p].kind \in Nat
  BY <1>1, FrameOrigin, SessionFacts, ZenonT(30)
<1>3. ASSUME client'.kind = client.kind, client'.pc # "idle",
             \A f \in net' : f \in net \/ f.type # "rrq" \/ f.kind = client.kind,
             client'.frame.type = "rrq" => client'.frame = Rrq(client.kind)
      PROVE  RequestInv'
  BY <1>3, ZenonT(30) DEF RequestInv, Behind, Sessions
<1>4. CASE Waits \/ GoesOn
  <2>1. Steady /\ net' = net
    BY <1>4, SteadyMoves, ZenonT(30) DEF Waits, GoesOn
  <2> QED
    BY <1>3, <2>1, ZenonT(30) DEF Steady, RequestInv
<1>5. CASE Sends
  <2>1. Steady /\ net' = net \cup {client.frame}
    BY <1>5, SteadyMoves, ZenonT(30) DEF Sends
  <2>2. client.frame.type = "rrq" => client.frame.kind = client.kind
    BY <2>1 DEF Steady, RequestInv, Rrq
  <2> QED
    BY <1>3, <2>1, <2>2, ZenonT(30) DEF Steady, RequestInv
<1>6. CASE HearsArp
  BY <1>1, <1>3, <1>6, ZenonT(30) DEF HearsArp, ClientType
<1>7. CASE Probes
  <2>1. client'.kind = client.kind /\ client'.pc = "read" /\ net' = net
    BY <1>1, <1>7, ZenonT(30) DEF Probes, ClientType
  <2> QED
    BY <2>1, ZenonT(30) DEF RequestInv, Behind, Sessions, Active
<1>8. ASSUME NEW f \in net, Takes(f) PROVE RequestInv'
  <2>1. client'.kind = client.kind /\ client'.pc # "idle" /\ net' \subseteq net
    BY <1>8, TakesFields, ZenonT(30) DEF Remaining
  <2>2. client'.frame.type = "ack"
    <3>1. client'.frame = Ack(f.port, client'.frame.block)
      BY <1>8, TakesFields, ZenonT(30)
    <3> QED
      BY <3>1 DEF Ack
  <2> QED
    BY <1>3, <2>1, <2>2, ZenonT(30)
<1>9. CASE Begins
  <2>1. PICK a \in Nat : client' = BeginAttempt(client, a)
    BY <1>9, ZenonT(30) DEF Begins
  <2>2. /\ client'.kind = client.kind /\ client'.pc # "idle"
        /\ client'.frame \in {ArpRequest, Rrq(client.kind)}
    BY <2>1, StartFields, ZenonT(30) DEF WireInv
  <2>3. client'.frame.type = "rrq" => client'.frame = Rrq(client.kind)
    BY <2>2 DEF ArpRequest
  <2> QED
    BY <1>3, <1>9, <2>2, <2>3, ZenonT(30) DEF Begins
<1>10. ASSUME NEW status, Ends(status) PROVE RequestInv'
  <2>1. client'.pc \in {"done", "idle"} /\ net' \subseteq net
    BY <1>10, ZenonT(30) DEF Ends
  <2>2. CASE client'.pc = "done" /\ client'.kind = client.kind
    BY <2>1, <2>2, ZenonT(30) DEF RequestInv, Behind, Sessions, Active
  <2>3. CASE client'.pc = "idle" /\ client'.kind = client.kind + 1
    <3>1. \A k \in Nat : Behind(k) => k < client'.kind
      BY <1>1, <2>3 DEF Behind
    <3> QED
      BY <1>2, <2>1, <2>3, <3>1, ZenonT(30) DEF RequestInv, Behind, Sessions, Active
  <2> QED
    BY <1>10, <2>2, <2>3, ZenonT(30) DEF Ends
<1> QED
  BY <1>4, <1>5, <1>6, <1>7, <1>8, <1>9, <1>10, MoveEffects, ZenonT(30) DEF Effects

\* An acknowledgement goes to the transfer that the client is locked to.
LEMMA AnsweredMoves ==
    ASSUME WireInv, BufferInv, RequestInv, ProgressInv, OneAttemptInv,
           UNCHANGED <<deployment, server>>, Moves
    PROVE  OneAttemptInv'
<1> SUFFICES ASSUME deployment.negotiates, deployment.retries = 0, deployment.backend = "snp",
                    NEW p \in Sessions, Answered(p)', server[p].kind = client'.kind, Active'
             PROVE  client'.guard.options /\ client'.port = p
  BY ZenonT(30) DEF OneAttemptInv, Sessions
<1>1. client \in ClientType /\ client.attempt \in Nat /\ client.kind \in Kinds /\ client.kind \in Nat
  BY DeploymentAssumption DEF WireInv, TypeOK, ClientType, Kinds
<1>2. ASSUME net' \subseteq net PROVE Answered(p)
  BY <1>2, ZenonT(30) DEF Answered
<1>3. Answered(p) /\ server[p].kind = client.kind /\ Active => client.guard.options /\ client.port = p
  BY ZenonT(30) DEF OneAttemptInv
<1>4. CASE Waits \/ GoesOn
  <2>1. Steady /\ net' = net
    BY <1>4, SteadyMoves, ZenonT(30) DEF Waits, GoesOn
  <2> QED
    BY <1>2, <1>3, <2>1, ZenonT(30) DEF Steady
<1>5. CASE Sends
  <2>1. Steady /\ net' = net \cup {client.frame}
    BY <1>5, SteadyMoves, ZenonT(30) DEF Sends
  <2>2. CASE Answered(p)
    BY <1>3, <2>1, <2>2, ZenonT(30) DEF Steady
  <2>3. CASE ~Answered(p)
    <3>1. client.frame.type = "ack" /\ client.frame.port = p
      BY <2>1, <2>3, ZenonT(30) DEF Answered
    <3> QED
      BY <2>1, <3>1, ZenonT(30) DEF Steady, ProgressInv
  <2> QED
    BY <2>2, <2>3, ZenonT(30)
<1>6. CASE HearsArp
  BY <1>1, <1>2, <1>3, <1>6, ZenonT(30) DEF HearsArp, ClientType, Active
<1>7. CASE Probes
  BY <1>1, <1>7, ZenonT(30) DEF Probes, ClientType, Active
<1>8. ASSUME NEW f \in net, Takes(f) PROVE client'.guard.options /\ client'.port = p
  <2>1. /\ client'.kind = client.kind /\ client.pc = "receive" /\ net' \subseteq net
        /\ client'.port = f.port /\ IsForClient(client, f)
    BY <1>8, TakesFields, ZenonT(30) DEF Remaining
  <2>2. client.guard.options /\ client.port = p
    BY <1>2, <1>3, <2>1, ZenonT(30) DEF Active
  <2>3. client'.port = p
    BY <2>1, <2>2, LockedPort, ZenonT(30) DEF Active
  <2>4. client'.guard.options
    <3>1. CASE Repeats(f)
      BY <1>1, <2>2, <3>1, ZenonT(30) DEF Repeats, Acknowledges, ClientType
    <3>2. CASE TakesOack(f)
      BY <2>2, <3>2, ZenonT(30) DEF TakesOack, Fits
    <3>3. CASE TakesData(f)
      <4>1. Acknowledges(f, f.block, GuardData(f),
                         IF f.size < client.guard.block THEN "finish" ELSE "receive")
            /\ GuardData(f).options = TRUE
        BY <3>3, GuardDataFields, ZenonT(30)
      <4> QED
        BY <1>1, <4>1, ZenonT(30) DEF Acknowledges, ClientType
    <3> QED
      BY <1>8, <3>1, <3>2, <3>3, ZenonT(30) DEF Takes
  <2> QED
    BY <2>3, <2>4, ZenonT(30)
<1>9. CASE Begins /\ Starts
  <2>1. client.pc = "idle" /\ client' = BeginAttempt(client, 0)
    BY <1>9, ZenonT(30) DEF Starts
  <2>2. client'.kind = client.kind
    BY <2>1, StartFields DEF WireInv
  <2>3. server[p].kind < client.kind
    BY <2>1, ZenonT(30) DEF RequestInv, Behind
  <2> QED
    BY <1>1, <2>2, <2>3
<1>10. ~(client.attempt < deployment.retries)
  BY <1>1
<1>11. ASSUME NEW status, Ends(status) PROVE FALSE
  BY <1>11, ZenonT(30) DEF Ends, Active
<1> QED
  BY <1>4, <1>5, <1>6, <1>7, <1>8, <1>9, <1>10, <1>11, MoveEffects, ZenonT(30) DEF Effects

\* What a step of the server does to its transfers and to the network.
ServerEffects ==
    /\ Sessions \subseteq Sessions'
    /\ \A p \in Sessions : /\ server'[p].kind = server[p].kind
                           /\ server'[p].block = server[p].block
                           /\ server'[p].sent # server[p].sent =>
                                 \E f \in net : f.type = "ack" /\ f.port = p
    /\ \A p \in Sessions' \ Sessions :
          /\ \E f \in net : f.type = "rrq" /\ server'[p].kind = f.kind
          /\ deployment.negotiates => server'[p].sent = 0
    /\ \A f \in net' : f \in net \/ f.type \in {"arp_reply", "oack", "data", "error"}

LEMMA ServerMoveEffects ==
    ASSUME WireInv, UNCHANGED <<deployment, client, staging, receipt>>, ServerMoves
    PROVE  ServerEffects
<1>1. CASE ServerArp
  BY <1>1 DEF ServerArp, Remaining, ArpReply, ServerEffects, Sessions
<1>2. ASSUME NEW f \in net, ServerRefuse(f) PROVE ServerEffects
  BY <1>2 DEF ServerRefuse, Remaining, Refusal, ServerEffects, Sessions
<1>3. ASSUME NEW f \in net, NEW p \in 1 .. MaxSessions, NEW s \in SessionType, Serves(f, p, s)
      PROVE  ServerEffects
  <2>1. /\ server'[p] = s /\ \A q \in Sessions \ {p} : server'[q] = server[q]
        /\ net' = Remaining(f) \cup {LastPacket(p, s)}
        /\ Opens(f, p, s) \/ Continues(f, p, s)
    BY <1>3, ZenonT(30) DEF Serves
  <2>2. LastPacket(p, s).type \in {"oack", "data"}
    BY ZenonT(30) DEF LastPacket, Oack, ServerData, Data
  <2>3. \A g \in net' : g \in net \/ g.type \in {"arp_reply", "oack", "data", "error"}
    BY <2>1, <2>2, ZenonT(30) DEF Remaining
  <2>4. Sessions \subseteq Sessions'
    BY <1>3, ServesWire, ZenonT(30)
  <2>5. CASE Opens(f, p, s)
    <3>1. /\ f.type = "rrq" /\ s.kind = f.kind /\ (deployment.negotiates => s.sent = 0)
          /\ Sessions = 1 .. p - 1 /\ Sessions' = 1 .. p
      BY <2>5, ZenonT(30) DEF Opens, Sessions
    <3>2. p \notin Sessions /\ \A q \in Sessions' \ Sessions : q = p
      BY <3>1, DeploymentAssumption
    <3> QED
      BY <2>1, <2>3, <2>4, <3>1, <3>2, ZenonT(30) DEF ServerEffects
  <2>6. CASE Continues(f, p, s)
    <3>1. f = Ack(p, server[p].sent) /\ p \in Sessions /\ Sessions' = Sessions
          /\ s = [server[p] EXCEPT !.sent = @ + 1]
      BY <2>6, ZenonT(30) DEF Continues, Sessions
    <3>2. f.type = "ack" /\ f.port = p
      BY <3>1, ZenonT(30) DEF Ack
    <3>3. s.kind = server[p].kind /\ s.block = server[p].block
      <4>1. server[p] \in SessionType
        BY <3>1, ZenonT(30) DEF WireInv, ServerInv, SessionType
      <4> QED
        BY <3>1, <4>1, ZenonT(30) DEF SessionType
    <3> QED
      BY <2>1, <2>3, <2>4, <3>1, <3>2, <3>3, ZenonT(30) DEF ServerEffects
  <2> QED
    BY <2>1, <2>5, <2>6, ZenonT(30)
<1> QED
  BY <1>1, <1>2, <1>3, ZenonT(30) DEF ServerMoves

\* The server answers requests and acknowledgements only.
LEMMA ExactServer ==
    ASSUME WireInv, ExactInv, UNCHANGED <<deployment, client, staging, receipt>>, ServerEffects
    PROVE  ExactInv'
<1>1. BackendInv' /\ (SizesAgree' <=> SizesAgree)
  BY ZenonT(30) DEF ExactInv, BackendInv, Active, SizesAgree
<1>2. RequestInv'
  <2>1. RequestInv
    BY ZenonT(30) DEF ExactInv
  <2>2. \A f \in net' : f.type = "rrq" => f \in net
    BY ZenonT(30) DEF ServerEffects
  <2>3. ASSUME NEW p \in Sessions' PROVE Behind(server'[p].kind)
    <3>1. CASE p \in Sessions
      BY <2>1, <3>1, ZenonT(30) DEF ServerEffects, RequestInv
    <3>2. CASE p \notin Sessions
      BY <2>1, <2>3, <3>2, ZenonT(30) DEF ServerEffects, RequestInv
    <3> QED
      BY <3>1, <3>2, ZenonT(30)
  <2> QED
    BY <2>1, <2>2, <2>3, ZenonT(30) DEF RequestInv, Behind, Active
<1>3. ASSUME SizesAgree PROVE ExactReceipt' /\ ProgressInv' /\ OneAttemptInv'
  <2>1. ExactReceipt /\ ProgressInv /\ OneAttemptInv
    BY <1>3, ZenonT(30) DEF ExactInv
  <2>2. ExactReceipt'
    BY <2>1, ZenonT(30) DEF ExactReceipt, Whole
  <2>3. Locked => Locked'
    BY ZenonT(30) DEF Locked, ServerEffects
  <2>4. ProgressInv'
    BY <2>1, <2>3, ZenonT(30) DEF ProgressInv, Active, Size, Offset
  <2>5. ASSUME deployment.negotiates, deployment.retries = 0, deployment.backend = "snp",
               NEW p \in Sessions', Answered(p)', server'[p].kind = client.kind, Active
        PROVE  client.guard.options /\ client.port = p
    <3>1. CASE p \in Sessions
      <4>1. Answered(p) /\ server[p].kind = client.kind
        BY <2>5, <3>1, ZenonT(30) DEF Answered, ServerEffects
      <4> QED
        BY <2>1, <2>5, <3>1, <4>1, ZenonT(30) DEF OneAttemptInv
    <3>2. CASE p \notin Sessions
      <4>1. server'[p].sent = 0
        BY <2>5, <3>2, ZenonT(30) DEF ServerEffects
      <4>2. PICK f \in net : f.type = "ack" /\ f.port = p
        BY <2>5, <4>1 DEF Answered, ServerEffects
      <4>3. p \in Sessions
        BY <4>2, FrameOrigin, ZenonT(30) DEF IsAck
      <4> QED
        BY <3>2, <4>3, ZenonT(30)
    <3> QED
      BY <3>1, <3>2, ZenonT(30)
  <2>6. OneAttemptInv'
    BY <2>5, ZenonT(30) DEF OneAttemptInv, Active
  <2> QED
    BY <2>2, <2>4, <2>6, ZenonT(30)
<1> QED
  BY <1>1, <1>2, <1>3, ZenonT(30) DEF ExactInv

LEMMA ExactMoves ==
    ASSUME WireInv, BufferInv, ExactInv, UNCHANGED <<deployment, server>>, Moves
    PROVE  ExactInv'
<1>1. BackendInv' /\ RequestInv' /\ (SizesAgree' <=> SizesAgree)
  BY BackendMoves, RequestMoves, ZenonT(30) DEF ExactInv, SizesAgree
<1>2. ASSUME SizesAgree PROVE ExactReceipt' /\ ProgressInv' /\ OneAttemptInv'
  BY <1>2, ProgressMoves, ReceiptMoves, AnsweredMoves, ZenonT(30) DEF ExactInv
<1> QED
  BY <1>1, <1>2, ZenonT(30) DEF ExactInv

-----------------------------------------------------------------------------
(* Whose turn it is.                                                       *)

\* The last packet of a transfer.
LEMMA LastPacketFields ==
    ASSUME WireInv, NEW p \in Sessions
    PROVE  LET f == LastPacket(p, server[p])
               n == server[p].sent
           IN  /\ f.port = p /\ f.kind = server[p].kind
               /\ n = 0 => f.type = "oack" /\ f.size = server[p].block
               /\ n # 0 => /\ f.type = "data" /\ f.block = n
                           /\ f.size = Length(server[p], n)
<1>1. server[p].sent \in 0 .. LastBlock /\ LastBlock \in Nat
  BY SessionFacts, DeploymentAssumption, ZenonT(30)
<1>2. CASE server[p].sent = 0
  BY <1>2, ZenonT(30) DEF LastPacket, Oack
<1>3. CASE server[p].sent # 0
  <2>1. server[p].sent \in 1 .. LastBlock
    BY <1>1, <1>3
  <2>2. LastPacket(p, server[p]) = ServerData(p, server[p], server[p].sent)
    BY <1>3, ZenonT(30) DEF LastPacket
  <2> QED
    BY <1>1, <1>3, <2>1, <2>2, ServerDataFields, SMTT(30) DEF Length, Left
<1> QED
  BY <1>2, <1>3, ZenonT(30)

\* A packet for the client is the last one of the transfer of its object.
LEMMA OnlyPacket ==
    ASSUME WireInv, Turn, client.pc = "receive", NEW f \in net, IsForClient(client, f),
           f.type # "error"
    PROVE  /\ f.port \in Sessions /\ TurnWith(f.port) /\ ClientsTurn(f.port)
           /\ f = LastPacket(f.port, server[f.port])
<1>1. f.type \in {"oack", "data"} /\ f.kind = client.kind
  BY ZenonT(30) DEF IsForClient
<1>2. f.port \in Sessions /\ server[f.port].kind = client.kind
  BY <1>1, OackOrigin, DataOrigin, ZenonT(30)
<1>3. f.port \in Transfers(client.kind)
  BY <1>2, ZenonT(30) DEF Transfers
<1>4. ~TurnToAsk /\ ~TurnToWait /\ ~TurnToFinish
  BY <1>3, ZenonT(30) DEF TurnToAsk, TurnToWait, TurnToFinish
<1>5. PICK p \in Sessions : TurnWith(p)
  BY <1>4, ZenonT(30) DEF Turn
<1>6. p = f.port
  BY <1>3, <1>5, ZenonT(30) DEF TurnWith
<1>7. f \in Packets(p)
  BY <1>1, <1>6, ZenonT(30) DEF Packets
<1>8. ~ServersTurn(p)
  <2>1. Ack(p, server[p].sent).type = "ack"
    BY ZenonT(30) DEF Ack
  <2> QED
    BY <1>1, <1>7, <2>1, ZenonT(30) DEF ServersTurn
<1>9. ClientsTurn(p)
  BY <1>5, <1>8, ZenonT(30) DEF TurnWith
<1>10. f = LastPacket(p, server[p])
  BY <1>7, <1>9, ZenonT(30) DEF ClientsTurn
<1> QED
  BY <1>2, <1>5, <1>6, <1>9, <1>10, ZenonT(30)

\* The blocks of an object that can be fetched have numbers below UINT16_MAX.
LEMMA NumbersSuffice ==
    ASSUME WireInv, BackendInv, Active, Fetchable(client.kind), NEW p \in Sessions,
           server[p].kind = client.kind, server[p].sent > 0
    PROVE  server[p].sent < LastBlock
<1>1. /\ server[p].block \in deployment.offers /\ server[p].block \in Nat \ {0}
      /\ server[p].sent \in Nat \ {0} /\ Size(client.kind) \in Nat
      /\ Offset(server[p].block, server[p].sent) <= Size(client.kind)
  BY SessionFacts
<1>2. LastBlock \in Nat \ {0}
  BY DeploymentAssumption, ZenonT(30)
<1>3. Size(client.kind) < (LastBlock - 1) * server[p].block
  BY <1>1, ZenonT(30) DEF BackendInv, Fetchable, Size
<1>4. Size(client.kind) < Offset(server[p].block, LastBlock)
  BY <1>3, ZenonT(30) DEF Offset
<1>5. CASE LastBlock <= server[p].sent
  <2>1. /\ Offset(server[p].block, LastBlock) <= Offset(server[p].block, server[p].sent)
        /\ Offset(server[p].block, LastBlock) \in Nat
        /\ Offset(server[p].block, server[p].sent) \in Nat
    BY <1>1, <1>2, <1>5, Blocks, BlocksGrow, ZenonT(30)
  <2> QED
    BY <1>1, <1>4, <2>1
<1> QED
  BY <1>1, <1>2, <1>5

\* The guard takes the packet of an undisturbed transfer.
LEMMA PacketFits ==
    ASSUME WireInv, BackendInv, Turn, client.pc = "receive", Fetchable(client.kind),
           NEW f \in net, IsForClient(client, f), f.type # "error"
    PROVE  Fits(f)
<1> DEFINE p == f.port
<1> DEFINE b == server[p].block
<1> DEFINE n == server[p].sent
<1>1. p \in Sessions /\ TurnWith(p) /\ ClientsTurn(p) /\ f = LastPacket(p, server[p])
  BY OnlyPacket, ZenonT(30)
<1>2. Active /\ server[p].kind = client.kind
  BY <1>1, ZenonT(30) DEF Active, TurnWith, Transfers
<1>3. b \in Nat \ {0} /\ n \in Nat /\ b <= deployment.block
  BY <1>1, SessionFacts, ZenonT(30)
<1>4. LastBlock \in Nat /\ LastBlock > 1 /\ deployment.block \in Nat
  BY DeploymentFacts, ZenonT(30) DEF WireInv, TypeOK
<1>5. StoredBefore(p)
  BY <1>1, ZenonT(30) DEF TurnWith
<1>6. CASE n = 0
  <2>1. f.type = "oack" /\ f.size = b
    BY <1>1, <1>6, LastPacketFields, SMTT(30)
  <2>2. client.guard = FreshGuard(deployment.block)
    BY <1>1, <1>6, ZenonT(30) DEF ClientsTurn, Fresh
  <2> QED
    <3>1. 0 < LastBlock /\ b <= deployment.block
      BY <1>3, <1>4
    <3>2. /\ client.guard.complete = FALSE /\ client.guard.packets = 0
          /\ client.guard.block = deployment.block /\ client.guard.options = FALSE
          /\ client.guard.expected = 1
      BY <2>2 DEF FreshGuard
    <3> QED
      BY <2>1, <3>1, <3>2, Zenon DEF Fits
<1>7. CASE n # 0
  <2>1. f.type = "data" /\ f.block = n /\ f.size = Length(server[p], n)
    BY <1>1, <1>7, LastPacketFields, ZenonT(30)
  <2>2. n > 0 /\ n < LastBlock
    BY <1>1, <1>2, <1>3, <1>7, NumbersSuffice
  <2>3. client.guard.expected = n
    BY <1>1, <1>7, ZenonT(30) DEF ClientsTurn
  <2>4. /\ client.guard.received = Offset(b, n) /\ client.guard.packets <= n
        /\ client.guard.block >= b /\ ~client.guard.complete
    BY <1>5, <2>3, ZenonT(30) DEF StoredBefore
  <2>5. n \in 1 .. n
    BY <1>3, <2>2
  <2>6. /\ Offset(b, n) \in Nat /\ Length(server[p], n) \in 0 .. b
        /\ Offset(b, n) + Length(server[p], n) <= Size(client.kind)
    BY <1>1, <1>2, <2>5, BlockFits, ZenonT(30)
  <2>7. Size(client.kind) <= deployment.maximum /\ deployment.maximum <= deployment.capacity
        /\ deployment.maximum \in Nat /\ deployment.capacity \in Nat /\ Size(client.kind) \in Nat
    BY FetchableFits, Zenon
  <2>8. client.guard.packets \in Nat /\ client.guard.block \in Nat
    BY ZenonT(30) DEF WireInv, TypeOK, ClientType, GuardType
  <2>9. client.guard.packets < LastBlock /\ f.size <= client.guard.block
    <3>1. client.guard.packets < LastBlock
      BY <1>3, <1>4, <2>2, <2>4, <2>8
    <3>2. \A x \in 0 .. b : client.guard.block >= b => x <= client.guard.block
      BY <1>3, <2>8
    <3> QED
      BY <2>1, <2>4, <2>6, <3>1, <3>2, Zenon
  <2>10. /\ f.size <= deployment.maximum - client.guard.received
         /\ client.guard.received + f.size <= deployment.capacity
    BY <2>1, <2>4, <2>6, <2>7, SMTT(30)
  <2>11. f.block = client.guard.expected /\ client.guard.expected # LastBlock
    BY <1>3, <1>4, <2>1, <2>2, <2>3
  <2> QED
    BY <2>1, <2>4, <2>9, <2>10, <2>11, ZenonT(30) DEF Fits
<1> QED
  BY <1>6, <1>7, ZenonT(30)

\* Only an object that cannot be fetched is to blame for a failure.
LEMMA BlamedIsReason ==
    ASSUME WireInv, BackendInv, TurnInv, ~disturbed, Blamed
    PROVE  ~Fetchable(client.kind)
<1> SUFFICES ASSUME Fetchable(client.kind) PROVE FALSE
  BY ZenonT(30)
<1>1. Active => Turn
  BY ZenonT(30) DEF TurnInv
<1>2. \A f \in net : f.type # "error"
  BY ZenonT(30) DEF TurnInv
<1>3. /\ Size(client.kind) \in 1 .. deployment.maximum
      /\ deployment.maximum <= deployment.capacity
      /\ deployment.maximum \in Nat /\ deployment.capacity \in Nat
  BY DeploymentFacts DEF Fetchable, Size, WireInv, TypeOK
<1>4. CASE client.pc = "receive" /\ \E f \in net : IsForClient(client, f) /\ ~Fits(f)
  BY <1>1, <1>2, <1>4, PacketFits, ZenonT(30) DEF Active
<1>5. CASE /\ client.pc = "recycle" /\ client.then = "finish"
           /\ client.guard.received = 0 \/ client.guard.received > deployment.maximum
  <2>1. client.guard.received \in 0 .. deployment.maximum
    BY ZenonT(30) DEF WireInv, GuardInv
  <2>2. client.guard.received = 0
    BY <1>3, <1>5, <2>1
  <2>3. Turn
    BY <1>1, <1>5, ZenonT(30) DEF Active
  <2> QED
    BY <1>5, <2>2, <2>3, ZenonT(30) DEF Turn, TurnToAsk, TurnToWait, TurnWith, TurnToFinish,
                            Listening, ServersTurn, ClientsTurn
<1>6. CASE /\ client.pc \in {"probe", "read"}
           /\ \/ Size(client.kind) = 0 \/ Size(client.kind) > deployment.maximum
              \/ Size(client.kind) > deployment.capacity
  BY <1>3, <1>6
<1>7. CASE client.pc = "idle" /\ deployment.backend = "pxe" /\ ~PxeHasTime
  BY <1>7, ZenonT(30) DEF Fetchable
<1> QED
  BY <1>4, <1>5, <1>6, <1>7, ZenonT(30) DEF Blamed

\* A request is neither a packet nor an acknowledgement.
LEMMA FramesDiffer ==
    ASSUME NEW p, NEW n, NEW k
    PROVE  /\ Ack(p, n).type = "ack" /\ Ack(p, n).port = p
           /\ Rrq(k).type = "rrq" /\ Rrq(k).kind = k /\ ArpRequest.type = "arp_request"
           /\ Rrq(k) # ArpRequest /\ Ack(p, n) # ArpRequest /\ Ack(p, n) # Rrq(k)
<1>1. /\ Ack(p, n).type = "ack" /\ Ack(p, n).port = p
      /\ Rrq(k).type = "rrq" /\ Rrq(k).kind = k /\ ArpRequest.type = "arp_request"
  BY ZenonT(30) DEF Ack, Rrq, ArpRequest
<1> QED
  BY <1>1, ZenonT(30)

\* The attempt as it was.
LEMMA TurnWaits ==
    ASSUME WireInv, Turn, Waits \/ GoesOn, UNCHANGED <<deployment, server>>
    PROVE  Turn'
<1>1. Steady /\ net' = net
  BY SteadyMoves, ZenonT(30) DEF Waits, GoesOn
<1>2. \/ client'.pc = client.pc
      \/ client.pc = "recycle" /\ client'.pc = client.then /\ client.then # "finish"
  BY ZenonT(30) DEF Waits, GoesOn, WireInv, TypeOK, ClientType
<1>3. \A p : (Packets(p)' = Packets(p)) /\ (Transfers(p)' = Transfers(p))
  BY <1>1, ZenonT(30) DEF Packets, Transfers, Sessions
<1>4. Requested' <=> Requested
  BY <1>1, ZenonT(30) DEF Requested, Steady
<1>5. Fresh => Fresh'
  BY <1>1, ZenonT(30) DEF Fresh, Steady
<1>6. CASE TurnToAsk
  <2>1. Asking'
    <3>1. CASE client.frame = ArpRequest
      BY <1>1, <3>1, ZenonT(30) DEF Asking, Steady
    <3>2. CASE client.frame = Rrq(client.kind) /\ client.pc = "transmit"
      BY <1>1, <1>2, <3>2, ZenonT(30) DEF Asking, Steady
    <3> QED
      BY <1>6, <3>1, <3>2, ZenonT(30) DEF TurnToAsk, Asking
  <2>2. TurnToAsk'
    BY <1>1, <1>3, <1>4, <1>5, <1>6, <2>1, ZenonT(30) DEF TurnToAsk, Steady
  <2> QED
    BY <2>2, ZenonT(30) DEF Turn
<1>7. ASSUME ~Asking, client.then = "receive" PROVE ~Asking'
  BY <1>1, <1>2, <1>7, ZenonT(30) DEF Asking, Steady
<1>8. CASE TurnToWait
  <2>1. Listening' /\ client.then = "receive"
    BY <1>1, <1>2, <1>8, ZenonT(30) DEF TurnToWait, Listening, Steady
  <2>2. TurnToWait'
    BY <1>1, <1>3, <1>4, <1>5, <1>7, <1>8, <2>1, ZenonT(30) DEF TurnToWait, Steady
  <2> QED
    BY <2>2, ZenonT(30) DEF Turn
<1>9. ASSUME NEW p \in Sessions, TurnWith(p) PROVE TurnWith(p)'
  <2>1. client.then = "receive"
    BY <1>9, ZenonT(30) DEF TurnWith, ServersTurn, ClientsTurn, Listening
  <2>2. StoredBefore(p)'
    BY <1>1, <1>9, ZenonT(30) DEF TurnWith, StoredBefore, Steady, Offset
  <2>3. ServersTurn(p) => ServersTurn(p)'
    BY <1>1, <1>2, <1>3, ZenonT(30) DEF ServersTurn, Steady
  <2>4. ClientsTurn(p) => ClientsTurn(p)'
    <3>1. LastPacket(p, server[p])' = LastPacket(p, server[p])
      BY ZenonT(30) DEF LastPacket, ServerData
    <3> QED
      BY <1>1, <1>2, <1>3, <1>5, <3>1, ZenonT(30) DEF ClientsTurn, Listening, Steady
  <2> QED
    BY <1>1, <1>3, <1>4, <1>7, <1>9, <2>1, <2>2, <2>3, <2>4, ZenonT(30) DEF TurnWith, Steady
<1>10. CASE TurnToFinish
  BY <1>1, <1>2, <1>10, ZenonT(30) DEF Turn, TurnToFinish, Steady
<1> QED
  BY <1>6, <1>8, <1>9, <1>10, ZenonT(30) DEF Turn, Sessions

\* A frame is sent: the request, or an acknowledgement.
LEMMA TurnSends ==
    ASSUME WireInv, Turn, Sends, UNCHANGED <<deployment, server>>
    PROVE  Turn'
<1>1. /\ Steady /\ net' = net \cup {client.frame} /\ client.pc = "transmit"
      /\ client'.pc = "recycle"
  BY SteadyMoves, ZenonT(30) DEF Sends, WireInv, TypeOK, ClientType
<1>2. \A k : Transfers(k)' = Transfers(k)
  BY ZenonT(30) DEF Transfers, Sessions
<1>3. Fresh => Fresh'
  BY <1>1, ZenonT(30) DEF Fresh, Steady
<1>4. CASE TurnToAsk /\ client.frame = ArpRequest
  <2>1. Asking' /\ ~Requested'
    BY <1>1, <1>4, FramesDiffer DEF TurnToAsk, Asking, Requested, Steady
  <2>2. TurnToAsk'
    BY <1>1, <1>2, <1>3, <1>4, <2>1, ZenonT(30) DEF TurnToAsk, Steady
  <2> QED
    BY <2>2, ZenonT(30) DEF Turn
<1>5. CASE TurnToAsk /\ client.frame = Rrq(client.kind)
  <2>1. ~Asking' /\ Requested'
    BY <1>1, <1>5, FramesDiffer DEF Asking, Requested, Steady
  <2>2. client.then = "receive"
    BY <1>5, FramesDiffer, ZenonT(30) DEF TurnToAsk
  <2>3. Listening'
    BY <1>1, <2>2, ZenonT(30) DEF Listening, Steady
  <2>4. TurnToWait'
    BY <1>1, <1>2, <1>3, <1>5, <2>1, <2>3, ZenonT(30) DEF TurnToAsk, TurnToWait, Steady
  <2> QED
    BY <2>4, ZenonT(30) DEF Turn
<1>6. ~TurnToWait
  BY <1>1, ZenonT(30) DEF TurnToWait, Listening
<1>7. ASSUME NEW p \in Sessions, TurnWith(p) PROVE TurnWith(p)'
  <2>1. ServersTurn(p) /\ client.frame = Ack(p, server[p].sent) /\ Packets(p) = {}
    BY <1>1, <1>7, ZenonT(30) DEF TurnWith, ClientsTurn, Listening, ServersTurn
  <2>2. ~Asking' /\ ~Requested'
    BY <1>1, <1>7, <2>1, FramesDiffer DEF TurnWith, Asking, Requested, Steady
  <2>3. Packets(p)' = {Ack(p, server[p].sent)}
    BY <1>1, <2>1, FramesDiffer DEF Packets
  <2>4. StoredBefore(p)'
    BY <1>1, <1>7, ZenonT(30) DEF TurnWith, StoredBefore, Steady, Offset
  <2>5. ServersTurn(p)'
    BY <1>1, <2>1, <2>3, ZenonT(30) DEF ServersTurn, Steady
  <2> QED
    BY <1>1, <1>2, <1>7, <2>2, <2>4, <2>5, ZenonT(30) DEF TurnWith, Steady
<1>8. CASE TurnToFinish
  BY <1>1, <1>8, ZenonT(30) DEF Turn, TurnToFinish, Steady
<1> QED
  BY <1>4, <1>5, <1>6, <1>7, <1>8, ZenonT(30) DEF Turn, Sessions, TurnToAsk, Asking

\* The address of the server is known.
LEMMA TurnHearsArp ==
    ASSUME WireInv, Turn, HearsArp, UNCHANGED <<deployment, server>>
    PROVE  Turn'
<1>1. /\ client.pc = "arp" /\ client'.pc = "transmit" /\ client'.frame = Rrq(client.kind)
      /\ client'.then = "receive" /\ client'.kind = client.kind /\ client'.port = client.port
      /\ client'.guard = client.guard /\ net' \subseteq net
  BY ZenonT(30) DEF HearsArp, WireInv, TypeOK, ClientType
<1>2. TurnToAsk
  BY <1>1, ZenonT(30) DEF Turn, TurnToWait, TurnWith, TurnToFinish, Listening, ServersTurn, ClientsTurn
<1>3. Asking' /\ Fresh' /\ ~Requested' /\ (Transfers(client.kind) = {})'
  BY <1>1, <1>2, ZenonT(30) DEF TurnToAsk, Asking, Fresh, Requested, Transfers, Sessions
<1>4. client'.then = IF client'.frame = ArpRequest THEN "arp" ELSE "receive"
  BY <1>1, FramesDiffer, ZenonT(30)
<1>5. TurnToAsk'
  BY <1>3, <1>4, ZenonT(30) DEF TurnToAsk
<1> QED
  BY <1>5, ZenonT(30) DEF Turn

\* The client's turn: it takes the packet and acknowledges it.
LEMMA TurnTakes ==
    ASSUME WireInv, BackendInv, Turn, Fetchable(client.kind), deployment.reliable,
           NEW f \in net, f.type # "error", Takes(f), UNCHANGED <<deployment, server>>
    PROVE  Turn'
<1> DEFINE p == f.port
<1> DEFINE b == server[p].block
<1> DEFINE n == server[p].sent
<1>1. /\ client.pc = "receive" /\ client'.pc = "transmit" /\ client'.kind = client.kind
      /\ client'.port = p /\ net' = net \ {f} /\ IsForClient(client, f)
      /\ client'.frame = Ack(p, client'.frame.block)
  BY TakesFields, ZenonT(30) DEF Remaining
<1>2. p \in Sessions /\ TurnWith(p) /\ ClientsTurn(p) /\ f = LastPacket(p, server[p])
  BY <1>1, OnlyPacket, ZenonT(30)
<1>3. /\ StoredBefore(p) /\ ~Requested /\ Transfers(client.kind) = {p} /\ server[p].kind = client.kind
      /\ Packets(p) = {f}
  BY <1>2, ZenonT(30) DEF TurnWith, ClientsTurn, Transfers
<1>4. b \in Nat \ {0} /\ n \in Nat /\ b <= deployment.block /\ deployment.block \in Nat
  BY <1>2, SessionFacts, DeploymentFacts, ZenonT(30) DEF WireInv, TypeOK
<1>5. /\ ~Asking' /\ ~Requested' /\ (Transfers(client.kind) = {p})' /\ Packets(p)' = {}
  <2>1. ~Asking'
    BY <1>1, FramesDiffer DEF Asking
  <2>2. ~Requested'
    BY <1>1, <1>3, ZenonT(30) DEF Requested
  <2>3. Packets(p)' = {}
    BY <1>1, <1>3, ZenonT(30) DEF Packets
  <2> QED
    BY <1>1, <1>3, <2>1, <2>2, <2>3, ZenonT(30) DEF Transfers, Sessions
<1>6. client \in ClientType /\ client.guard \in GuardType
  BY ZenonT(30) DEF WireInv, TypeOK, ClientType
<1>7. CASE n = 0
  <2>1. f.type = "oack" /\ f.size = b
    BY <1>2, <1>7, LastPacketFields
  <2>2. TakesOack(f)
    BY <2>1, ZenonT(30) DEF Takes, Repeats, TakesData
  <2>3. Acknowledges(f, 0, GuardOack(f), "receive")
    BY <2>2, GuardOackFields, ZenonT(30)
  <2>4. client'.guard = GuardOack(f) /\ client'.frame = Ack(p, 0) /\ client'.then = "receive"
    BY <1>6, <2>3, ZenonT(30) DEF Acknowledges, ClientType
  <2>5. client.guard = FreshGuard(deployment.block)
    BY <1>2, <1>7, ZenonT(30) DEF ClientsTurn, Fresh
  <2>6. /\ client'.guard.block = b /\ client'.guard.options = TRUE
        /\ client'.guard.packets = 1 /\ client'.guard.received = 0
        /\ client'.guard.expected = 1 /\ client'.guard.complete = FALSE
    BY <2>1, <2>4, <2>5 DEF GuardOack, FreshGuard
  <2>7. Offset(b, 1) = 0
    BY <1>4, Blocks, ZenonT(30)
  <2>8. StoredBefore(p)'
    BY <1>4, <2>6, <2>7 DEF StoredBefore, Offset
  <2>9. ServersTurn(p)'
    BY <1>1, <1>5, <1>7, <2>4, <2>6 DEF ServersTurn
  <2>10. TurnWith(p)'
    BY <1>5, <2>8, <2>9, ZenonT(30) DEF TurnWith
  <2> QED
    BY <1>2, <2>10, ZenonT(30) DEF Turn, Sessions
<1>8. CASE n # 0
  <2>1. f.type = "data" /\ f.block = n /\ f.size = Length(server[p], n)
    BY <1>2, <1>8, LastPacketFields
  <2>2. client.guard.expected = n
    BY <1>2, <1>8, ZenonT(30) DEF ClientsTurn
  <2>3. TakesData(f)
    BY <1>4, <2>1, <2>2 DEF Takes, Repeats, TakesOack
  <2>4. Acknowledges(f, n, GuardData(f), IF f.size < client.guard.block THEN "finish" ELSE "receive")
    BY <2>1, <2>3, GuardDataFields, ZenonT(30)
  <2>5. /\ client'.guard = GuardData(f) /\ client'.frame = Ack(p, n)
        /\ client'.then = IF f.size < client.guard.block THEN "finish" ELSE "receive"
    BY <1>6, <2>4, ZenonT(30) DEF Acknowledges, ClientType
  <2>6. /\ client.guard.received = Offset(b, n) /\ client.guard.packets <= n
        /\ client.guard.block >= b
    BY <1>3, <2>2, ZenonT(30) DEF StoredBefore
  <2>7. /\ client'.guard.options = TRUE /\ client'.guard.block = client.guard.block
        /\ client'.guard.packets = client.guard.packets + 1
        /\ client'.guard.received = Offset(b, n) + f.size
        /\ client'.guard.expected = n + 1
        /\ client'.guard.complete = (f.size < client.guard.block)
    BY <2>2, <2>3, <2>5, <2>6, GuardDataFields, ZenonT(30)
  <2>8. n \in 1 .. n /\ n \in Nat \ {0}
    BY <1>4, <1>8
  <2>9. /\ Offset(b, n) \in Nat /\ Left(server[p], n) \in Nat /\ f.size \in 0 .. b
    BY <1>2, <2>1, <2>8, BlockFits, ZenonT(30)
  <2>10. Offset(b, 1) = 0 /\ Offset(b, n + 1) = Offset(b, n) + b /\ (n > 1 => Offset(b, n) >= b)
    BY <1>4, <2>8, Blocks, ZenonT(30)
  <2>11. client.guard.block \in Nat /\ client.guard.packets \in Nat
    BY <1>6, ZenonT(30) DEF GuardType
  <2>12. CASE f.size < client.guard.block
    <3>1. Size(client.kind) \in Nat /\ Size(client.kind) > 0
      BY FetchableFits, Zenon
    <3>2. client'.guard.received # 0
      <4>1. CASE n = 1
        <5>1. Left(server[p], n) = Size(client.kind) - 0
          BY <1>3, <2>10, <4>1, Zenon DEF Left
        <5>2. Length(server[p], n) \in {Size(client.kind) - 0, b}
          BY <5>1, Zenon DEF Length
        <5>3. \A x \in {Size(client.kind) - 0, b} : 0 + x # 0
          BY <1>4, <3>1
        <5>4. client'.guard.received = 0 + Length(server[p], n)
          BY <2>1, <2>7, <2>10, <4>1, Zenon
        <5> QED
          BY <5>2, <5>3, <5>4, Zenon
      <4>2. CASE n # 1
        BY <1>4, <2>7, <2>8, <2>9, <2>10, <4>2
      <4> QED
        BY <4>1, <4>2, ZenonT(30)
    <3>3. TurnToFinish'
      BY <1>1, <2>5, <2>7, <2>12, <3>2, ZenonT(30) DEF TurnToFinish
    <3> QED
      BY <3>3, ZenonT(30) DEF Turn
  <2>13. CASE ~(f.size < client.guard.block)
    <3>1. client.guard.block = b /\ f.size = b
      BY <1>4, <2>6, <2>9, <2>11, <2>13
    <3>2. client'.then = "receive" /\ ~client'.guard.complete
      BY <2>5, <2>7, <2>13, ZenonT(30)
    <3>3. client'.guard.received = Offset(b, n + 1) /\ client'.guard.packets <= n + 1
      <4>1. client'.guard.received = Offset(b, n + 1)
        BY <2>7, <2>10, <3>1, Zenon
      <4>2. \A x \in Nat : x <= n => x + 1 <= n + 1
        BY <1>4
      <4> QED
        BY <2>6, <2>7, <2>11, <4>1, <4>2, Zenon
    <3>4. StoredBefore(p)'
      BY <1>4, <2>7, <3>1, <3>2, <3>3 DEF StoredBefore, Offset
    <3>5. ServersTurn(p)'
      BY <1>1, <1>5, <2>5, <2>7, <3>2, ZenonT(30) DEF ServersTurn
    <3>6. TurnWith(p)'
      BY <1>5, <3>4, <3>5, ZenonT(30) DEF TurnWith
    <3> QED
      BY <1>2, <3>6, ZenonT(30) DEF Turn, Sessions
  <2> QED
    BY <2>12, <2>13, ZenonT(30)
<1> QED
  BY <1>7, <1>8, ZenonT(30)

\* The fetch of an object starts, with the first request for it.
LEMMA TurnStarts ==
    ASSUME WireInv, RequestInv, Starts, Active', UNCHANGED <<deployment, server>>
    PROVE  Turn'
<1>1. client' = BeginAttempt(client, 0) /\ client.pc = "idle" /\ net' = net
  BY ZenonT(30) DEF Starts
<1>2. /\ client'.kind = client.kind /\ client'.port = 0
      /\ client'.pc = IF deployment.backend = "snp" THEN "transmit" ELSE "probe"
      /\ client'.guard = FreshGuard(deployment.block)
      /\ client'.frame \in {ArpRequest, Rrq(client.kind)}
      /\ client'.then \in {"arp", "receive"}
      /\ client'.then = "arp" <=> client'.frame = ArpRequest
  BY <1>1, StartFields, ZenonT(30) DEF WireInv
<1>3. client'.pc = "transmit"
  BY <1>2, ZenonT(30) DEF Active
<1>4. client.kind \in Nat
  BY DeploymentAssumption DEF WireInv, TypeOK, ClientType, Kinds
<1>5. ~Behind(client.kind)
  BY <1>1, <1>4 DEF Behind
<1>6. ~Requested' /\ (Transfers(client.kind) = {})'
  BY <1>1, <1>2, <1>5, ZenonT(30) DEF Requested, Transfers, RequestInv, Sessions
<1>7. Asking' /\ Fresh'
  BY <1>2, <1>3, ZenonT(30) DEF Asking, Fresh
<1>8. TurnToAsk'
  BY <1>2, <1>6, <1>7, ZenonT(30) DEF TurnToAsk
<1> QED
  BY <1>8, ZenonT(30) DEF Turn

\* Only the deployment decides what can be fetched.
LEMMA FetchableStays ==
    ASSUME UNCHANGED deployment, NEW k
    PROVE  Fetchable(k)' <=> Fetchable(k)
  BY ZenonT(30) DEF Fetchable, PxeHasTime, AttemptDeadline

LEMMA TurnMoves ==
    ASSUME WireInv, BufferInv, ExactInv, TurnInv, UNCHANGED <<deployment, server>>, Moves
    PROVE  TurnInv'
<1>1. disturbed' = TRUE \/ disturbed' = disturbed
  BY ZenonT(30) DEF Moves, Waits, Drops, Starts, TooSmall, Sends, GoesOn, Succeeds, HearsArp, Probes,
         Reads, Takes
<1> SUFFICES ASSUME ~disturbed' PROVE TurnInv'
  BY ZenonT(30) DEF TurnInv
<1>16. disturbed' # TRUE
  BY ZenonT(30)
<1>2. ~disturbed /\ disturbed' # TRUE
  BY <1>1, <1>16, ZenonT(30)
<1>3. /\ deployment.reliable /\ \A f \in net : f.type # "error"
      /\ \A k \in Kinds : receipt[k].status \notin {"none", "ok"} => ~Fetchable(k)
      /\ Active => deployment.maximum <= deployment.capacity
      /\ client.pc \in {"probe", "read"} => PxeHasTime
      /\ Active /\ Fetchable(client.kind) => Turn
  BY <1>2, ZenonT(30) DEF TurnInv
<1>4. BackendInv /\ RequestInv /\ client \in ClientType /\ client.kind \in Kinds /\ TypeOK
  BY ZenonT(30) DEF ExactInv, WireInv, TypeOK, ClientType
<1>5. \A k : Fetchable(k)' <=> Fetchable(k)
  BY FetchableStays, ZenonT(30)
<1>6. PxeHasTime' <=> PxeHasTime
  BY ZenonT(30) DEF PxeHasTime, AttemptDeadline
<1>7. client.frame.type # "error"
  <2>1. IsRequest(client.frame) \/ client.frame.type = "ack"
    BY ZenonT(30) DEF WireInv, NetInv, IsAck
  <2> QED
    BY <2>1, FramesDiffer, ZenonT(30) DEF IsRequest
<1>8. ASSUME net' \subseteq net \cup {client.frame},
             \A k \in Kinds : receipt'[k].status \notin {"none", "ok"} => ~Fetchable(k),
             Active' => deployment.maximum <= deployment.capacity,
             client'.pc \in {"probe", "read"} => PxeHasTime,
             Active' /\ Fetchable(client'.kind) => Turn'
      PROVE  TurnInv'
  <2>1. Fetchable(client.kind)' <=> Fetchable(client'.kind)
    BY ZenonT(30) DEF Fetchable, PxeHasTime, AttemptDeadline
  <2> QED
    BY <1>3, <1>5, <1>6, <1>7, <1>8, <2>1, ZenonT(30) DEF TurnInv
<1>9. CASE Waits \/ GoesOn \/ Sends
  <2>1. Steady
    BY <1>9, SteadyMoves, ZenonT(30)
  <2>2. net' \subseteq net \cup {client.frame}
    BY <1>9, ZenonT(30) DEF Waits, GoesOn, Sends
  <2>3. Turn => Turn'
    BY <1>9, TurnWaits, TurnSends, ZenonT(30)
  <2> QED
    BY <1>3, <1>8, <2>1, <2>2, <2>3, ZenonT(30) DEF Steady
<1>10. CASE HearsArp
  <2>1. /\ Active /\ client'.kind = client.kind /\ client'.pc = "transmit" /\ receipt' = receipt
        /\ net' \subseteq net
    BY <1>4, <1>10, ZenonT(30) DEF HearsArp, ClientType, Active
  <2>2. Turn => Turn'
    BY <1>10, TurnHearsArp, ZenonT(30)
  <2> QED
    BY <1>3, <1>8, <2>1, <2>2, ZenonT(30)
<1>11. CASE Probes
  <2>1. client.pc = "probe" /\ client'.pc = "read" /\ receipt' = receipt /\ net' = net
    BY <1>4, <1>11, ZenonT(30) DEF Probes, ClientType
  <2> QED
    BY <1>3, <1>8, <2>1, ZenonT(30) DEF Active
<1>12. ASSUME NEW f \in net, Takes(f) PROVE TurnInv'
  <2>1. /\ Active /\ client'.kind = client.kind /\ client'.pc = "transmit" /\ receipt' = receipt
        /\ net' \subseteq net
    BY <1>12, TakesFields, ZenonT(30) DEF Active, Remaining
  <2>2. Turn /\ Fetchable(client.kind) => Turn'
    BY <1>3, <1>4, <1>12, TurnTakes, ZenonT(30)
  <2> QED
    BY <1>3, <1>8, <2>1, <2>2, ZenonT(30)
<1>13. CASE Begins /\ Starts
  <2>1. /\ client' = BeginAttempt(client, 0) /\ receipt' = receipt /\ net' = net
        /\ deployment.maximum <= deployment.capacity
        /\ deployment.backend = "pxe" => PxeHasTime
    BY <1>13, ZenonT(30) DEF Starts
  <2>2. client'.pc = IF deployment.backend = "snp" THEN "transmit" ELSE "probe"
    BY <1>4, <2>1, StartFields, ZenonT(30)
  <2>3. deployment.backend \in {"snp", "pxe"}
    BY <1>4, DeploymentFacts, ZenonT(30) DEF TypeOK
  <2>4. Active' => Turn'
    BY <1>4, <1>13, TurnStarts, ZenonT(30)
  <2> QED
    BY <1>3, <1>8, <2>1, <2>2, <2>3, <2>4, ZenonT(30) DEF Active
<1>14. CASE Ends("ok")
  <2>1. \A k \in Kinds : receipt'[k].status \notin {"none", "ok"} => ~Fetchable(k)
    BY <1>3, <1>14, ZenonT(30) DEF Ends
  <2> QED
    BY <1>8, <1>14, <2>1, ZenonT(30) DEF Ends, Active
<1>15. ASSUME NEW status, Ends(status), Blamed \/ TooSmall PROVE TurnInv'
  <2>1. ~Fetchable(client.kind)
    <3>1. CASE Blamed
      BY <1>2, <1>4, <3>1, BlamedIsReason, ZenonT(30)
    <3>2. CASE TooSmall
      <4>1. deployment.maximum \in Nat /\ deployment.capacity \in Nat
        <5>1. deployment.maximum \in 1 .. MaxBytes /\ deployment.capacity \in 1 .. MaxBytes
          BY <1>4, DeploymentFacts, ZenonT(30) DEF TypeOK
        <5> QED
          BY <5>1
      <4> QED
        BY <3>2, <4>1 DEF TooSmall, Fetchable
    <3> QED
      BY <1>15, <3>1, <3>2, ZenonT(30)
  <2>2. \A k \in Kinds : receipt'[k].status \notin {"none", "ok"} => ~Fetchable(k)
    BY <1>3, <1>15, <2>1, ZenonT(30) DEF Ends
  <2> QED
    BY <1>8, <1>15, <2>2, ZenonT(30) DEF Ends, Active
<1> QED
  BY <1>2, <1>9, <1>10, <1>11, <1>12, <1>13, <1>14, <1>15, MoveEffects, ZenonT(30) DEF Effects

\* The server does something else.
LEMMA TurnElsewhere ==
    ASSUME Turn, UNCHANGED <<deployment, client>>, Sessions \subseteq Sessions',
           Requested' <=> Requested, Transfers(client.kind)' = Transfers(client.kind),
           \A p \in Transfers(client.kind) : server'[p] = server[p] /\ Packets(p)' = Packets(p)
    PROVE  Turn'
<1>1. (Asking' <=> Asking) /\ (Fresh' <=> Fresh) /\ (Listening' <=> Listening)
  BY ZenonT(30) DEF Asking, Fresh, Listening
<1>2. CASE TurnToAsk
  BY <1>1, <1>2, ZenonT(30) DEF TurnToAsk, Turn
<1>3. CASE TurnToWait
  BY <1>1, <1>3, ZenonT(30) DEF TurnToWait, Turn
<1>4. ASSUME NEW p \in Sessions, TurnWith(p) PROVE TurnWith(p)'
  <2>1. p \in Transfers(client.kind) /\ server'[p] = server[p] /\ Packets(p)' = Packets(p)
    BY <1>4, ZenonT(30) DEF TurnWith
  <2>2. StoredBefore(p)'
    BY <1>4, <2>1, ZenonT(30) DEF TurnWith, StoredBefore, Offset
  <2>3. ServersTurn(p) => ServersTurn(p)'
    BY <2>1, ZenonT(30) DEF ServersTurn
  <2>4. LastPacket(p, server[p])' = LastPacket(p, server[p])
    BY <2>1, ZenonT(30) DEF LastPacket, ServerData
  <2>5. ClientsTurn(p) => ClientsTurn(p)'
    BY <1>1, <2>1, <2>4, ZenonT(30) DEF ClientsTurn
  <2> QED
    BY <1>1, <1>4, <2>2, <2>3, <2>5, ZenonT(30) DEF TurnWith
<1>5. CASE TurnToFinish
  BY <1>5, ZenonT(30) DEF TurnToFinish, Turn
<1> QED
  BY <1>2, <1>3, <1>4, <1>5, ZenonT(30) DEF Turn

\* A transfer of the client's object starts.
LEMMA TurnOpens ==
    ASSUME WireInv, Turn, UNCHANGED <<deployment, client, staging, receipt>>, deployment.reliable,
           NEW f \in net, NEW p \in 1 .. MaxSessions, NEW s \in SessionType,
           Serves(f, p, s), Opens(f, p, s)
    PROVE  Turn'
<1>1. /\ net' = (net \ {f}) \cup {LastPacket(p, s)} /\ server'[p] = s
      /\ \A q \in Sessions \ {p} : server'[q] = server[q]
      /\ f.type = "rrq" /\ s.kind = f.kind /\ Sessions = 1 .. p - 1 /\ Sessions' = 1 .. p
      /\ s.sent = IF deployment.negotiates THEN 0 ELSE 1
  BY ZenonT(30) DEF Serves, Opens, Remaining, Sessions
<1>2. p \notin Sessions /\ p \in Nat /\ Sessions' = Sessions \cup {p}
  <2>1. p \in Nat /\ p > 0
    BY DeploymentAssumption
  <2>2. 1 .. p = (1 .. p - 1) \cup {p} /\ p \notin 1 .. p - 1
    BY <2>1
  <2> QED
    BY <1>1, <2>1, <2>2, ZenonT(30)
<1>3. LastPacket(p, s).type \in {"oack", "data"} /\ LastPacket(p, s).port = p
  BY ZenonT(30) DEF LastPacket, Oack, ServerData, Data
<1>4. f = Rrq(f.kind)
  BY <1>1, FrameOrigin, ZenonT(30)
<1>5. \A g \in net : g.type \in {"oack", "data", "ack"} => g.port # p
  BY <1>2, FrameOrigin, ZenonT(30) DEF IsOack, IsData, IsAck
<1>6. CASE f.kind # client.kind
  <2>1. Requested' <=> Requested
    BY <1>1, <1>3, <1>6, ZenonT(30) DEF Requested
  <2>2. Transfers(client.kind)' = Transfers(client.kind)
    BY <1>1, <1>2, <1>6, ZenonT(30) DEF Transfers
  <2>3. ASSUME NEW q \in Transfers(client.kind)
        PROVE  server'[q] = server[q] /\ Packets(q)' = Packets(q)
    <3>1. q \in Sessions \ {p}
      BY <1>2, <2>3, ZenonT(30) DEF Transfers
    <3> QED
      BY <1>1, <1>3, <3>1, ZenonT(30) DEF Packets
  <2> QED
    BY <1>2, <2>1, <2>2, <2>3, TurnElsewhere, ZenonT(30)
<1>7. CASE f.kind = client.kind
  <2>1. Requested
    BY <1>1, <1>7, ZenonT(30) DEF Requested
  <2>2. CASE TurnToFinish
    BY <2>2, ZenonT(30) DEF TurnToFinish, Turn
  <2>3. CASE TurnToWait
    <3>1. /\ ~Asking /\ Fresh /\ Listening /\ Transfers(client.kind) = {}
          /\ client.guard = FreshGuard(deployment.block) /\ client.port = 0
      BY <2>3, ZenonT(30) DEF TurnToWait, Fresh
    <3>2. ~Asking' /\ Fresh' /\ Listening'
      BY <3>1, ZenonT(30) DEF Asking, Fresh, Listening
    <3>3. ~Requested'
      <4>1. \A g \in net : g.type = "rrq" /\ g.kind = client.kind => g = f
        BY <1>4, <1>7, FrameOrigin, ZenonT(30)
      <4> QED
        BY <1>1, <1>3, <4>1, ZenonT(30) DEF Requested
    <3>4. (Transfers(client.kind) = {p})'
      BY <1>1, <1>2, <1>7, <3>1 DEF Transfers
    <3>5. s.block \in Nat \ {0} /\ s.block <= deployment.block /\ deployment.block \in Nat
      <4>1. s.block \in deployment.offers
        BY ZenonT(30) DEF SessionType
      <4> QED
        BY <4>1, DeploymentFacts, ZenonT(30) DEF WireInv, TypeOK
    <3>6. StoredBefore(p)'
      <4>1. Offset(s.block, 1) = 0
        BY <3>5, Blocks, ZenonT(30)
      <4>2. /\ client.guard.block = deployment.block /\ client.guard.expected = 1
            /\ client.guard.packets = 0 /\ client.guard.received = 0
            /\ client.guard.complete = FALSE
        BY <3>1 DEF FreshGuard
      <4> QED
        BY <1>1, <3>5, <4>1, <4>2 DEF StoredBefore, Offset
    <3>7. Packets(p)' = {LastPacket(p, s)}
      BY <1>1, <1>3, <1>5, ZenonT(30) DEF Packets
    <3>8. LastPacket(p, s)' = LastPacket(p, s)
      BY ZenonT(30) DEF LastPacket, ServerData
    <3>9. client.guard.expected = 1
      BY <3>1 DEF FreshGuard
    <3>10. ClientsTurn(p)'
      <4>1. LastPacket(p, server[p])' = LastPacket(p, s)'
        BY <1>1, ZenonT(30) DEF LastPacket, ServerData
      <4>2. IF server'[p].sent = 0 THEN Fresh' ELSE client.guard.expected = server'[p].sent
        BY <1>1, <3>2, <3>9, ZenonT(30)
      <4> QED
        BY <3>1, <3>2, <3>7, <3>8, <4>1, <4>2, ZenonT(30) DEF ClientsTurn
    <3>11. TurnWith(p)'
      BY <3>2, <3>3, <3>4, <3>6, <3>10, ZenonT(30) DEF TurnWith
    <3> QED
      BY <1>2, <3>11, ZenonT(30) DEF Turn
  <2> QED
    BY <2>1, <2>2, <2>3, ZenonT(30) DEF Turn, TurnToAsk, TurnWith
<1> QED
  BY <1>6, <1>7, ZenonT(30)

\* A transfer goes on.
LEMMA TurnContinues ==
    ASSUME WireInv, Turn, UNCHANGED <<deployment, client, staging, receipt>>, deployment.reliable,
           NEW f \in net, NEW p \in 1 .. MaxSessions, NEW s \in SessionType,
           Serves(f, p, s), Continues(f, p, s)
    PROVE  Turn'
<1>1. /\ net' = (net \ {f}) \cup {LastPacket(p, s)} /\ server'[p] = s
      /\ \A q \in Sessions \ {p} : server'[q] = server[q]
      /\ f = Ack(p, server[p].sent) /\ p \in Sessions /\ Sessions' = Sessions
      /\ s = [server[p] EXCEPT !.sent = @ + 1]
  BY ZenonT(30) DEF Serves, Continues, Remaining, Sessions
<1>2. f.type = "ack" /\ f.port = p
  BY <1>1, FramesDiffer
<1>3. LastPacket(p, s).type \in {"oack", "data"} /\ LastPacket(p, s).port = p
  BY ZenonT(30) DEF LastPacket, Oack, ServerData, Data
<1>4. server[p].sent \in Nat /\ s.kind = server[p].kind /\ s.block = server[p].block
      /\ s.sent = server[p].sent + 1
  <2>1. server[p] \in SessionType /\ server[p].sent \in Nat
    BY <1>1, SessionFacts, ZenonT(30) DEF WireInv, ServerInv, SessionType
  <2> QED
    BY <1>1, <2>1, ZenonT(30) DEF SessionType
<1>5. Requested' <=> Requested
  BY <1>1, <1>2, <1>3, ZenonT(30) DEF Requested
<1>6. Transfers(client.kind)' = Transfers(client.kind)
  BY <1>1, <1>4, ZenonT(30) DEF Transfers
<1>7. CASE p \notin Transfers(client.kind)
  <2>1. ASSUME NEW q \in Transfers(client.kind)
        PROVE  server'[q] = server[q] /\ Packets(q)' = Packets(q)
    <3>1. q \in Sessions \ {p}
      BY <1>7, <2>1, ZenonT(30) DEF Transfers
    <3> QED
      BY <1>1, <1>2, <1>3, <3>1, ZenonT(30) DEF Packets
  <2> QED
    BY <1>1, <1>5, <1>6, <2>1, TurnElsewhere, ZenonT(30)
<1>8. CASE p \in Transfers(client.kind)
  <2>1. CASE TurnToFinish
    BY <2>1, ZenonT(30) DEF TurnToFinish, Turn
  <2>2. CASE \E q \in Sessions : TurnWith(q)
    <3>1. TurnWith(p)
      BY <1>8, <2>2, ZenonT(30) DEF TurnWith
    <3>2. f \in Packets(p)
      BY <1>2, ZenonT(30) DEF Packets
    <3>3. ~ClientsTurn(p)
      <4>1. LastPacket(p, server[p]).type \in {"oack", "data"}
        BY ZenonT(30) DEF LastPacket, Oack, ServerData, Data
      <4> QED
        BY <1>2, <3>2, <4>1, ZenonT(30) DEF ClientsTurn
    <3>4. /\ ServersTurn(p) /\ StoredBefore(p) /\ ~Asking /\ ~Requested
          /\ Transfers(client.kind) = {p}
      BY <3>1, <3>3, ZenonT(30) DEF TurnWith
    <3>5. /\ Packets(p) = {f} /\ client.pc \in {"recycle", "receive"} /\ client.then = "receive"
          /\ client.port = p /\ client.guard.expected = server[p].sent + 1
      BY <1>1, <3>2, <3>4, ZenonT(30) DEF ServersTurn
    <3>6. Packets(p)' = {LastPacket(p, s)}
      BY <1>1, <1>2, <1>3, <3>5, ZenonT(30) DEF Packets
    <3>7. LastPacket(p, server[p])' = LastPacket(p, s)
      BY <1>1, ZenonT(30) DEF LastPacket, ServerData
    <3>8. server'[p].sent # 0 /\ client.guard.expected = server'[p].sent
      BY <1>1, <1>4, <3>5
    <3>9. ClientsTurn(p)'
      BY <3>5, <3>6, <3>7, <3>8, ZenonT(30) DEF ClientsTurn, Listening
    <3>10. StoredBefore(p)'
      BY <1>1, <1>4, <3>4, ZenonT(30) DEF StoredBefore, Offset
    <3>11. ~Asking'
      BY <3>4, ZenonT(30) DEF Asking
    <3>12. TurnWith(p)'
      BY <1>5, <1>6, <3>4, <3>9, <3>10, <3>11, ZenonT(30) DEF TurnWith
    <3> QED
      BY <1>1, <3>12, ZenonT(30) DEF Turn
  <2> QED
    BY <1>8, <2>1, <2>2, ZenonT(30) DEF Turn, TurnToAsk, TurnToWait
<1> QED
  BY <1>7, <1>8, ZenonT(30)

LEMMA TurnServer ==
    ASSUME WireInv, TurnInv, UNCHANGED <<deployment, client, staging, receipt>>, ServerMoves
    PROVE  TurnInv'
<1>1. ServerEffects
  BY ServerMoveEffects, ZenonT(30)
<1>2. CASE ServerArp
  <2>1. /\ server' = server /\ disturbed' = disturbed
        /\ net' = Remaining(ArpRequest) \cup {ArpReply} /\ ArpReply.type = "arp_reply"
    BY <1>2, ZenonT(30) DEF ServerArp, ArpReply
  <2>2. \A f : f.type \in {"rrq", "oack", "data", "ack", "error"} => (f \in net' <=> f \in net)
    BY <2>1, FramesDiffer, ZenonT(30) DEF Remaining
  <2>3. Requested' <=> Requested
    BY <2>2 DEF Requested
  <2>4. \A p : Packets(p)' = Packets(p) /\ Transfers(p)' = Transfers(p)
    BY <2>1, <2>2 DEF Packets, Transfers, Sessions
  <2>5. Sessions' = Sessions
    BY <2>1, ZenonT(30) DEF Sessions
  <2>6. Turn => Turn'
    BY <2>1, <2>3, <2>4, <2>5, TurnElsewhere, ZenonT(30)
  <2>7. (\A f \in net : f.type # "error") => (\A f \in net' : f.type # "error")
    BY <2>2
  <2> QED
    BY <2>1, <2>6, <2>7, ZenonT(30) DEF TurnInv, Active, Fetchable, PxeHasTime, AttemptDeadline
<1>3. ASSUME NEW f \in net, ServerRefuse(f) PROVE TurnInv'
  BY <1>3, ZenonT(30) DEF ServerRefuse, TurnInv
<1>4. ASSUME NEW f \in net, NEW p \in 1 .. MaxSessions, NEW s \in SessionType, Serves(f, p, s)
      PROVE  TurnInv'
  <2>1. /\ disturbed' = disturbed /\ net' = Remaining(f) \cup {LastPacket(p, s)}
        /\ Opens(f, p, s) \/ Continues(f, p, s)
    BY <1>4, ZenonT(30) DEF Serves, Opens, Continues
  <2>2. LastPacket(p, s).type # "error"
    BY ZenonT(30) DEF LastPacket, Oack, ServerData, Data
  <2>3. (\A g \in net : g.type # "error") => (\A g \in net' : g.type # "error")
    BY <2>1, <2>2, ZenonT(30) DEF Remaining
  <2>4. Turn /\ deployment.reliable => Turn'
    BY <1>4, <2>1, TurnOpens, TurnContinues, ZenonT(30)
  <2> QED
    BY <2>1, <2>3, <2>4, ZenonT(30) DEF TurnInv, Active, Fetchable, PxeHasTime, AttemptDeadline
<1> QED
  BY <1>2, <1>3, <1>4, ZenonT(30) DEF ServerMoves

-----------------------------------------------------------------------------
(* The fetch.                                                              *)

FetchInv == WireInv /\ BufferInv /\ ExactInv /\ TurnInv

LEMMA FetchInitHolds == Init => FetchInv
<1> SUFFICES ASSUME Init PROVE FetchInv
  BY ZenonT(30)
<1>1. WireInv /\ BufferInv
  BY WireInitHolds, ZenonT(30)
<1>2. Sessions = {} /\ client.pc = "idle" /\ net = {} /\ receipt = [k \in Kinds |-> NoReceipt]
  BY ZenonT(30) DEF Init, Sessions
<1>3. ExactInv
  <2>1. BackendInv /\ RequestInv /\ ProgressInv /\ OneAttemptInv
    BY <1>2, ZenonT(30) DEF BackendInv, RequestInv, ProgressInv, OneAttemptInv, Active
  <2>2. ExactReceipt
    BY <1>2, ZenonT(30) DEF ExactReceipt, NoReceipt
  <2> QED
    BY <2>1, <2>2, ZenonT(30) DEF ExactInv
<1>4. TurnInv
  <2>1. ~disturbed => deployment.reliable
    BY DeploymentFacts, ZenonT(30) DEF Init
  <2>2. \A k \in Kinds : receipt[k].status = "none"
    BY <1>2, ZenonT(30) DEF NoReceipt
  <2> QED
    BY <1>2, <2>1, <2>2, ZenonT(30) DEF TurnInv, Active
<1> QED
  BY <1>1, <1>3, <1>4, ZenonT(30) DEF FetchInv

LEMMA FetchStays == ASSUME FetchInv, UNCHANGED vars PROVE FetchInv'
<1>1. WireInv' /\ BufferInv'
  BY WireNextHolds, ZenonT(30) DEF FetchInv
<1>2. ExactInv'
  <2>1. UNCHANGED <<deployment, client, staging, receipt>> /\ ServerEffects
    BY ZenonT(30) DEF vars, ServerEffects, Sessions
  <2> QED
    BY <2>1, ExactServer, ZenonT(30) DEF FetchInv
<1>3. TurnInv'
  <2>1. /\ UNCHANGED <<deployment, client, receipt, server, net, disturbed>>
        /\ Sessions' = Sessions /\ (Requested' <=> Requested)
        /\ \A p : Packets(p)' = Packets(p) /\ Transfers(p)' = Transfers(p)
    BY ZenonT(30) DEF vars, Sessions, Requested, Packets, Transfers
  <2>2. Turn => Turn'
    BY <2>1, TurnElsewhere, ZenonT(30)
  <2> QED
    BY <2>1, <2>2, ZenonT(30) DEF FetchInv, TurnInv, Active, Fetchable, PxeHasTime, AttemptDeadline
<1> QED
  BY <1>1, <1>2, <1>3, ZenonT(30) DEF FetchInv

LEMMA FetchNextHolds == ASSUME FetchInv, [Next]_vars PROVE FetchInv'
<1>1. WireInv /\ BufferInv /\ ExactInv /\ TurnInv
  BY ZenonT(30) DEF FetchInv
<1>2. CASE Client
  <2>1. Moves /\ UNCHANGED <<deployment, server>>
    BY <1>1, <1>2, ClientMoves, ZenonT(30)
  <2> QED
    BY <1>1, <2>1, MovesWire, BufferMoves, ExactMoves, TurnMoves, ZenonT(30) DEF FetchInv
<1>3. CASE Server
  <2>1. ServerMoves /\ UNCHANGED <<deployment, client, staging, receipt>>
    BY <1>1, <1>3, ServerMovesAll, ZenonT(30)
  <2>2. BufferInv'
    BY <1>1, <2>1, ZenonT(30) DEF BufferInv
  <2> QED
    BY <1>1, <2>1, <2>2, ServerWire, ServerMoveEffects, ExactServer, TurnServer, ZenonT(30) DEF FetchInv
<1> QED
  BY <1>2, <1>3, FetchStays, ZenonT(30) DEF Next, Done

LEMMA FetchInvariant == Spec => []FetchInv
  BY FetchInitHolds, FetchNextHolds, PTL DEF Spec

\* A fetch that returns OK has staged exactly the server's object, however
\* frames are lost, repeated, delayed or reordered and however often the gate
\* retries, when the guard starts with the block size of the server's DATA.
\* Otherwise it may not: a late DATA 1 of an earlier attempt that used a smaller
\* block reaches the next attempt on the same client port, before the OACK, and
\* is taken for the last block.
THEOREM FetchIsExact == Spec => [](SizesAgree => ExactReceipt)
<1>1. FetchInv => (SizesAgree => ExactReceipt)
  BY ZenonT(30) DEF FetchInv, ExactInv
<1> QED
  BY <1>1, FetchInvariant, PTL

\* A fetch of an object that the binding can carry fails only after a frame was
\* lost, repeated or refused, a firmware call failed or time ran out: whenever
\* nothing did, the guard takes what the server sends next.
THEOREM FailuresHaveReasons == Spec => []FailsForAReason
<1>1. FetchInv => FailsForAReason
  BY ZenonT(30) DEF FetchInv, TurnInv, FailsForAReason
<1> QED
  BY <1>1, FetchInvariant, PTL
=============================================================================
