---------------------------- MODULE RecoveryFetch ----------------------------
(***************************************************************************)
(* Fetching the update objects over the recovery network: the retry gate   *)
(* of src/common/net/recovery.c, the packet guard of src/common/net/tftp.c *)
(* and the Simple Network transport of                                     *)
(* src/environments/uefi-app/recovery_network.c, against a TFTP server on  *)
(* a network that loses, repeats, delays and reorders frames.              *)
(*                                                                         *)
(* Byte i of object k is the pair <<k, i>>, so that a byte of another      *)
(* object or at another offset is a different byte.                        *)
(***************************************************************************)
EXTENDS Integers

CONSTANTS
    ObjectCount,   \* RIBON_RECOVERY_NETWORK_OBJECT_COUNT
    LastBlock,     \* stands for UINT16_MAX
    MaxBytes,      \* bytes in a staging buffer
    MaxSessions,   \* transfers that the server can start
    PxeDeadline,   \* RIBON_UEFI_PXE_OPERATION_DEADLINE_MS
    Deployments    \* product bindings, each with the server it meets

Kinds == 1 .. ObjectCount

(***************************************************************************)
(* A deployment: block_size, retry_count, absolute_deadline_ms and         *)
(* maximum_bytes of the binding, the capacity of the caller's buffers, the *)
(* sizes of the objects on the server, the block sizes the server may      *)
(* choose, whether it answers the option or sends DATA at once, and        *)
(* whether the network delivers every frame exactly once, and the backend  *)
(* that ribon_uefi_recovery_network_open selected.                         *)
(***************************************************************************)
DeploymentType ==
    [block : Nat \ {0}, retries : Nat, deadline : Nat,
     maximum : 1 .. MaxBytes, capacity : 1 .. MaxBytes,
     objects : [Kinds -> Nat], offers : SUBSET (Nat \ {0}),
     negotiates : BOOLEAN, reliable : BOOLEAN, backend : {"snp", "pxe"}]

\* ribon_recovery_network_binding_validate
BindingIsValid(b) ==
    /\ b.deadline > b.retries
    /\ b.maximum < (LastBlock - 1) * b.block

ASSUME DeploymentAssumption ==
    /\ ObjectCount \in Nat \ {0}
    /\ LastBlock \in Nat \ {0, 1}
    /\ MaxBytes \in Nat \ {0}
    /\ MaxSessions \in Nat
    /\ PxeDeadline \in Nat
    /\ Deployments \subseteq DeploymentType
    /\ \A d \in Deployments :
           BindingIsValid(d) /\ d.offers # {} /\ \A b \in d.offers : b <= d.block

VARIABLES
    deployment,  \* the deployment of this boot
    client,      \* locals of fetch, snp_fetch_once and the guard
    staging,     \* the product's staging buffer of each object
    receipt,     \* status and size that fetch returned for each object
    server,      \* transfers started by the server, by transfer port
    net,         \* frames that can be received
    disturbed    \* the network may lose and repeat frames, or a firmware call
                 \* failed, or time ran out, or the server refused

vars == <<deployment, client, staging, receipt, server, net, disturbed>>

-----------------------------------------------------------------------------
Zero == <<0, 0>>
ZeroBuffer == [i \in 1 .. MaxBytes |-> Zero]

\* The bytes of object k, and zero after them
Whole(k) ==
    [i \in 1 .. MaxBytes |->
        IF i <= deployment.objects[k] THEN <<k, i>> ELSE Zero]

Max16 == LastBlock + 1
BlockNumber(n) == IF n < Max16 THEN n ELSE n - Max16

ArpRequest == [type |-> "arp_request"]
ArpReply == [type |-> "arp_reply"]
\* The client port of a request is 40000 + kind.
Rrq(kind) == [type |-> "rrq", kind |-> kind]
Ack(port, n) == [type |-> "ack", port |-> port, block |-> n]
Oack(port, kind, b) ==
    [type |-> "oack", port |-> port, kind |-> kind, size |-> b]
\* to: the client port; object, first: the bytes that the payload holds
Data(port, kind, n, first, size) ==
    [type |-> "data", port |-> port, kind |-> kind, block |-> BlockNumber(n),
     object |-> kind, first |-> first, size |-> size]
Refusal(port, kind) == [type |-> "error", port |-> port, kind |-> kind]

-----------------------------------------------------------------------------
(* The TFTP guard *)

\* ribon_tftp_guard_initialize
FreshGuard(block) ==
    [block |-> block, expected |-> 1, packets |-> 0, received |-> 0,
     options |-> FALSE, complete |-> FALSE]

\* Mutant: only the requested block size is accepted.
AcceptOackExact(g, f) ==
    IF g.options \/ g.expected # 1 \/ f.size # g.block
    THEN [status |-> "malformed", guard |-> g]
    ELSE [status |-> "ok",
          guard |-> [g EXCEPT !.options = TRUE, !.packets = @ + 1]]

\* accept_oack
AcceptOack(g, f) ==
    IF g.options \/ g.expected # 1 \/ f.size > g.block
    THEN [status |-> "malformed", guard |-> g]
    ELSE [status |-> "ok",
          guard |-> [g EXCEPT !.block = f.size, !.options = TRUE,
                              !.packets = @ + 1]]

\* The DATA part of ribon_tftp_guard_accept
AcceptData(g, f, maximum) ==
    IF f.size > g.block THEN [status |-> "malformed", guard |-> g]
    ELSE IF g.expected > 1 /\ f.block = g.expected - 1
    THEN [status |-> "duplicate", guard |-> g]
    ELSE IF f.block # g.expected \/ g.expected = LastBlock
    THEN [status |-> "out_of_order", guard |-> g]
    ELSE IF f.size > maximum - g.received
    THEN [status |-> "capacity", guard |-> g]
    ELSE [status |-> IF f.size < g.block THEN "complete" ELSE "ok",
          guard |-> [g EXCEPT !.options = TRUE, !.received = @ + f.size,
                              !.expected = BlockNumber(@ + 1),
                              !.packets = @ + 1,
                              !.complete = f.size < g.block]]

\* ribon_tftp_guard_accept
GuardAccept(g, f, maximum) ==
    IF g.complete \/ g.packets >= LastBlock
    THEN [status |-> "invalid", guard |-> g]
    ELSE CASE f.type = "oack"  -> AcceptOack(g, f)
           [] f.type = "data"  -> AcceptData(g, f, maximum)
           [] f.type = "error" -> [status |-> "remote_error", guard |-> g]

-----------------------------------------------------------------------------
(* The retry gate *)

\* memset of the first maximum_bytes of the buffer
Wiped(buffer) ==
    [i \in 1 .. MaxBytes |-> IF i <= deployment.maximum THEN Zero ELSE buffer[i]]

\* Result of a fetch call: its status and the bytes received.
NoReceipt == [status |-> "none", bytes |-> 0]
Statuses == {"none", "ok", "timeout", "io", "capacity", "unsupported",
             "malformed", "truncated", "invalid"}

\* The first frame of an attempt: resolve_server_mac sends nothing when the
\* address is known.
FirstFrame(c) == IF c.mac THEN Rrq(c.kind) ELSE ArpRequest

\* deadline_ms of a request
AttemptDeadline == deployment.deadline \div (deployment.retries + 1)

\* One turn of the loop of ribon_recovery_network_fetch, up to the first
\* firmware call of the transport.
BeginAttempt(c, attempt) ==
    [c EXCEPT !.pc = IF deployment.backend = "snp" THEN "transmit" ELSE "probe",
              !.attempt = attempt, !.ticks = AttemptDeadline, !.port = 0,
              !.guard = FreshGuard(deployment.block),
              !.frame = FirstFrame(c),
              !.then = IF c.mac THEN "receive" ELSE "arp"]

\* The fetch call returns; the product goes on with the next object after
\* an OK and gives up after anything else.
Return(status, bytes) ==
    /\ receipt' = [receipt EXCEPT ![client.kind] =
                       [status |-> status, bytes |-> bytes]]
    /\ client' = IF status = "ok" /\ client.kind < ObjectCount
                 THEN [client EXCEPT !.pc = "idle", !.kind = @ + 1]
                 ELSE [client EXCEPT !.pc = "done"]

\* Mutant: the buffer is wiped for another attempt only.
AttemptFailsUnwiped(status) ==
    IF status \in {"timeout", "io"} /\ client.attempt < deployment.retries
    THEN /\ staging' = [staging EXCEPT ![client.kind] = Wiped(@)]
         /\ client' = BeginAttempt(client, client.attempt + 1)
         /\ UNCHANGED receipt
    ELSE Return(status, 0) /\ UNCHANGED staging

\* An attempt ended with an error: wipe, and try again or return.
AttemptFails(status) ==
    /\ staging' = [staging EXCEPT ![client.kind] = Wiped(@)]
    /\ IF status \in {"timeout", "io"} /\ client.attempt < deployment.retries
       THEN /\ client' = BeginAttempt(client, client.attempt + 1)
            /\ UNCHANGED receipt
       ELSE Return(status, 0)

\* recovery_fetch_once refuses PXE when an attempt has no time for two calls.
PxeHasTime == AttemptDeadline >= 2 * PxeDeadline

\* ribon_recovery_network_fetch, called for the objects in order.
Fetch ==
    /\ client.pc = "idle"
    /\ IF deployment.maximum > deployment.capacity
       THEN /\ Return("capacity", 0)
            /\ UNCHANGED staging
       ELSE IF deployment.backend = "pxe" /\ ~PxeHasTime
       THEN AttemptFails("invalid")
       ELSE /\ client' = BeginAttempt(client, 0)
            /\ staging' = [staging EXCEPT ![client.kind] = Wiped(@)]
            /\ UNCHANGED receipt
    /\ UNCHANGED <<deployment, server, net, disturbed>>

-----------------------------------------------------------------------------
(* The Simple Network transport *)

\* fetch_status of an error of a firmware call
FirmwareStatuses == {"timeout", "capacity", "unsupported", "io"}

\* Mutant: the wait is not counted.
PollUncounted ==
    /\ client.ticks > 0
    /\ client' = [client EXCEPT !.ring = 1 - @]
    /\ UNCHANGED <<staging, receipt, disturbed>>

\* Mutant: the counter is not compared with zero.
PollUnderflows ==
    /\ client' = [client EXCEPT !.ticks = @ - 1]
    /\ UNCHANGED <<staging, receipt, disturbed>>

\* poll_stall when a tick is left and the stall succeeds
Poll ==
    /\ client.ticks > 0
    /\ client' = [client EXCEPT !.ticks = @ - 1]
    /\ UNCHANGED <<staging, receipt, disturbed>>

\* poll_stall fails: no tick is left, or the stall fails after taking one.
\* Its callers report either as a timeout.
PollFails ==
    /\ AttemptFails("timeout")
    /\ disturbed' = TRUE

FirmwareFails ==
    /\ \E status \in FirmwareStatuses : AttemptFails(status)
    /\ disturbed' = TRUE

\* snp_transmit: the firmware takes the frame ...
Transmit ==
    /\ client.pc = "transmit"
    /\ net' = net \cup {client.frame}
    /\ client' = [client EXCEPT !.pc = "recycle"]
    /\ UNCHANGED <<deployment, staging, receipt, server, disturbed>>

\* ... or is not ready ...
TransmitBusy ==
    /\ client.pc = "transmit"
    /\ Poll \/ PollFails
    /\ UNCHANGED <<deployment, server, net>>

\* ... or fails.
TransmitFails ==
    /\ client.pc = "transmit"
    /\ FirmwareFails
    /\ UNCHANGED <<deployment, server, net>>

\* After the last ACK snp_fetch_once returns, and the gate checks its receipt.
Finish ==
    IF client.guard.received = 0
    THEN AttemptFails("truncated")
    ELSE IF client.guard.received > deployment.maximum
    THEN /\ staging' = [staging EXCEPT ![client.kind] = Wiped(@)]
         /\ Return("malformed", 0)
    ELSE /\ Return("ok", client.guard.received)
         /\ UNCHANGED staging

\* snp_transmit: GetStatus returns the buffer.
Recycled ==
    /\ client.pc = "recycle"
    /\ IF client.then = "finish"
       THEN Finish
       ELSE /\ client' = [client EXCEPT !.pc = client.then]
            /\ UNCHANGED <<staging, receipt>>
    /\ UNCHANGED <<deployment, server, net, disturbed>>

\* GetStatus returns nothing: a poll, and a timeout when it took the last tick.
RecyclePoll ==
    /\ client.pc = "recycle"
    /\ (client.ticks # 1 /\ Poll) \/ PollFails
    /\ UNCHANGED <<deployment, server, net>>

RecycleFails ==
    /\ client.pc = "recycle"
    /\ FirmwareFails
    /\ UNCHANGED <<deployment, server, net>>

\* snp_receive finds no frame.
ReceiveNothing ==
    /\ client.pc \in {"arp", "receive"}
    /\ Poll \/ PollFails
    /\ UNCHANGED <<deployment, server, net>>

\* snp_receive fails, or returns a frame that is too short.
ReceiveFails ==
    /\ client.pc \in {"arp", "receive"}
    /\ FirmwareFails \/ (AttemptFails("malformed") /\ disturbed' = TRUE)
    /\ UNCHANGED <<deployment, server, net>>

\* A received frame is gone on a reliable network.  On any other it may be
\* received again at any time, or never: frames are lost by not being
\* received, and what a sender repeats is there already.
Remaining(f) == IF deployment.reliable THEN net \ {f} ELSE net

\* A frame that the loop does not look at: broadcast traffic, a frame of
\* another port or peer.  No tick is consumed.
ReceiveOther ==
    /\ client.pc \in {"arp", "receive"}
    /\ client' = [client EXCEPT !.ring = 1 - @]
    /\ UNCHANGED <<deployment, staging, receipt, server, net, disturbed>>

\* resolve_server_mac: the reply is followed by the request.
ReceiveArp ==
    /\ client.pc = "arp"
    /\ ArpReply \in net
    /\ net' = Remaining(ArpReply)
    /\ client' = [client EXCEPT !.mac = TRUE, !.pc = "transmit",
                                !.frame = Rrq(client.kind), !.then = "receive"]
    /\ UNCHANGED <<deployment, staging, receipt, server, disturbed>>

\* Mutant: one client port for all objects.
IsForClientAnyObject(c, f) ==
    /\ f.type \in {"oack", "data", "error"}
    /\ c.port # 0 => f.port = c.port

\* parse_udp: the frame is for this client port and, once the server's port
\* is locked, from it.
IsForClient(c, f) ==
    /\ f.type \in {"oack", "data", "error"}
    /\ f.kind = c.kind
    /\ c.port # 0 => f.port = c.port

Acknowledge(c, f, n) ==
    [c EXCEPT !.pc = "transmit", !.frame = Ack(f.port, n)]

\* memcpy of the payload to its offset
Store(buffer, offset, f) ==
    [i \in 1 .. MaxBytes |->
        IF i > offset /\ i <= offset + f.size
        THEN <<f.object, f.first + (i - offset - 1)>> ELSE buffer[i]]

\* snp_fetch_once: one accepted datagram.
ReceiveDatagram(f) ==
    LET c == [client EXCEPT !.port = f.port]
        offset == client.guard.received
        a == GuardAccept(client.guard, f, deployment.maximum)
        d == [c EXCEPT !.guard = a.guard]
    IN
    /\ client.pc = "receive"
    /\ f \in net
    /\ IsForClient(client, f)
    /\ net' = Remaining(f)
    /\ CASE a.status = "duplicate" ->
              /\ client' = [Acknowledge(c, f, f.block) EXCEPT !.then = "receive"]
              /\ UNCHANGED <<staging, receipt>>
         [] a.status = "capacity" -> AttemptFails("capacity")
         [] a.status \notin {"duplicate", "capacity", "ok", "complete"} ->
              AttemptFails("malformed")
         [] a.status \in {"ok", "complete"} /\ f.type = "oack" ->
              /\ client' = [Acknowledge(d, f, 0) EXCEPT !.then = "receive"]
              /\ UNCHANGED <<staging, receipt>>
         [] a.status \in {"ok", "complete"} /\ f.type = "data" ->
              IF offset + f.size > deployment.capacity
              THEN AttemptFails("capacity")
              ELSE /\ staging' = [staging EXCEPT ![client.kind] =
                                      Store(@, offset, f)]
                   /\ client' = [Acknowledge(d, f, f.block) EXCEPT
                                   !.then = IF a.status = "complete"
                                            THEN "finish" ELSE "receive"]
                   /\ UNCHANGED receipt
    /\ UNCHANGED <<deployment, server, disturbed>>

-----------------------------------------------------------------------------
(* The PXE Base Code transport *)

\* pxe_fetch_once, first call: the firmware reports the object's size, or
\* does not support the question, or fails.
PxeProbe ==
    /\ client.pc = "probe"
    /\ \/ LET size == deployment.objects[client.kind] IN
          /\ IF size = 0 \/ size > deployment.maximum \/ size > deployment.capacity
             THEN AttemptFails("capacity")
             ELSE /\ client' = [client EXCEPT !.pc = "read", !.probed = TRUE]
                  /\ UNCHANGED <<staging, receipt>>
          /\ UNCHANGED disturbed
       \/ /\ client' = [client EXCEPT !.pc = "read", !.probed = FALSE]
          /\ UNCHANGED <<staging, receipt, disturbed>>
       \/ FirmwareFails
    /\ UNCHANGED <<deployment, server, net>>

\* Second call: a read that succeeds has read the object, if the buffer is
\* large enough.  Bytes of a read that fails are wiped.
PxeRead ==
    /\ client.pc = "read"
    /\ \/ LET size == deployment.objects[client.kind] IN
          /\ IF size > deployment.maximum
             THEN AttemptFails("capacity")
             ELSE IF size = 0
             THEN AttemptFails("truncated")
             ELSE /\ staging' = [staging EXCEPT ![client.kind] = Whole(client.kind)]
                  /\ Return("ok", size)
          /\ UNCHANGED disturbed
       \/ FirmwareFails
       \* fewer bytes than the probe found
       \/ /\ client.probed
          /\ AttemptFails("truncated")
          /\ disturbed' = TRUE
    /\ UNCHANGED <<deployment, server, net>>

Client ==
    \/ Fetch \/ PxeProbe \/ PxeRead \/ Transmit \/ TransmitBusy \/ TransmitFails
    \/ Recycled \/ RecyclePoll \/ RecycleFails
    \/ ReceiveNothing \/ ReceiveFails \/ ReceiveOther \/ ReceiveArp
    \/ \E f \in net : ReceiveDatagram(f)

-----------------------------------------------------------------------------
(* The TFTP server, external to src/, and the network *)

Sessions == DOMAIN server

\* Block n of transfer p
ServerData(p, s, n) ==
    LET size == deployment.objects[s.kind]
        first == (n - 1) * s.block + 1
        left == size - (n - 1) * s.block
    IN  Data(p, s.kind, n, first,
             IF left < s.block THEN left ELSE s.block)

\* The packet that transfer p repeats until it is acknowledged
LastPacket(p, s) ==
    IF s.sent = 0 THEN Oack(p, s.kind, s.block) ELSE ServerData(p, s, s.sent)

\* Block n is the last one.
IsLast(s, n) == deployment.objects[s.kind] < n * s.block

ServerArp ==
    /\ ArpRequest \in net
    /\ net' = Remaining(ArpRequest) \cup {ArpReply}
    /\ UNCHANGED <<deployment, client, staging, receipt, server, disturbed>>

\* A request starts a transfer on a port of its own.
ServerStart(f) ==
    /\ f \in net
    /\ f.type = "rrq"
    /\ \E p \in 1 .. MaxSessions, b \in deployment.offers :
          LET s == [kind |-> f.kind, block |-> b,
                    sent |-> IF deployment.negotiates THEN 0 ELSE 1]
          IN  /\ Sessions = 1 .. p - 1
              /\ server' = [q \in 1 .. p |-> IF q = p THEN s ELSE server[q]]
              /\ net' = Remaining(f) \cup {LastPacket(p, s)}
    /\ UNCHANGED <<deployment, client, staging, receipt, disturbed>>

ServerRefuse(f) ==
    /\ f \in net
    /\ f.type = "rrq"
    /\ net' = Remaining(f) \cup {Refusal(MaxSessions + 1, f.kind)}
    /\ disturbed' = TRUE
    /\ UNCHANGED <<deployment, client, staging, receipt, server>>

\* An acknowledgement of the last packet moves the transfer on.
ServerNext(f) ==
    /\ f \in net
    /\ f.type = "ack"
    /\ f.port \in Sessions
    /\ LET s == server[f.port]
           t == [s EXCEPT !.sent = @ + 1]
       IN  /\ f.block = BlockNumber(s.sent)
           /\ s.sent > 0 => ~IsLast(s, s.sent)
           /\ server' = [server EXCEPT ![f.port] = t]
           /\ net' = Remaining(f) \cup {LastPacket(f.port, t)}
    /\ UNCHANGED <<deployment, client, staging, receipt, disturbed>>

Server ==
    \/ ServerArp
    \/ \E f \in net : ServerStart(f) \/ ServerRefuse(f) \/ ServerNext(f)

-----------------------------------------------------------------------------
Init ==
    /\ deployment \in Deployments
    /\ client = [pc |-> "idle", kind |-> 1, attempt |-> 0, ticks |-> 0,
                 port |-> 0, guard |-> FreshGuard(deployment.block),
                 frame |-> ArpRequest, then |-> "arp", mac |-> FALSE,
                 ring |-> 0, probed |-> FALSE]
    /\ staging = [k \in Kinds |-> ZeroBuffer]
    /\ receipt = [k \in Kinds |-> NoReceipt]
    /\ server = [p \in {} |-> 0]
    /\ net = {}
    /\ disturbed = ~deployment.reliable

\* The product stops after the last fetch.
Done == client.pc = "done" /\ UNCHANGED vars

Next == Client \/ Server \/ Done

Spec == Init /\ [][Next]_vars

\* The client is straight-line code around firmware calls that return.
Fairness == WF_vars(Client)

FairSpec == Spec /\ Fairness

-----------------------------------------------------------------------------
(* Properties *)

GuardType ==
    [block : Nat, expected : 0 .. LastBlock, packets : Nat,
     received : 0 .. MaxBytes, options : BOOLEAN, complete : BOOLEAN]

FrameType ==
    {ArpRequest, ArpReply}
    \cup [type : {"rrq"}, kind : Kinds]
    \cup [type : {"ack"}, port : 0 .. MaxSessions + 1, block : 0 .. LastBlock]
    \cup [type : {"oack"}, port : 1 .. MaxSessions, kind : Kinds, size : Nat]
    \cup [type : {"data"}, port : 1 .. MaxSessions, kind : Kinds,
          block : 0 .. LastBlock, object : Kinds, first : Nat, size : Nat]
    \cup [type : {"error"}, port : {MaxSessions + 1}, kind : Kinds]

ClientType ==
    [pc : {"idle", "probe", "read", "transmit", "recycle", "arp", "receive", "done"},
     kind : Kinds, attempt : Nat, ticks : Nat, port : 0 .. MaxSessions + 1,
     guard : GuardType, frame : FrameType, then : {"arp", "receive", "finish"},
     mac : BOOLEAN, ring : {0, 1}, probed : BOOLEAN]

Bytes == {Zero} \cup (Kinds \X Nat)

\* The variables have their types.
TypeOK ==
    /\ deployment \in Deployments
    /\ client \in ClientType
    /\ staging \in [Kinds -> [1 .. MaxBytes -> Bytes]]
    /\ receipt \in [Kinds -> [status : Statuses, bytes : 0 .. MaxBytes]]
    /\ DOMAIN server \subseteq 1 .. MaxSessions
    /\ \A p \in Sessions :
           server[p] \in [kind : Kinds, block : Nat \ {0}, sent : Nat]
    /\ net \subseteq FrameType
    /\ disturbed \in BOOLEAN

\* A fetch that returns OK has staged exactly the object that the server
\* holds: every byte at its offset, none missing at the end, none of another
\* object or of an earlier attempt, and its receipt is the object's size.
ExactReceipt ==
    \A k \in Kinds : receipt[k].status = "ok" =>
        /\ receipt[k].bytes = deployment.objects[k]
        /\ staging[k] = Whole(k)

\* A fetch that returns an error leaves the staging buffer zero, whatever
\* its attempts had stored there.
WipedOnFailure ==
    \A k \in Kinds : receipt[k].status # "ok" /\ client.pc \in {"idle", "done"}
        => staging[k] = ZeroBuffer

\* The object has a size that the binding can carry: neither empty nor over
\* a limit, with a last block that has a number below UINT16_MAX.
Fetchable(k) ==
    /\ deployment.objects[k] \in 1 .. deployment.maximum
    /\ deployment.maximum <= deployment.capacity
    /\ IF deployment.backend = "pxe" THEN PxeHasTime
       ELSE \A b \in deployment.offers :
                deployment.objects[k] < (LastBlock - 1) * b

\* A fetch fails only for a reason: the object cannot be carried, a frame
\* was lost, repeated or refused, a firmware call failed or time ran out.
\* The guard, the transport and the server agree on everything else.
FailsForAReason ==
    \A k \in Kinds : receipt[k].status \notin {"none", "ok"} =>
        disturbed \/ ~Fetchable(k)

\* A frame is received.
Hears == ReceiveOther \/ ReceiveArp \/ \E f \in net : ReceiveDatagram(f)

\* When no more frames arrive the product's fetches come to an end: every
\* wait for the firmware consumes ticks, and the retries are bounded.
FetchReturns == <>[][~Hears]_vars => <>(client.pc = "done")

=============================================================================
