------------------------------- MODULE PeerIO -------------------------------
(***************************************************************************)
(* One connection of a node (src/src/net/peer.cpp) at the level of the    *)
(* io_context: the Peer's listen coroutine, the async_send coroutines     *)
(* ConnectionManager::async_send_to_peer and async_broadcast spawn for it *)
(* (src/src/net/conn_mngr.cpp), the Peer's _socket_mu and the bytes the   *)
(* socket carries to the remote node.                                      *)
(*                                                                         *)
(* Every coroutine runs on the one io thread, which runs the handlers of  *)
(* its queue in order: a coroutine started by co_spawn, or one resumed    *)
(* when a socket operation completes.  A coroutine runs without           *)
(* interruption from one co_await to the next, so each queue entry is one *)
(* atomic step.  async_write is a composed operation: the OS writes part  *)
(* of the buffer (write_some), the completion is queued, and the io       *)
(* thread issues the next write_some or resumes the coroutine.  A message *)
(* is Parts chunks and a write_some writes one or more whole chunks.      *)
(***************************************************************************)
EXTENDS Naturals, Sequences, FiniteSets

CONSTANTS
    Listen,     \* the listen coroutine of the Peer
    Kinds,      \* what a handler does with a request: [spawns, resp]
    MaxReqs,    \* bound on the requests the remote node sends
    MaxSends,   \* bound on the async_send coroutines spawned
    Parts,      \* chunks per message
    NoOwner     \* _socket_mu unlocked

Sends == 1 .. MaxSends
Coros == Sends \cup {Listen}

VARIABLES
    ready,     \* the io_context's queue: coroutines to start or resume
    lpc,       \* listen: "read" (awaiting a request), "route", "write"
    spc,       \* spc[s]: "none", "queued", "writing", "done"
    left,      \* left[c]: chunks of c's message async_write has yet to write
    inflight,  \* coroutines with a write_some at the OS
    mu,        \* the owner of _socket_mu, or NoOwner
    blocked,   \* the io thread waits in pthread_mutex_lock
    wire,      \* the chunks written to the socket, in order
    nreq,      \* requests received so far
    nspawn,    \* async_send coroutines spawned so far
    sent       \* the messages handed to asio for writing

vars == <<ready, lpc, spc, left, inflight, mu, blocked, wire, nreq, nspawn, sent>>

\* The message coroutine c is writing: an async_send writes its own data,
\* listen the response to the current request.
MsgOf(c) == IF c = Listen THEN <<"resp", nreq>> ELSE <<"send", c>>

Init ==
    /\ ready = <<>>
    /\ lpc = "read"
    /\ spc = [s \in Sends |-> "none"]
    /\ left = [c \in Coros |-> 0]
    /\ inflight = {}
    /\ mu = NoOwner
    /\ blocked = FALSE
    /\ wire = <<>>
    /\ nreq = 0 /\ nspawn = 0
    /\ sent = {}

\* The remote node sends a request; listen's async_read_some loops read
\* the header and the body and the completion queues listen.
Receive ==
    /\ lpc = "read" /\ nreq < MaxReqs
    /\ nreq' = nreq + 1 /\ lpc' = "route"
    /\ ready' = Append(ready, Listen)
    /\ UNCHANGED <<spc, left, inflight, mu, blocked, wire, nspawn, sent>>

\* The io thread takes the first queue entry, unless it is stuck.
RunsNext(c) == ~blocked /\ ready # <<>> /\ Head(ready) = c

\* co_spawn of n async_send coroutines, each with a copy of the data:
\* queued in spawn order, their messages handed to asio.
NewSends(n) == nspawn + 1 .. nspawn + n

Spawn(n) ==
    /\ nspawn + n <= MaxSends
    /\ spc' = [s \in Sends |-> IF s \in NewSends(n) THEN "queued" ELSE spc[s]]
    /\ nspawn' = nspawn + n

SpawnedMsgs(n) == {<<"send", s>> : s \in NewSends(n)}

\* listen resumed with a request: router_.route runs the handler, which
\* may spawn async_sends (async_broadcast: one per peer, one peer here)
\* and returns the response; a non-empty response is written with
\* async_write, without _socket_mu; an empty one loops back to the read.
Route(k) ==
    /\ RunsNext(Listen) /\ lpc = "route"
    /\ Spawn(k.spawns)
    /\ ready' = Tail(ready) \o [i \in 1 .. k.spawns |-> nspawn + i]
    /\ IF k.resp
       THEN /\ lpc' = "write" /\ left' = [left EXCEPT ![Listen] = Parts]
            /\ inflight' = inflight \cup {Listen}
            /\ sent' = sent \cup SpawnedMsgs(k.spawns) \cup {MsgOf(Listen)}
       ELSE /\ lpc' = "read" /\ UNCHANGED <<left, inflight>>
            /\ sent' = sent \cup SpawnedMsgs(k.spawns)
    /\ UNCHANGED <<mu, blocked, wire, nreq>>

\* Another thread (the mining thread's handle_mined_block, an RPC
\* handler) calls async_broadcast: co_spawn queues one async_send.
Broadcast ==
    /\ Spawn(1)
    /\ ready' = Append(ready, nspawn + 1)
    /\ sent' = sent \cup SpawnedMsgs(1)
    /\ UNCHANGED <<lpc, left, inflight, mu, blocked, wire, nreq>>

\* An async_send starts: lock_guard on _socket_mu, then async_write.  The
\* mutex is held across the co_await; if another async_send of this Peer
\* holds it, that owner is a coroutine of this same thread, suspended,
\* and the lock never returns (std::mutex locked again by its owning
\* thread: with glibc the thread waits forever).
StartSend(s) ==
    /\ RunsNext(s) /\ spc[s] = "queued"
    /\ ready' = Tail(ready)
    /\ IF mu = NoOwner
       THEN /\ mu' = s /\ spc' = [spc EXCEPT ![s] = "writing"]
            /\ left' = [left EXCEPT ![s] = Parts]
            /\ inflight' = inflight \cup {s}
            /\ UNCHANGED blocked
       ELSE /\ blocked' = TRUE
            /\ UNCHANGED <<mu, spc, left, inflight>>
    /\ UNCHANGED <<lpc, wire, nreq, nspawn, sent>>

\* The OS completes a write_some of c: one or more of its remaining
\* chunks go on the wire and the completion is queued.
WriteSome(c) ==
    /\ c \in inflight
    /\ \E n \in 1 .. left[c] :
          /\ wire' = wire \o [i \in 1 .. n |-> <<MsgOf(c), Parts - left[c] + i>>]
          /\ left' = [left EXCEPT ![c] = @ - n]
    /\ inflight' = inflight \ {c}
    /\ ready' = Append(ready, c)
    /\ UNCHANGED <<lpc, spc, mu, blocked, nreq, nspawn, sent>>

\* The io thread runs c's write completion: async_write issues the next
\* write_some, or, when the buffer is written, resumes the coroutine.
\* async_send then returns and its lock_guard unlocks _socket_mu; listen
\* loops back to the read.
WriteDone(c) ==
    /\ RunsNext(c)
    /\ c = Listen => lpc = "write"
    /\ c # Listen => spc[c] = "writing"
    /\ ready' = Tail(ready)
    /\ IF left[c] > 0
       THEN inflight' = inflight \cup {c} /\ UNCHANGED <<lpc, spc, mu>>
       ELSE /\ inflight' = inflight
            /\ IF c = Listen
               THEN lpc' = "read" /\ UNCHANGED <<spc, mu>>
               ELSE spc' = [spc EXCEPT ![c] = "done"] /\ mu' = NoOwner /\ UNCHANGED lpc
    /\ UNCHANGED <<left, blocked, wire, nreq, nspawn, sent>>

IoStep ==
    \/ \E k \in Kinds : Route(k)
    \/ \E s \in Sends : StartSend(s)
    \/ \E c \in Coros : WriteDone(c)

Next ==
    \/ Receive
    \/ Broadcast
    \/ IoStep
    \/ \E c \in Coros : WriteSome(c)

\* The io thread runs whatever is queued while it is not stuck, and the
\* OS completes a write_some in flight (the remote node keeps reading).
Fairness == WF_vars(IoStep) /\ WF_vars(\E c \in Coros : WriteSome(c))

Spec == Init /\ [][Next]_vars /\ Fairness

-----------------------------------------------------------------------------
Messages == {<<"resp", r>> : r \in 1 .. MaxReqs} \cup {<<"send", s>> : s \in Sends}

TypeOK ==
    /\ ready \in Seq(Coros)
    /\ lpc \in {"read", "route", "write"}
    /\ spc \in [Sends -> {"none", "queued", "writing", "done"}]
    /\ left \in [Coros -> 0 .. Parts]
    /\ inflight \subseteq Coros
    /\ mu \in Sends \cup {NoOwner}
    /\ blocked \in BOOLEAN
    /\ wire \in Seq(Messages \X (1 .. Parts))
    /\ nreq \in 0 .. MaxReqs /\ nspawn \in 0 .. MaxSends
    /\ sent \subseteq Messages

\* The remote listen reads a header and then the body the header
\* announces: message m arrives intact when its chunks lie back to back
\* in one frame of the stream.
Arrived(m) ==
    \E i \in 1 .. Len(wire) :
        /\ (i - 1) % Parts = 0 /\ i + Parts - 1 <= Len(wire)
        /\ \A j \in 1 .. Parts : wire[i + j - 1] = <<m, j>>

\* Every message a handler or another thread hands to asio for this peer
\* (an async_send's data, a response listen writes) eventually reaches
\* the remote node intact.  It fails if two writes to the socket
\* interleave their chunks or if the io thread stops.
SentArrive == \A m \in Messages : m \in sent ~> Arrived(m)
====
