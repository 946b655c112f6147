------------------------------- MODULE DnsProxy -------------------------------
(***************************************************************************)
(* The DNS proxy (utils/dnsMITMProxy): two listeners admit requests through *)
(* a semaphore, each request runs in a goroutine of its own, asks one of    *)
(* two upstreams and answers its client; UDP sockets to an upstream are     *)
(* kept in a pool (connPool.go) and used again, and Start's deferred Close  *)
(* (start.go) empties both pools while requests may still be running.       *)
(*                                                                          *)
(* A question is the request that asks it; an answer is the question it     *)
(* answers.  Between two steps of a request the network, the clock and      *)
(* every other request may act.                                             *)
(***************************************************************************)
EXTENDS Naturals, Sequences, FiniteSets, SequencesExt

CONSTANTS
  UdpRequests, TcpRequests,
  MaxConcurrent,  \* the capacity of the semaphore
  MaxIdle,        \* the capacity of a pool
  NumSockets,     \* bound: sockets to upstreams open at a time
  MaxDuplicates,  \* bound: answers the network delivers twice
  None

Requests == UdpRequests \cup TcpRequests
Listeners == {"udp", "tcp"}
Upstreams == {"primary", "fallback"}
Sockets == 1 .. NumSockets

ASSUME RequestsAssumption ==
  /\ UdpRequests \cap TcpRequests = {}
  /\ None \notin Requests /\ None \notin Sockets /\ None \notin Upstreams
  /\ "reading" \notin Requests /\ "returned" \notin Requests
ASSUME BoundsAssumption ==
  MaxConcurrent \in Nat \ {0} /\ {MaxIdle, NumSockets, MaxDuplicates} \subseteq Nat

VARIABLES
  cancelled,  \* ctx of Start is done
  listener,   \* what each listener does: "reading", the request it holds, "returned"
  running,    \* the requests that hold a slot of the semaphore
  step,       \* where each request is
  late,       \* the requests whose deadline has passed
  upstream,   \* the upstream chosen for a request
  socket,     \* the socket a request has out
  answer,     \* the answer a request brings to its client
  pool,       \* connPool.pool, a FIFO channel per upstream
  closed,     \* connPool.closed
  open,       \* the sockets that are open, each with its peer
  asked,      \* questions and answers under way on a socket
  inbox,      \* answers in the buffer of a socket
  duplicates

requestVars == <<step, late, upstream, socket, answer, running>>
network == <<open, asked, inbox, duplicates>>
vars == <<cancelled, listener, running, step, late, upstream, socket, answer,
          pool, closed, open, asked, inbox, duplicates>>

Init ==
  /\ cancelled = FALSE
  /\ listener = [l \in Listeners |-> "reading"]
  /\ running = {}
  /\ step = [r \in Requests |-> "new"]
  /\ late = {}
  /\ upstream = [r \in Requests |-> None]
  /\ socket = [r \in Requests |-> None]
  /\ answer = [r \in Requests |-> None]
  /\ pool = [u \in Upstreams |-> <<>>]
  /\ closed = [u \in Upstreams |-> FALSE]
  /\ open = [s \in Sockets |-> None]
  /\ asked = [s \in Sockets |-> {}]
  /\ inbox = [s \in Sockets |-> <<>>]
  /\ duplicates = 0

Goto(r, s) == step' = [step EXCEPT ![r] = s]

(* The goroutine of r returns: its variables are gone and its defer gives the *)
(* slot back.  The socket it had out has been closed or given back.           *)
Forget(r) ==
  /\ Goto(r, "done")
  /\ late' = late \ {r}
  /\ upstream' = [upstream EXCEPT ![r] = None]
  /\ socket' = [socket EXCEPT ![r] = None]
  /\ answer' = [answer EXCEPT ![r] = None]

Ends(r) == Forget(r) /\ running' = running \ {r}

(* conn.Close(): what is in the buffer or under way is lost. *)
CloseSocket(s) ==
  /\ open' = [open EXCEPT ![s] = None]
  /\ asked' = [asked EXCEPT ![s] = {}]
  /\ inbox' = [inbox EXCEPT ![s] = <<>>]
  /\ UNCHANGED duplicates

(* ctx.Err() of a request. *)
Gone(r) == cancelled \/ r \in late

--------------------------------------------------------------------------------
(* ListenUDP and ListenTCP *)

Network(r) == IF r \in UdpRequests THEN "udp" ELSE "tcp"

Arrive(r) ==
  /\ step[r] = "new" /\ listener[Network(r)] = "reading"
  /\ listener' = [listener EXCEPT ![Network(r)] = r]
  /\ Goto(r, "held")
  /\ UNCHANGED <<cancelled, running, late, upstream, socket, answer, pool, closed, network>>

(* The slot is taken before the goroutine starts. *)
Admit(l) ==
  /\ listener[l] \in Requests
  /\ Cardinality(running) < MaxConcurrent
  /\ running' = running \cup {listener[l]}
  /\ Goto(listener[l], "check")
  /\ listener' = [listener EXCEPT ![l] = "reading"]
  /\ UNCHANGED <<cancelled, late, upstream, socket, answer, pool, closed, network>>

ListenerReturns(l) ==
  /\ cancelled /\ listener[l] # "returned"
  /\ listener' = [listener EXCEPT ![l] = "returned"]
  /\ IF listener[l] \in Requests THEN Goto(listener[l], "done") ELSE UNCHANGED step
  /\ UNCHANGED <<cancelled, running, late, upstream, socket, answer, pool, closed, network>>

--------------------------------------------------------------------------------
(* processReq *)

(* connPool.Get with the write that follows it.  One non-blocking receive     *)
(* under the lock; the dial comes after it, so Close may run in between.      *)
Get(r, u) ==
  \/ (Gone(r) \/ closed[u]) /\ Ends(r) /\ UNCHANGED <<pool, asked>>
  \/ /\ ~Gone(r) /\ ~closed[u] /\ pool[u] # <<>>
     /\ socket' = [socket EXCEPT ![r] = Head(pool[u])]
     /\ pool' = [pool EXCEPT ![u] = Tail(@)]
     /\ asked' = [asked EXCEPT ![Head(pool[u])] = @ \cup {r}]
     /\ upstream' = [upstream EXCEPT ![r] = u]
     /\ Goto(r, "read") /\ UNCHANGED <<running, late, answer>>
  \/ /\ ~Gone(r) /\ ~closed[u] /\ pool[u] = <<>>
     /\ upstream' = [upstream EXCEPT ![r] = u]
     /\ Goto(r, "dial") /\ UNCHANGED <<running, late, answer, socket, pool, asked>>

(* A TCP client may not send its request in time, and a request may not       *)
(* parse or be late already; the request hook answers reverse lookups itself; *)
(* any other goes to the upstream that the rules of this moment choose        *)
(* (dns.go selectUpstream).                                                   *)
Check(r) ==
  /\ step[r] = "check"
  /\ \/ Ends(r) /\ UNCHANGED <<pool, asked>>
     \/ /\ ~Gone(r)
        /\ answer' = [answer EXCEPT ![r] = r]
        /\ Goto(r, "reply") /\ UNCHANGED <<running, late, upstream, socket, pool, asked>>
     \/ \E u \in Upstreams :
          IF r \in UdpRequests THEN Get(r, u)
          ELSE /\ ~Gone(r)
               /\ upstream' = [upstream EXCEPT ![r] = u]
               /\ Goto(r, "dial") /\ UNCHANGED <<running, late, answer, socket, pool, asked>>
  /\ UNCHANGED <<cancelled, listener, closed, open, inbox, duplicates>>

Free == {s \in Sockets : open[s] = None}

(* A new socket; SetDeadline and Write follow. *)
Dial(r) ==
  /\ step[r] = "dial" /\ ~Gone(r) /\ Free # {}
  /\ LET s == CHOOSE x \in Free : \A y \in Free : x <= y
     IN  /\ open' = [open EXCEPT ![s] = upstream[r]]
         /\ asked' = [asked EXCEPT ![s] = {r}]
         /\ socket' = [socket EXCEPT ![r] = s]
  /\ Goto(r, "read")
  /\ UNCHANGED <<cancelled, listener, running, late, upstream, answer, pool, closed, inbox, duplicates>>

DialFails(r) ==
  /\ step[r] = "dial"
  /\ Ends(r)
  /\ UNCHANGED <<cancelled, listener, pool, closed, network>>

(* Mutant: a full or closed pool drops the socket without closing it. *)
PutDrops(s, u) ==
  /\ pool' = IF closed[u] \/ Len(pool[u]) >= MaxIdle THEN pool
             ELSE [pool EXCEPT ![u] = Append(@, s)]
  /\ inbox' = [inbox EXCEPT ![s] = Tail(@)]
  /\ UNCHANGED <<open, asked, duplicates>>

(* Mutant: an off-by-one in the capacity. *)
PutOneMore(s, u) ==
  IF closed[u] \/ Len(pool[u]) > MaxIdle
  THEN CloseSocket(s) /\ UNCHANGED pool
  ELSE /\ pool' = [pool EXCEPT ![u] = Append(@, s)]
       /\ inbox' = [inbox EXCEPT ![s] = Tail(@)]
       /\ UNCHANGED <<open, asked, duplicates>>

(* connPool.Put: under the lock of Close, one non-blocking send. *)
Put(s, u) ==
  IF closed[u] \/ Len(pool[u]) >= MaxIdle
  THEN CloseSocket(s) /\ UNCHANGED pool
  ELSE /\ pool' = [pool EXCEPT ![u] = Append(@, s)]
       /\ inbox' = [inbox EXCEPT ![s] = Tail(@)]
       /\ UNCHANGED <<open, asked, duplicates>>

(* Read takes whatever is first in the buffer: no one compares the identifier *)
(* of the answer with that of the question.  A UDP socket goes to the pool,   *)
(* the TCP connection is closed on return.                                    *)
Read(r) ==
  LET s == socket[r] IN
  /\ step[r] = "read" /\ inbox[s] # <<>>
  /\ answer' = [answer EXCEPT ![r] = Head(inbox[s])]
  /\ IF r \in UdpRequests THEN Put(s, upstream[r]) ELSE CloseSocket(s) /\ UNCHANGED pool
  /\ socket' = [socket EXCEPT ![r] = None]
  /\ Goto(r, "reply")
  /\ UNCHANGED <<cancelled, listener, running, late, upstream, closed>>

(* Mutant: an exchange that fails gives its socket back. *)
AbandonToPool(r) ==
  /\ IF Len(pool[upstream[r]]) < MaxIdle
     THEN /\ pool' = [pool EXCEPT ![upstream[r]] = Append(@, socket[r])]
          /\ UNCHANGED network
     ELSE CloseSocket(socket[r]) /\ UNCHANGED pool
  /\ Ends(r)
  /\ UNCHANGED <<cancelled, listener, closed>>

(* Mutant: the early return of a failed exchange keeps the slot. *)
AbandonKeepsSlot(r) ==
  /\ CloseSocket(socket[r])
  /\ Forget(r)
  /\ UNCHANGED <<cancelled, listener, running, pool, closed>>

(* The socket of a failed exchange is closed, whatever may still arrive on it. *)
Abandon(r) ==
  /\ CloseSocket(socket[r])
  /\ Ends(r)
  /\ UNCHANGED <<cancelled, listener, pool, closed>>

(* Reading ends with the deadline, not with the context: a stop does not      *)
(* shorten the wait.  A write that fails is an exchange that fails.           *)
Timeout(r) == step[r] = "read" /\ r \in late /\ Abandon(r)

(* An exchange may fail at once, as on a port that refuses. *)
ExchangeFails(r) == step[r] = "read" /\ Abandon(r)

(* The response hook and the write to the client; if either fails the client  *)
(* has no answer.                                                             *)
Reply(r) ==
  /\ step[r] = "reply"
  /\ Ends(r)
  /\ UNCHANGED <<cancelled, listener, pool, closed, network>>

--------------------------------------------------------------------------------
(* The clock, the network and the stop *)

Deadline(r) ==
  /\ step[r] \in {"dial", "read"} /\ r \notin late
  /\ late' = late \cup {r}
  /\ UNCHANGED <<cancelled, listener, running, step, upstream, socket, answer, pool, closed, network>>

(* An upstream answers, or never does; a datagram may come a second time. *)
Deliver(s) ==
  \E q \in asked[s] :
    /\ inbox' = [inbox EXCEPT ![s] = Append(@, q)]
    /\ \/ asked' = [asked EXCEPT ![s] = @ \ {q}] /\ UNCHANGED duplicates
       \/ /\ q \in UdpRequests /\ duplicates < MaxDuplicates
          /\ duplicates' = duplicates + 1 /\ UNCHANGED asked
    /\ UNCHANGED <<cancelled, listener, requestVars, pool, closed, open>>

Cancel ==
  /\ ~cancelled /\ cancelled' = TRUE
  /\ UNCHANGED <<listener, requestVars, pool, closed, network>>

(* DNSMITMProxy.Close, deferred by Start, runs after the cancel of its        *)
(* context: the pools one after the other, each closed and drained under its  *)
(* lock.                                                                      *)
ClosePool(u) ==
  /\ cancelled /\ ~closed[u] /\ (u = "fallback" => closed["primary"])
  /\ closed' = [closed EXCEPT ![u] = TRUE]
  /\ LET drained == ToSet(pool[u])
     IN  /\ open' = [s \in Sockets |-> IF s \in drained THEN None ELSE open[s]]
         /\ asked' = [s \in Sockets |-> IF s \in drained THEN {} ELSE asked[s]]
         /\ inbox' = [s \in Sockets |-> IF s \in drained THEN <<>> ELSE inbox[s]]
  /\ pool' = [pool EXCEPT ![u] = <<>>]
  /\ UNCHANGED <<cancelled, listener, requestVars, duplicates>>

(* What the code does by itself: its own steps, and its deadlines. *)
Advance(r) ==
  \/ Check(r) \/ (Gone(r) /\ DialFails(r)) \/ Read(r) \/ Timeout(r) \/ Reply(r)
  \/ (r \in UdpRequests /\ Dial(r))

Next ==
  \/ \E r \in Requests : \/ Arrive(r) \/ Dial(r) \/ DialFails(r)
                         \/ ExchangeFails(r) \/ Deadline(r) \/ Advance(r)
  \/ \E l \in Listeners : Admit(l) \/ ListenerReturns(l)
  \/ \E s \in Sockets : Deliver(s)
  \/ \E u \in Upstreams : ClosePool(u)
  \/ Cancel

(* Goroutines run, time passes, and Close is called after the cancel; no      *)
(* client and no upstream owes anything, and Start need not stop.  (A request *)
(* meets its deadline once, so one conjunct asks for both.)                   *)
Fairness ==
  /\ \A r \in Requests : WF_vars(Advance(r) \/ Deadline(r))
  /\ \A l \in Listeners : WF_vars(Admit(l) \/ ListenerReturns(l))
  /\ WF_vars(\E u \in Upstreams : ClosePool(u))

Spec == Init /\ [][Next]_vars
LiveSpec == Spec /\ Fairness

--------------------------------------------------------------------------------
(* Properties *)

Steps == {"new", "held", "check", "dial", "read", "reply", "done"}

(* Every variable keeps its type. *)
TypeOK ==
  /\ cancelled \in BOOLEAN
  /\ listener \in [Listeners -> {"reading", "returned"} \cup Requests]
  /\ running \subseteq Requests /\ late \subseteq Requests
  /\ step \in [Requests -> Steps]
  /\ upstream \in [Requests -> Upstreams \cup {None}]
  /\ socket \in [Requests -> Sockets \cup {None}]
  /\ answer \in [Requests -> Requests \cup {None}]
  /\ \A u \in Upstreams : pool[u] \in Seq(Sockets) /\ Len(pool[u]) <= MaxIdle
  /\ closed \in [Upstreams -> BOOLEAN]
  /\ open \in [Sockets -> Upstreams \cup {None}]
  /\ asked \in [Sockets -> SUBSET Requests]
  /\ \A s \in Sockets : inbox[s] \in Seq(Requests)
  /\ duplicates \in 0 .. MaxDuplicates

(* A socket that is open is in one place only: once in the pool of its own    *)
(* upstream, which is not closed, or out with one running request of that     *)
(* upstream.  Otherwise it leaks, or two requests read each other's answers   *)
(* (connPool.go Get, Put and Close against every return of requestUpstream).  *)
SocketHasOneOwner ==
  \A s \in Sockets :
    /\ \A u \in Upstreams : s \in ToSet(pool[u]) => open[s] = u /\ ~closed[u]
    /\ \A r \in Requests : socket[r] = s => r \in running /\ open[s] = upstream[r]
    /\ open[s] # None =>
         Cardinality({r \in Requests : socket[r] = s})
           + Cardinality({i \in DOMAIN pool[open[s]] : pool[open[s]][i] = s}) = 1

(* As long as the network has delivered no datagram twice, a client gets the  *)
(* answer to its own question, although sockets are used again, answers come  *)
(* late and identifiers are not compared (mitm.go requestUpstreamUDP).        *)
AnswerIsOwn ==
  duplicates = 0 => \A r \in Requests : answer[r] \in {None, r}

(* Whatever its clients and the upstreams do, the proxy is again and again    *)
(* without a request under way: each request a listener has taken ends, and   *)
(* every path gives its slot of the semaphore back (mitm.go                   *)
(* handleUDPConnection and handleTCPConnection).                              *)
RequestsEnd ==
  []<>(\A r \in Requests : step[r] \in {"new", "done"})

(* RequestsEnd, and after the cancel of Start's context both listeners return, *)
(* every request ends and no socket stays open, in whichever order Close and   *)
(* the requests run (start.go, connPool.go).                                   *)
ProxyDrains ==
  /\ RequestsEnd
  /\ cancelled ~> [](/\ running = {} /\ \A l \in Listeners : listener[l] = "returned"
                     /\ \A s \in Sockets : open[s] = None)
=============================================================================
