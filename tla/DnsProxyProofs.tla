---------------------------- MODULE DnsProxyProofs ----------------------------
(***************************************************************************)
(* Theorems about the DNS proxy and its pools of upstream sockets, for any *)
(* requests, any capacity of the semaphore and of the pools, any number of *)
(* sockets and of answers delivered twice.                                 *)
(***************************************************************************)
EXTENDS DnsProxy, FiniteSetTheorems, TLAPS

PoolTypes == pool \in [Upstreams -> Seq(Sockets)] /\ \A u \in Upstreams : Len(pool[u]) <= MaxIdle
NetworkTypes ==
    /\ open \in [Sockets -> Upstreams \cup {None}]
    /\ asked \in [Sockets -> SUBSET Requests]
    /\ inbox \in [Sockets -> Seq(Requests)]
    /\ duplicates \in 0 .. MaxDuplicates
RequestTypes ==
    /\ running \subseteq Requests /\ late \subseteq Requests
    /\ step \in [Requests -> Steps]
    /\ upstream \in [Requests -> Upstreams \cup {None}]
    /\ socket \in [Requests -> Sockets \cup {None}]
    /\ answer \in [Requests -> Requests \cup {None}]
ControlTypes ==
    /\ cancelled \in BOOLEAN
    /\ listener \in [Listeners -> {"reading", "returned"} \cup Requests]
    /\ closed \in [Upstreams -> BOOLEAN]
ProxyTypes == ControlTypes /\ RequestTypes /\ PoolTypes /\ NetworkTypes

Underway == {"check", "dial", "read", "reply"}

(* What a request has at each of its steps. *)
InStep ==
    \A r \in Requests : /\ socket[r] # None <=> step[r] = "read"
                        /\ step[r] \in {"dial", "read"} => upstream[r] \in Upstreams
                        /\ r \in running <=> step[r] \in Underway

(* What a listener holds waits for a slot, and no other listener holds it. *)
Held == \A l \in Listeners : listener[l] \in Requests => /\ step[listener[l]] = "held"
                                                         /\ Network(listener[l]) = l

ClosedIsEmpty == \A u \in Upstreams : closed[u] => pool[u] = <<>>

NoneTwice(q) == \A i, j \in DOMAIN q : q[i] = q[j] => i = j

(* Every open socket is in one place. *)
Pooled == \A u \in Upstreams : NoneTwice(pool[u]) /\ \A s \in ToSet(pool[u]) : open[s] = u
Out == \A r \in Requests : socket[r] # None =>
          /\ open[socket[r]] = upstream[r]
          /\ \A u \in Upstreams : socket[r] \notin ToSet(pool[u])
OutOnce == \A r, q \in Requests : socket[r] # None /\ socket[r] = socket[q] => r = q
NoneLeaks == \A s \in Sockets : open[s] # None => \/ \E r \in Requests : socket[r] = s
                                                  \/ s \in ToSet(pool[open[s]])

(* On a closed socket nothing is under way; if no answer was delivered twice, *)
(* on one in a pool neither, and on one that is out at most what its request  *)
(* asked or the answer to it.                                                *)
Silent(s) == asked[s] = {} /\ inbox[s] = <<>>
ClosedIsSilent == \A s \in Sockets : open[s] = None => Silent(s)
PoolIsSilent == duplicates = 0 => \A u \in Upstreams : \A s \in ToSet(pool[u]) : Silent(s)
OwnOnly == duplicates = 0 => \A r \in Requests : socket[r] # None =>
              \/ asked[socket[r]] \subseteq {r} /\ inbox[socket[r]] = <<>>
              \/ asked[socket[r]] = {} /\ inbox[socket[r]] = <<r>>

ProxyIInv ==
    /\ ProxyTypes /\ InStep /\ Held /\ ClosedIsEmpty
    /\ Pooled /\ Out /\ OutOnce /\ NoneLeaks
    /\ ClosedIsSilent /\ PoolIsSilent /\ OwnOnly /\ AnswerIsOwn

--------------------------------------------------------------------------------
(* Operators *)

LEMMA LeastOf ==
    ASSUME NEW S \in SUBSET Nat, S # {}
    PROVE  \E x \in S : \A y \in S : x <= y
<1>1. IsWellFoundedOn(OpToRel(<, Nat), Nat)
  BY NatLessThanWellFounded
<1>2. PICK x \in S : \A y \in S : ~(<<y, x>> \in OpToRel(<, Nat))
  BY <1>1, WFMin
<1>3. \A y \in S : ~(y < x)
  BY <1>2 DEF OpToRel
<1> QED BY <1>3

LEMMA AppendedTo ==
    ASSUME NEW S, NEW q \in Seq(S), NEW x \in S
    PROVE  /\ Append(q, x) \in Seq(S) /\ Len(Append(q, x)) = Len(q) + 1
           /\ ToSet(Append(q, x)) = ToSet(q) \cup {x}
           /\ NoneTwice(q) /\ x \notin ToSet(q) => NoneTwice(Append(q, x))
<1>1. /\ Append(q, x) \in Seq(S) /\ Len(Append(q, x)) = Len(q) + 1 /\ Len(q) \in Nat
      /\ DOMAIN q = 1 .. Len(q) /\ DOMAIN Append(q, x) = 1 .. Len(q) + 1
      /\ \A i \in 1 .. Len(q) : Append(q, x)[i] = q[i]
      /\ Append(q, x)[Len(q) + 1] = x
  OBVIOUS
<1>2. ToSet(Append(q, x)) = ToSet(q) \cup {x}
  BY <1>1 DEF ToSet
<1>3. NoneTwice(q) /\ x \notin ToSet(q) => NoneTwice(Append(q, x))
  BY <1>1 DEF NoneTwice, ToSet
<1> QED BY <1>1, <1>2, <1>3

LEMMA TakenFrom ==
    ASSUME NEW S, NEW q \in Seq(S), q # <<>>
    PROVE  /\ Tail(q) \in Seq(S) /\ Len(Tail(q)) = Len(q) - 1 /\ Head(q) \in S /\ Head(q) \in ToSet(q)
           /\ ToSet(Tail(q)) \subseteq ToSet(q)
           /\ \A x \in ToSet(q) : x = Head(q) \/ x \in ToSet(Tail(q))
           /\ NoneTwice(q) => NoneTwice(Tail(q)) /\ Head(q) \notin ToSet(Tail(q))
<1>1. /\ Tail(q) \in Seq(S) /\ Len(Tail(q)) = Len(q) - 1 /\ Len(q) \in Nat \ {0}
      /\ DOMAIN q = 1 .. Len(q) /\ DOMAIN Tail(q) = 1 .. Len(q) - 1
      /\ \A i \in 1 .. Len(q) - 1 : Tail(q)[i] = q[i + 1]
      /\ Head(q) = q[1]
  OBVIOUS
<1>2. \A i \in 2 .. Len(q) : i - 1 \in 1 .. Len(q) - 1 /\ q[i] = Tail(q)[i - 1]
  BY <1>1
<1>3. ASSUME NEW x \in ToSet(q) PROVE x = Head(q) \/ x \in ToSet(Tail(q))
  <2>1. PICK i \in 1 .. Len(q) : x = q[i]
    BY <1>1 DEF ToSet
  <2>2. i = 1 \/ i \in 2 .. Len(q)
    BY <1>1
  <2> QED BY <1>1, <1>2, <2>1, <2>2 DEF ToSet
<1>4. NoneTwice(q) => NoneTwice(Tail(q)) /\ Head(q) \notin ToSet(Tail(q))
  BY <1>1 DEF NoneTwice, ToSet
<1>5. ToSet(Tail(q)) \subseteq ToSet(q) /\ Head(q) \in ToSet(q) /\ Head(q) \in S
  BY <1>1 DEF ToSet
<1> QED BY <1>1, <1>3, <1>4, <1>5

LEMMA FreeSocket ==
    ASSUME Free # {}
    PROVE  (CHOOSE x \in Free : \A y \in Free : x <= y) \in Free
<1>1. Free \in SUBSET Nat
  BY BoundsAssumption DEF Free, Sockets
<1> QED BY <1>1, LeastOf

--------------------------------------------------------------------------------
(* Types *)

LEMMA Ending ==
    ASSUME RequestTypes, NEW r \in Requests, Ends(r)
    PROVE  /\ RequestTypes'
           /\ step' = [step EXCEPT ![r] = "done"] /\ running' = running \ {r}
           /\ upstream' = [upstream EXCEPT ![r] = None]
           /\ socket' = [socket EXCEPT ![r] = None]
           /\ answer' = [answer EXCEPT ![r] = None]
BY DEF RequestTypes, Ends, Forget, Goto, Steps

LEMMA Closing ==
    ASSUME NetworkTypes, NEW s \in Sockets, CloseSocket(s)
    PROVE  /\ NetworkTypes' /\ open'[s] = None /\ asked'[s] = {} /\ inbox'[s] = <<>> /\ duplicates' = duplicates
           /\ \A t \in Sockets \ {s} : open'[t] = open[t] /\ asked'[t] = asked[t] /\ inbox'[t] = inbox[t]
BY DEF NetworkTypes, CloseSocket

(* A socket that comes back is closed, or silent in a pool that has room. *)
LEMMA Returning ==
    ASSUME NetworkTypes, PoolTypes, NEW s \in Sockets, NEW u \in Upstreams, inbox[s] # <<>>, Put(s, u)
    PROVE  /\ NetworkTypes' /\ PoolTypes'
           /\ \/ CloseSocket(s) /\ pool' = pool
              \/ /\ ~closed[u] /\ pool' = [pool EXCEPT ![u] = Append(@, s)]
                 /\ inbox' = [inbox EXCEPT ![s] = Tail(@)]
                 /\ open' = open /\ asked' = asked /\ duplicates' = duplicates
<1>1. CASE CloseSocket(s) /\ UNCHANGED pool
  BY <1>1, Closing DEF PoolTypes
<1>2. CASE ~(closed[u] \/ Len(pool[u]) >= MaxIdle)
  <2>1. /\ pool' = [pool EXCEPT ![u] = Append(@, s)]
        /\ inbox' = [inbox EXCEPT ![s] = Tail(@)]
        /\ open' = open /\ asked' = asked /\ duplicates' = duplicates
    BY <1>2 DEF Put
  <2>2. pool[u] \in Seq(Sockets) /\ inbox[s] \in Seq(Requests) /\ Len(pool[u]) \in Nat /\ MaxIdle \in Nat
    BY BoundsAssumption DEF PoolTypes, NetworkTypes
  <2>3. Append(pool[u], s) \in Seq(Sockets) /\ Len(Append(pool[u], s)) = Len(pool[u]) + 1
    BY <2>2, AppendedTo
  <2>4. Len(pool[u]) + 1 <= MaxIdle
    BY <1>2, <2>2
  <2>5. Tail(inbox[s]) \in Seq(Requests)
    BY <2>2, TakenFrom
  <2>6. NetworkTypes'
    BY <2>1, <2>5 DEF NetworkTypes
  <2>7. PoolTypes'
    BY <2>1, <2>3, <2>4 DEF PoolTypes
  <2> QED BY <1>2, <2>1, <2>6, <2>7
<1> QED BY <1>1, <1>2 DEF Put

LEMMA Getting ==
    ASSUME PoolTypes, NEW u \in Upstreams, pool[u] # <<>>, pool' = [pool EXCEPT ![u] = Tail(@)]
    PROVE  PoolTypes' /\ Head(pool[u]) \in Sockets
<1>1. pool[u] \in Seq(Sockets) /\ Len(pool[u]) \in Nat /\ MaxIdle \in Nat /\ Len(pool[u]) <= MaxIdle
  BY BoundsAssumption DEF PoolTypes
<1>2. /\ Tail(pool[u]) \in Seq(Sockets) /\ Len(Tail(pool[u])) = Len(pool[u]) - 1 /\ Head(pool[u]) \in Sockets
  BY <1>1, TakenFrom
<1>3. Len(Tail(pool[u])) <= MaxIdle
  BY <1>1, <1>2
<1> QED BY <1>2, <1>3 DEF PoolTypes

LEMMA TypesStep ==
    ASSUME ProxyIInv, Next
    PROVE  ProxyTypes'
<1> USE DEF ProxyTypes
<1>1. /\ ProxyTypes /\ InStep
      /\ \A r \in Requests : r # None /\ r # "reading" /\ r # "returned"
  BY RequestsAssumption DEF ProxyIInv
<1>2. \A r \in Requests : step[r] = "read" => socket[r] \in Sockets
  BY <1>1 DEF InStep, RequestTypes
<1>3. \A r \in Requests : step[r] \in {"dial", "read"} => upstream[r] \in Upstreams
  BY <1>1 DEF InStep
<1>4. ASSUME NEW r \in Requests, Arrive(r) PROVE ProxyTypes'
  <2>1. Network(r) \in Listeners
    BY DEF Network, Listeners
  <2> QED BY <1>1, <1>4, <2>1
        DEF Arrive, Goto, ControlTypes, RequestTypes, PoolTypes, NetworkTypes, network, Steps
<1>5. ASSUME NEW r \in Requests, Check(r) PROVE ProxyTypes'
  <2>1. CASE Ends(r) /\ UNCHANGED <<pool, asked>>
    BY <1>1, <1>5, <2>1, Ending DEF Check, ControlTypes, PoolTypes, NetworkTypes
  <2>2. CASE answer' = [answer EXCEPT ![r] = r] /\ Goto(r, "reply")
             /\ UNCHANGED <<running, late, upstream, socket, pool, asked>>
    BY <1>1, <1>5, <2>2 DEF Check, Goto, ControlTypes, RequestTypes, PoolTypes, NetworkTypes, Steps
  <2>3. ASSUME NEW u \in Upstreams, upstream' = [upstream EXCEPT ![r] = u], Goto(r, "dial"),
               UNCHANGED <<running, late, answer, socket, pool, asked>>
        PROVE  ProxyTypes'
    BY <1>1, <1>5, <2>3 DEF Check, Goto, ControlTypes, RequestTypes, PoolTypes, NetworkTypes, Steps
  <2>4. ASSUME NEW u \in Upstreams, Get(r, u) PROVE ProxyTypes'
    <3>1. CASE pool[u] # <<>> /\ pool' = [pool EXCEPT ![u] = Tail(@)]
               /\ socket' = [socket EXCEPT ![r] = Head(pool[u])]
               /\ asked' = [asked EXCEPT ![Head(pool[u])] = @ \cup {r}]
               /\ upstream' = [upstream EXCEPT ![r] = u]
               /\ Goto(r, "read") /\ UNCHANGED <<running, late, answer>>
      <4>1. PoolTypes' /\ Head(pool[u]) \in Sockets
        BY <1>1, <3>1, Getting
      <4>2. RequestTypes'
        BY <1>1, <3>1, <4>1 DEF RequestTypes, Goto, Steps
      <4>3. NetworkTypes'
        BY <1>1, <1>5, <3>1, <4>1 DEF Check, NetworkTypes
      <4> QED BY <1>1, <1>5, <4>1, <4>2, <4>3 DEF Check, ControlTypes
    <3> QED BY <2>1, <2>3, <2>4, <3>1 DEF Get
  <2> QED BY <1>5, <2>1, <2>2, <2>3, <2>4 DEF Check
<1>6. ASSUME NEW r \in Requests, Dial(r) PROVE ProxyTypes'
  <2> DEFINE s == CHOOSE x \in Free : \A y \in Free : x <= y
  <2>1. s \in Sockets
    BY <1>6, FreeSocket DEF Dial, Free
  <2>2. /\ open' = [open EXCEPT ![s] = upstream[r]]
        /\ asked' = [asked EXCEPT ![s] = {r}]
        /\ socket' = [socket EXCEPT ![r] = s]
        /\ step' = [step EXCEPT ![r] = "read"]
        /\ upstream[r] \in Upstreams
        /\ UNCHANGED <<cancelled, listener, running, late, upstream, answer, pool, closed, inbox, duplicates>>
    BY <1>3, <1>6 DEF Dial, Goto
  <2> HIDE DEF s
  <2> QED BY <1>1, <2>1, <2>2 DEF ControlTypes, RequestTypes, PoolTypes, NetworkTypes, Steps
<1>7. ASSUME NEW r \in Requests, DialFails(r) \/ Reply(r) PROVE ProxyTypes'
  BY <1>1, <1>7, Ending DEF DialFails, Reply, ControlTypes, PoolTypes, NetworkTypes, network
<1>8. ASSUME NEW r \in Requests, Read(r) PROVE ProxyTypes'
  <2>1. /\ socket[r] \in Sockets /\ upstream[r] \in Upstreams /\ inbox[socket[r]] # <<>>
    BY <1>2, <1>3, <1>8 DEF Read
  <2>2. NetworkTypes' /\ PoolTypes'
    <3>1. CASE Put(socket[r], upstream[r])
      BY <1>1, <2>1, <3>1, Returning
    <3>2. CASE CloseSocket(socket[r]) /\ UNCHANGED pool
      BY <1>1, <2>1, <3>2, Closing DEF PoolTypes
    <3> QED BY <1>8, <3>1, <3>2 DEF Read
  <2>3. Head(inbox[socket[r]]) \in Requests
    BY <1>1, <2>1, TakenFrom DEF NetworkTypes
  <2>4. RequestTypes'
    BY <1>1, <1>8, <2>3 DEF Read, Goto, RequestTypes, Steps
  <2> QED BY <1>1, <1>8, <2>2, <2>4 DEF Read, ControlTypes
<1>9. ASSUME NEW r \in Requests, step[r] = "read", Abandon(r) PROVE ProxyTypes'
  BY <1>1, <1>2, <1>9, Ending, Closing DEF Abandon, ControlTypes, PoolTypes
<1>10. ASSUME NEW r \in Requests, Deadline(r) PROVE ProxyTypes'
  BY <1>1, <1>10 DEF Deadline, ControlTypes, RequestTypes, PoolTypes, NetworkTypes, network
<1>11. ASSUME NEW l \in Listeners, Admit(l) \/ ListenerReturns(l) PROVE ProxyTypes'
  <2>1. /\ late' = late /\ upstream' = upstream /\ socket' = socket /\ answer' = answer /\ pool' = pool
        /\ cancelled' = cancelled /\ closed' = closed
        /\ open' = open /\ asked' = asked /\ inbox' = inbox /\ duplicates' = duplicates
    BY <1>11 DEF Admit, ListenerReturns, network
  <2>2. running' \subseteq Requests
    BY <1>1, <1>11 DEF Admit, ListenerReturns, RequestTypes
  <2>3. step' \in [Requests -> Steps]
    BY <1>1, <1>11 DEF Admit, ListenerReturns, RequestTypes, Goto, Steps
  <2>4. listener' \in [Listeners -> {"reading", "returned"} \cup Requests]
    BY <1>1, <1>11 DEF Admit, ListenerReturns, ControlTypes
  <2> QED BY <1>1, <2>1, <2>2, <2>3, <2>4 DEF ControlTypes, RequestTypes, PoolTypes, NetworkTypes
<1>12. ASSUME NEW s \in Sockets, Deliver(s) PROVE ProxyTypes'
  <2>1. PICK q \in asked[s] :
          /\ inbox' = [inbox EXCEPT ![s] = Append(@, q)]
          /\ \/ asked' = [asked EXCEPT ![s] = @ \ {q}] /\ UNCHANGED duplicates
             \/ duplicates < MaxDuplicates /\ duplicates' = duplicates + 1 /\ UNCHANGED asked
    BY <1>12 DEF Deliver
  <2>2. Append(inbox[s], q) \in Seq(Requests)
    BY <1>1, AppendedTo DEF NetworkTypes
  <2>3. duplicates' \in 0 .. MaxDuplicates
    BY <1>1, <2>1, BoundsAssumption DEF NetworkTypes
  <2>4. NetworkTypes'
    <3>1. asked' \in [Sockets -> SUBSET Requests]
      BY <1>1, <2>1 DEF NetworkTypes
    <3>2. inbox' \in [Sockets -> Seq(Requests)]
      BY <1>1, <2>1, <2>2 DEF NetworkTypes
    <3>3. open' = open
      BY <1>12 DEF Deliver
    <3> QED BY <1>1, <2>3, <3>1, <3>2, <3>3 DEF NetworkTypes
  <2> QED BY <1>1, <1>12, <2>4 DEF Deliver, ControlTypes, RequestTypes, PoolTypes, requestVars
<1>13. ASSUME NEW u \in Upstreams, ClosePool(u) PROVE ProxyTypes'
  <2>1. NetworkTypes'
    BY <1>1, <1>13 DEF ClosePool, NetworkTypes
  <2>2. PoolTypes'
    BY <1>1, <1>13, BoundsAssumption DEF ClosePool, PoolTypes
  <2> QED BY <1>1, <1>13, <2>1, <2>2 DEF ClosePool, ControlTypes, RequestTypes, requestVars
<1>14. CASE Cancel
  BY <1>1, <1>14 DEF Cancel, ControlTypes, RequestTypes, PoolTypes, NetworkTypes, requestVars, network
<1> QED BY <1>4, <1>5, <1>6, <1>7, <1>8, <1>9, <1>10, <1>11, <1>12, <1>13, <1>14
       DEF Next, Advance, Timeout, ExchangeFails

--------------------------------------------------------------------------------
(* The steps of a request, the listeners and the pools that are closed *)

(* One request moves and no listener holds it. *)
LEMMA OneMoves ==
    ASSUME RequestTypes, RequestTypes', InStep, Held, NEW r \in Requests, step[r] # "held",
           NEW at \in Steps, step' = [step EXCEPT ![r] = at], listener' = listener,
           \A q \in Requests \ {r} : socket'[q] = socket[q] /\ upstream'[q] = upstream[q]
                                     /\ (q \in running' <=> q \in running),
           socket'[r] # None <=> at = "read",
           at \in {"dial", "read"} => upstream'[r] \in Upstreams,
           r \in running' <=> at \in Underway
    PROVE  InStep' /\ Held'
<1>1. step'[r] = at /\ \A q \in Requests \ {r} : step'[q] = step[q]
  BY DEF RequestTypes
<1>2. InStep'
  BY <1>1 DEF InStep
<1>3. Held'
  BY <1>1 DEF Held
<1> QED BY <1>2, <1>3

LEMMA EndsInStep ==
    ASSUME RequestTypes, InStep, Held, NEW r \in Requests, step[r] # "held", Ends(r), listener' = listener
    PROVE  InStep' /\ Held'
<1>1. /\ RequestTypes' /\ "done" \in Steps
      /\ step' = [step EXCEPT ![r] = "done"] /\ running' = running \ {r}
      /\ upstream' = [upstream EXCEPT ![r] = None]
      /\ socket' = [socket EXCEPT ![r] = None]
  BY Ending DEF Steps
<1>2. \A q \in Requests \ {r} : socket'[q] = socket[q] /\ upstream'[q] = upstream[q]
                                /\ (q \in running' <=> q \in running)
  BY <1>1 DEF RequestTypes
<1>3. socket'[r] = None /\ r \notin running'
  BY <1>1 DEF RequestTypes
<1> QED BY <1>1, <1>2, <1>3, OneMoves DEF Underway

LEMMA InStepStep ==
    ASSUME ProxyIInv, Next
    PROVE  InStep' /\ Held'
<1>1. ProxyTypes /\ ControlTypes /\ RequestTypes /\ RequestTypes' /\ PoolTypes /\ InStep /\ Held
      /\ \A r \in Requests : r # None /\ r # "reading" /\ r # "returned"
      /\ \A s \in Sockets : s # None
  BY RequestsAssumption, TypesStep DEF ProxyIInv, ProxyTypes
<1>2. ASSUME NEW r \in Requests, Arrive(r) PROVE InStep' /\ Held'
  <2>1. /\ step' = [step EXCEPT ![r] = "held"] /\ step[r] = "new" /\ listener[Network(r)] = "reading"
        /\ listener' = [listener EXCEPT ![Network(r)] = r] /\ Network(r) \in Listeners
        /\ UNCHANGED <<running, upstream, socket>>
    BY <1>2 DEF Arrive, Goto, Network, Listeners
  <2>2. step'[r] = "held" /\ \A q \in Requests \ {r} : step'[q] = step[q]
    BY <1>1, <2>1 DEF RequestTypes
  <2>3. InStep'
    BY <1>1, <2>1, <2>2 DEF InStep, Underway
  <2>4. \A l \in Listeners \ {Network(r)} : listener'[l] = listener[l] /\ listener'[Network(r)] = r
    BY <1>1, <2>1 DEF ControlTypes
  <2>5. Held'
    <3>1. listener'[Network(r)] = r
      BY <1>1, <2>1 DEF ControlTypes
    <3> QED BY <1>1, <2>1, <2>2, <2>4, <3>1 DEF Held, Network
  <2> QED BY <2>3, <2>5
<1>3. ASSUME NEW r \in Requests, Check(r) PROVE InStep' /\ Held'
  <2>1. step[r] = "check" /\ listener' = listener /\ r \in running
    BY <1>1, <1>3 DEF Check, InStep, Underway
  <2>2. CASE Ends(r)
    BY <1>1, <2>1, <2>2, EndsInStep
  <2>3. CASE Goto(r, "reply") /\ UNCHANGED <<running, upstream, socket>>
    BY <1>1, <2>1, <2>3, OneMoves DEF Goto, Steps, Underway, InStep
  <2>4. ASSUME NEW u \in Upstreams, upstream' = [upstream EXCEPT ![r] = u], Goto(r, "dial"), UNCHANGED <<running, socket>>
        PROVE  InStep' /\ Held'
    <3>1. /\ upstream'[r] = u /\ \A q \in Requests \ {r} : upstream'[q] = upstream[q]
          /\ socket[r] = None
      BY <1>1, <2>1, <2>4 DEF RequestTypes, InStep
    <3> QED BY <1>1, <2>1, <2>4, <3>1, OneMoves DEF Goto, Steps, Underway
  <2>5. ASSUME NEW u \in Upstreams, pool[u] # <<>>, socket' = [socket EXCEPT ![r] = Head(pool[u])],
               upstream' = [upstream EXCEPT ![r] = u], Goto(r, "read"), running' = running
        PROVE  InStep' /\ Held'
    <3>1. Head(pool[u]) \in Sockets
      BY <1>1, <2>5, TakenFrom DEF PoolTypes
    <3>2. /\ upstream'[r] = u /\ socket'[r] = Head(pool[u])
          /\ \A q \in Requests \ {r} : upstream'[q] = upstream[q] /\ socket'[q] = socket[q]
      BY <1>1, <2>5 DEF RequestTypes
    <3> QED BY <1>1, <2>1, <2>5, <3>1, <3>2, OneMoves DEF Goto, Steps, Underway
  <2> QED BY <1>3, <2>2, <2>3, <2>4, <2>5 DEF Check, Get
<1>4. ASSUME NEW r \in Requests, Dial(r) PROVE InStep' /\ Held'
  <2> DEFINE s == CHOOSE x \in Free : \A y \in Free : x <= y
  <2>1. s \in Sockets
    BY <1>4, FreeSocket DEF Dial, Free
  <2>2. /\ socket' = [socket EXCEPT ![r] = s] /\ step' = [step EXCEPT ![r] = "read"]
        /\ upstream[r] \in Upstreams /\ step[r] = "dial" /\ r \in running
        /\ UNCHANGED <<listener, running, upstream>>
    BY <1>1, <1>4 DEF Dial, Goto, InStep, Underway
  <2> HIDE DEF s
  <2>3. socket'[r] = s /\ \A q \in Requests \ {r} : socket'[q] = socket[q]
    BY <1>1, <2>2 DEF RequestTypes
  <2> QED BY <1>1, <2>1, <2>2, <2>3, OneMoves DEF Steps, Underway
<1>5. ASSUME NEW r \in Requests, DialFails(r) \/ Reply(r) \/ (step[r] = "read" /\ Abandon(r)) PROVE InStep' /\ Held'
  BY <1>1, <1>5, EndsInStep DEF DialFails, Reply, Abandon
<1>6. ASSUME NEW r \in Requests, Read(r) PROVE InStep' /\ Held'
  <2>1. /\ step[r] = "read" /\ socket' = [socket EXCEPT ![r] = None] /\ step' = [step EXCEPT ![r] = "reply"]
        /\ UNCHANGED <<listener, running, upstream>> /\ r \in running
    BY <1>1, <1>6 DEF Read, Goto, InStep, Underway
  <2>2. socket'[r] = None /\ \A q \in Requests \ {r} : socket'[q] = socket[q]
    BY <1>1, <2>1 DEF RequestTypes
  <2> QED BY <1>1, <2>1, <2>2, OneMoves DEF Steps, Underway
<1>7. ASSUME NEW l \in Listeners, Admit(l) PROVE InStep' /\ Held'
  <2>1. PICK r \in Requests : r = listener[l]
    BY <1>7 DEF Admit
  <2>2. /\ step[r] = "held" /\ step' = [step EXCEPT ![r] = "check"] /\ running' = running \cup {r}
        /\ listener' = [listener EXCEPT ![l] = "reading"] /\ Network(r) = l
        /\ UNCHANGED <<upstream, socket>>
    BY <1>1, <1>7, <2>1 DEF Admit, Goto, Held
  <2>3. step'[r] = "check" /\ \A q \in Requests \ {r} : step'[q] = step[q]
    BY <1>1, <2>2 DEF RequestTypes
  <2>4. InStep'
    BY <1>1, <2>2, <2>3 DEF InStep, Underway
  <2>5. listener'[l] = "reading" /\ \A m \in Listeners \ {l} : listener'[m] = listener[m]
    BY <1>1, <2>2 DEF ControlTypes
  <2>6. \A m \in Listeners \ {l} : listener[m] # r
    BY <1>1, <2>1, <2>2 DEF Held
  <2>7. Held'
    BY <1>1, <2>3, <2>5, <2>6 DEF Held
  <2> QED BY <2>4, <2>7
<1>8. ASSUME NEW l \in Listeners, ListenerReturns(l) PROVE InStep' /\ Held'
  <2>1. /\ listener' = [listener EXCEPT ![l] = "returned"]
        /\ UNCHANGED <<upstream, socket, running>>
    BY <1>8 DEF ListenerReturns
  <2>2. listener'[l] = "returned" /\ \A m \in Listeners \ {l} : listener'[m] = listener[m]
    BY <1>1, <2>1 DEF ControlTypes
  <2>3. CASE listener[l] \in Requests
    <3>1. PICK r \in Requests : r = listener[l]
      BY <2>3
    <3>2. step[r] = "held" /\ step' = [step EXCEPT ![r] = "done"] /\ Network(r) = l
      BY <1>1, <1>8, <3>1 DEF ListenerReturns, Goto, Held
    <3>3. step'[r] = "done" /\ \A q \in Requests \ {r} : step'[q] = step[q]
      BY <1>1, <3>2 DEF RequestTypes
    <3>4. InStep'
      BY <1>1, <2>1, <3>2, <3>3 DEF InStep, Underway
    <3>5. \A m \in Listeners \ {l} : listener[m] # r
      BY <1>1, <3>1, <3>2 DEF Held
    <3>6. Held'
      BY <1>1, <2>2, <3>3, <3>5 DEF Held
    <3> QED BY <3>4, <3>6
  <2>4. CASE listener[l] \notin Requests
    <3>1. step' = step
      BY <1>8, <2>4 DEF ListenerReturns
    <3>2. InStep'
      BY <1>1, <2>1, <3>1 DEF InStep
    <3>3. Held'
      BY <1>1, <2>2, <3>1 DEF Held
    <3> QED BY <3>2, <3>3
  <2> QED BY <2>3, <2>4
<1>9. ASSUME UNCHANGED <<step, running, upstream, socket, listener>> PROVE InStep' /\ Held'
  BY <1>1, <1>9 DEF InStep, Held
<1>10. ASSUME NEW r \in Requests, Deadline(r) PROVE InStep' /\ Held'
  BY <1>9, <1>10 DEF Deadline
<1>11. ASSUME NEW s \in Sockets, Deliver(s) PROVE InStep' /\ Held'
  BY <1>9, <1>11 DEF Deliver, requestVars
<1>12. ASSUME NEW u \in Upstreams, ClosePool(u) PROVE InStep' /\ Held'
  BY <1>9, <1>12 DEF ClosePool, requestVars
<1>13. CASE Cancel
  BY <1>9, <1>13 DEF Cancel, requestVars
<1> QED BY <1>2, <1>3, <1>4, <1>5, <1>6, <1>7, <1>8, <1>10, <1>11, <1>12, <1>13
       DEF Next, Advance, Timeout, ExchangeFails

LEMMA ClosedStep ==
    ASSUME ProxyIInv, Next
    PROVE  ClosedIsEmpty'
<1>1. ClosedIsEmpty /\ PoolTypes /\ closed \in [Upstreams -> BOOLEAN]
  BY DEF ProxyIInv, ProxyTypes, ControlTypes
<1>2. ASSUME UNCHANGED <<pool, closed>> PROVE ClosedIsEmpty'
  BY <1>1, <1>2 DEF ClosedIsEmpty
<1>3. ASSUME NEW u \in Upstreams, ~closed[u], NEW q, pool' = [pool EXCEPT ![u] = q], closed' = closed PROVE ClosedIsEmpty'
  BY <1>1, <1>3 DEF ClosedIsEmpty, PoolTypes
<1>4. ASSUME NEW r \in Requests, Check(r) PROVE ClosedIsEmpty'
  BY <1>2, <1>3, <1>4 DEF Check, Get
<1>5. ASSUME NEW r \in Requests, Read(r) PROVE ClosedIsEmpty'
  <2>1. CASE UNCHANGED pool
    BY <1>2, <1>5, <2>1 DEF Read
  <2>2. CASE Put(socket[r], upstream[r]) /\ ~UNCHANGED pool
    <3>1. /\ ~closed[upstream[r]] /\ closed' = closed
          /\ pool' = [pool EXCEPT ![upstream[r]] = Append(@, socket[r])]
      BY <1>5, <2>2 DEF Put, Read
    <3>2. upstream[r] \in Upstreams
      BY <1>5 DEF Read, ProxyIInv, InStep
    <3> QED BY <1>3, <3>1, <3>2
  <2> QED BY <1>5, <2>1, <2>2 DEF Read
<1>6. ASSUME NEW u \in Upstreams, ClosePool(u) PROVE ClosedIsEmpty'
  BY <1>1, <1>6 DEF ClosePool, ClosedIsEmpty, PoolTypes
<1> QED BY <1>2, <1>4, <1>5, <1>6
       DEF Next, Advance, Timeout, ExchangeFails, Abandon, Arrive, Dial, DialFails, Reply, Deadline, Admit,
           ListenerReturns, Deliver, Cancel, network, requestVars

--------------------------------------------------------------------------------
(* The sockets *)

Placed == Pooled /\ Out /\ OutOnce /\ NoneLeaks
Silence == ClosedIsSilent /\ PoolIsSilent /\ OwnOnly /\ AnswerIsOwn

(* What the cases below start from. *)
SocketFacts ==
    /\ Placed /\ Silence /\ RequestTypes /\ PoolTypes /\ NetworkTypes
    /\ \A r \in Requests : socket[r] # None => upstream[r] \in Upstreams
    /\ \A s \in Sockets : s # None
    /\ \A u \in Upstreams : u # None
    /\ \A r \in Requests : r # None

LEMMA HaveSocketFacts ==
    ASSUME ProxyIInv
    PROVE  SocketFacts
BY RequestsAssumption DEF ProxyIInv, ProxyTypes, SocketFacts, Placed, Silence, InStep

(* No socket moves. *)
LEMMA Calm ==
    ASSUME SocketFacts, UNCHANGED <<socket, pool, open, asked, inbox, duplicates>>,
           \A r \in Requests : socket[r] # None => upstream'[r] = upstream[r],
           \A r \in Requests : answer'[r] \in {answer[r], None, r}
    PROVE  Placed' /\ Silence'
<1>1. Pooled' /\ NoneLeaks' /\ OutOnce' /\ Out'
  BY DEF SocketFacts, Placed, Pooled, NoneLeaks, OutOnce, Out
<1>2. ClosedIsSilent' /\ PoolIsSilent' /\ OwnOnly'
  BY DEF SocketFacts, Silence, ClosedIsSilent, PoolIsSilent, OwnOnly, Silent
<1>3. AnswerIsOwn'
  BY DEF SocketFacts, Silence, AnswerIsOwn
<1> QED BY <1>1, <1>2, <1>3 DEF Placed, Silence

(* The socket of r is out with r alone. *)
LEMMA OutAlone ==
    ASSUME SocketFacts, NEW r \in Requests, socket[r] # None
    PROVE  /\ socket[r] \in Sockets /\ open[socket[r]] = upstream[r] /\ upstream[r] \in Upstreams
           /\ \A u \in Upstreams : socket[r] \notin ToSet(pool[u])
           /\ \A q \in Requests \ {r} : socket[q] # socket[r]
           /\ duplicates = 0 => \/ asked[socket[r]] \subseteq {r} /\ inbox[socket[r]] = <<>>
                                \/ asked[socket[r]] = {} /\ inbox[socket[r]] = <<r>>
BY DEF SocketFacts, Placed, Silence, Out, OutOnce, OwnOnly, RequestTypes

LEMMA InPool ==
    ASSUME SocketFacts, NEW u \in Upstreams, NEW s \in ToSet(pool[u])
    PROVE  /\ s \in Sockets /\ open[s] = u
           /\ \A v \in Upstreams \ {u} : s \notin ToSet(pool[v])
           /\ \A r \in Requests : socket[r] # s
           /\ duplicates = 0 => Silent(s)
<1>1. s \in Sockets /\ open[s] = u
  BY DEF SocketFacts, Placed, Pooled, PoolTypes, ToSet
<1> QED BY <1>1 DEF SocketFacts, Placed, Silence, Pooled, Out, PoolIsSilent

(* The socket of r is closed. *)
LEMMA ClosesOut ==
    ASSUME SocketFacts, NEW r \in Requests, socket[r] # None,
           CloseSocket(socket[r]), socket' = [socket EXCEPT ![r] = None], pool' = pool,
           \A q \in Requests \ {r} : upstream'[q] = upstream[q] /\ answer'[q] = answer[q],
           answer'[r] = None \/ (duplicates = 0 => answer'[r] = r)
    PROVE  Placed' /\ Silence'
<1> DEFINE s == socket[r]
<1>1. /\ s \in Sockets /\ \A u \in Upstreams : s \notin ToSet(pool[u])
      /\ \A q \in Requests \ {r} : socket[q] # s
  BY OutAlone
<1>2. /\ open'[s] = None /\ asked'[s] = {} /\ inbox'[s] = <<>> /\ duplicates' = duplicates
      /\ \A t \in Sockets \ {s} : open'[t] = open[t] /\ asked'[t] = asked[t] /\ inbox'[t] = inbox[t]
  BY <1>1, Closing DEF SocketFacts
<1>3. socket'[r] = None /\ \A q \in Requests \ {r} : socket'[q] = socket[q]
  BY DEF SocketFacts, RequestTypes
<1>4. \A q \in Requests : socket'[q] # None => q # r /\ socket'[q] = socket[q] /\ socket[q] \in Sockets \ {s}
  BY <1>1, <1>3 DEF SocketFacts, RequestTypes
<1>5. \A u \in Upstreams : \A t \in ToSet(pool[u]) : t \in Sockets \ {s} /\ open[t] = u
  BY <1>1, InPool
<1> HIDE DEF s
<1>6. Pooled' /\ Out' /\ OutOnce'
  BY <1>2, <1>4, <1>5 DEF SocketFacts, Placed, Pooled, Out, OutOnce
<1>7. NoneLeaks'
  <2> SUFFICES ASSUME NEW t \in Sockets, open'[t] # None
               PROVE  (\E q \in Requests : socket'[q] = t) \/ t \in ToSet(pool'[open'[t]])
    BY DEF NoneLeaks
  <2>1. t # s /\ open'[t] = open[t]
    BY <1>2
  <2>2. CASE t \in ToSet(pool[open[t]])
    BY <2>1, <2>2
  <2>3. CASE \E q \in Requests : socket[q] = t
    <3>1. PICK q \in Requests : socket[q] = t
      BY <2>3
    <3>2. q # r
      BY <2>1, <3>1 DEF s
    <3> QED BY <1>3, <3>1, <3>2
  <2> QED BY <2>1, <2>2, <2>3 DEF SocketFacts, Placed, NoneLeaks
<1>8. ClosedIsSilent' /\ PoolIsSilent' /\ OwnOnly'
  <2>1. ClosedIsSilent'
    BY <1>2 DEF SocketFacts, Silence, ClosedIsSilent, Silent
  <2>2. PoolIsSilent'
    BY <1>2, <1>5 DEF SocketFacts, Silence, PoolIsSilent, Silent
  <2>3. OwnOnly'
    <3> SUFFICES ASSUME duplicates = 0, NEW q \in Requests, socket'[q] # None
                 PROVE  \/ asked'[socket'[q]] \subseteq {q} /\ inbox'[socket'[q]] = <<>>
                        \/ asked'[socket'[q]] = {} /\ inbox'[socket'[q]] = <<q>>
      BY <1>2 DEF OwnOnly
    <3>1. socket'[q] = socket[q] /\ socket[q] \in Sockets \ {s} /\ socket[q] # None
      BY <1>4
    <3>2. asked'[socket[q]] = asked[socket[q]] /\ inbox'[socket[q]] = inbox[socket[q]]
      BY <1>2, <3>1
    <3>3. \/ asked[socket[q]] \subseteq {q} /\ inbox[socket[q]] = <<>>
          \/ asked[socket[q]] = {} /\ inbox[socket[q]] = <<q>>
      BY <3>1, OutAlone
    <3> QED BY <3>1, <3>2, <3>3
  <2> QED BY <2>1, <2>2, <2>3
<1>9. AnswerIsOwn'
  BY <1>2 DEF SocketFacts, Silence, AnswerIsOwn
<1> QED BY <1>6, <1>7, <1>8, <1>9 DEF Placed, Silence

(* The socket of r goes back to its pool, after an answer has been read from it. *)
LEMMA PutsBack ==
    ASSUME SocketFacts, NEW r \in Requests, socket[r] # None, inbox[socket[r]] # <<>>,
           pool' = [pool EXCEPT ![upstream[r]] = Append(@, socket[r])],
           inbox' = [inbox EXCEPT ![socket[r]] = Tail(@)],
           socket' = [socket EXCEPT ![r] = None], UNCHANGED <<open, asked, duplicates, upstream>>,
           \A q \in Requests \ {r} : answer'[q] = answer[q],
           duplicates = 0 => answer'[r] = r
    PROVE  Placed' /\ Silence'
<1> DEFINE s == socket[r]
           u == upstream[r]
<1>1. /\ s \in Sockets /\ u \in Upstreams /\ open[s] = u /\ \A v \in Upstreams : s \notin ToSet(pool[v])
      /\ \A q \in Requests \ {r} : socket[q] # s
      /\ duplicates = 0 => asked[s] = {} /\ inbox[s] = <<r>>
  BY OutAlone
<1>2. /\ inbox'[s] = Tail(inbox[s]) /\ \A t \in Sockets \ {s} : inbox'[t] = inbox[t]
  BY <1>1 DEF SocketFacts, NetworkTypes
<1>3. duplicates = 0 => inbox'[s] = <<>>
  <2>1. Tail(<<r>>) = <<>>
    OBVIOUS
  <2> QED BY <1>1, <1>2, <2>1
<1>4. /\ \A v \in Upstreams \ {u} : pool'[v] = pool[v]
      /\ ToSet(pool'[u]) = ToSet(pool[u]) \cup {s} /\ NoneTwice(pool'[u])
  <2>1. pool[u] \in Seq(Sockets) /\ NoneTwice(pool[u])
    BY <1>1 DEF SocketFacts, PoolTypes, Placed, Pooled
  <2>2. pool'[u] = Append(pool[u], s) /\ \A v \in Upstreams \ {u} : pool'[v] = pool[v]
    BY <1>1 DEF SocketFacts, PoolTypes
  <2> QED BY <1>1, <2>1, <2>2, AppendedTo
<1>5. \A q \in Requests : socket'[q] # None => q # r /\ socket'[q] = socket[q] /\ socket[q] \in Sockets \ {s}
  BY <1>1 DEF SocketFacts, RequestTypes
<1>6. /\ socket'[r] = None /\ UNCHANGED <<open, asked, duplicates, upstream>>
      /\ \A q \in Requests \ {r} : socket'[q] = socket[q]
  BY DEF SocketFacts, RequestTypes
<1> HIDE DEF s, u
<1>7. Pooled'
  BY <1>1, <1>4 DEF SocketFacts, Placed, Pooled
<1>8. Out'
  <2> SUFFICES ASSUME NEW q \in Requests, socket'[q] # None
               PROVE  open'[socket'[q]] = upstream'[q] /\ \A v \in Upstreams : socket'[q] \notin ToSet(pool'[v])
    BY DEF Out
  <2>1. socket'[q] = socket[q] /\ socket[q] # s /\ socket[q] # None
    BY <1>5
  <2>2. open[socket[q]] = upstream[q] /\ \A v \in Upstreams : socket[q] \notin ToSet(pool[v])
    BY <2>1, OutAlone
  <2> QED BY <1>4, <1>6, <2>1, <2>2
<1>9. OutOnce'
  BY <1>5 DEF SocketFacts, Placed, OutOnce
<1>10. NoneLeaks'
  <2> SUFFICES ASSUME NEW t \in Sockets, open'[t] # None
               PROVE  (\E q \in Requests : socket'[q] = t) \/ t \in ToSet(pool'[open'[t]])
    BY DEF NoneLeaks
  <2>1. open[t] # None /\ open'[t] = open[t] /\ open[t] \in Upstreams
    BY <1>6 DEF SocketFacts, NetworkTypes
  <2>2. CASE t = s
    BY <1>1, <1>4, <2>1, <2>2
  <2>3. CASE t # s /\ \E q \in Requests : socket[q] = t
    <3>1. PICK q \in Requests : socket[q] = t
      BY <2>3
    <3>2. q # r
      BY <2>3, <3>1 DEF s
    <3> QED BY <1>6, <3>1, <3>2
  <2>4. CASE t \in ToSet(pool[open[t]])
    BY <1>4, <2>1, <2>4
  <2> QED BY <2>1, <2>2, <2>3, <2>4 DEF SocketFacts, Placed, NoneLeaks
<1>11. ClosedIsSilent'
  BY <1>1, <1>2, <1>6 DEF SocketFacts, Silence, ClosedIsSilent, Silent
<1>12. PoolIsSilent'
  <2> SUFFICES ASSUME duplicates = 0, NEW v \in Upstreams, NEW t \in ToSet(pool'[v]) PROVE Silent(t)'
    BY <1>6 DEF PoolIsSilent
  <2>1. CASE t = s
    BY <1>1, <1>3, <1>6, <2>1 DEF Silent
  <2>2. CASE t # s
    <3>1. t \in ToSet(pool[v])
      BY <1>4, <2>2
    <3> QED BY <1>2, <1>6, <2>2, <3>1, InPool DEF Silent
  <2> QED BY <2>1, <2>2
<1>13. OwnOnly'
  <2> SUFFICES ASSUME duplicates = 0, NEW q \in Requests, socket'[q] # None
               PROVE  \/ asked'[socket'[q]] \subseteq {q} /\ inbox'[socket'[q]] = <<>>
                      \/ asked'[socket'[q]] = {} /\ inbox'[socket'[q]] = <<q>>
    BY <1>6 DEF OwnOnly
  <2>1. socket'[q] = socket[q] /\ socket[q] \in Sockets \ {s} /\ socket[q] # None
    BY <1>5
  <2>2. asked'[socket[q]] = asked[socket[q]] /\ inbox'[socket[q]] = inbox[socket[q]]
    BY <1>2, <1>6, <2>1
  <2>3. \/ asked[socket[q]] \subseteq {q} /\ inbox[socket[q]] = <<>>
        \/ asked[socket[q]] = {} /\ inbox[socket[q]] = <<q>>
    BY <2>1, OutAlone
  <2> QED BY <2>1, <2>2, <2>3
<1>14. AnswerIsOwn'
  BY <1>6 DEF SocketFacts, Silence, AnswerIsOwn
<1> QED BY <1>7, <1>8, <1>9, <1>10, <1>11, <1>12, <1>13, <1>14 DEF Placed, Silence

(* A request with no socket takes one that nobody has out: the first of a pool, *)
(* or one that was closed.                                                     *)
LEMMA TakesOut ==
    ASSUME SocketFacts, NEW r \in Requests, socket[r] = None, NEW s \in Sockets, NEW u \in Upstreams,
           \A q \in Requests : socket[q] # s,
           socket' = [socket EXCEPT ![r] = s], upstream'[r] = u,
           \A q \in Requests \ {r} : upstream'[q] = upstream[q],
           open'[s] = u, \A t \in Sockets \ {s} : open'[t] = open[t] /\ asked'[t] = asked[t],
           asked'[s] \subseteq asked[s] \cup {r}, UNCHANGED <<inbox, duplicates, answer>>,
           duplicates = 0 => inbox[s] = <<>> /\ asked[s] = {},
           \A v \in Upstreams : /\ NoneTwice(pool'[v]) /\ ToSet(pool'[v]) \subseteq ToSet(pool[v]) /\ s \notin ToSet(pool'[v])
                                /\ \A t \in ToSet(pool[v]) : t = s \/ t \in ToSet(pool'[v])
    PROVE  Placed' /\ Silence'
<1>1. socket'[r] = s /\ \A q \in Requests \ {r} : socket'[q] = socket[q]
  BY DEF SocketFacts, RequestTypes
<1>2. \A q \in Requests \ {r} : socket'[q] # None => socket[q] \in Sockets \ {s}
  BY <1>1 DEF SocketFacts, RequestTypes
<1>3. \A v \in Upstreams : \A t \in ToSet(pool'[v]) : t \in Sockets \ {s} /\ t \in ToSet(pool[v]) /\ open[t] = v
  BY InPool
<1>4. Pooled'
  BY <1>3 DEF Pooled
<1>5. Out'
  <2> SUFFICES ASSUME NEW q \in Requests, socket'[q] # None
               PROVE  open'[socket'[q]] = upstream'[q] /\ \A v \in Upstreams : socket'[q] \notin ToSet(pool'[v])
    BY DEF Out
  <2>1. CASE q = r
    BY <1>1, <2>1
  <2>2. CASE q # r
    BY <1>1, <1>2, <1>3, <2>2, OutAlone
  <2> QED BY <2>1, <2>2
<1>6. OutOnce'
  BY <1>1, <1>2 DEF SocketFacts, Placed, OutOnce
<1>7. NoneLeaks'
  <2> SUFFICES ASSUME NEW t \in Sockets, open'[t] # None, t # s
               PROVE  (\E q \in Requests : socket'[q] = t) \/ t \in ToSet(pool'[open'[t]])
    BY <1>1 DEF NoneLeaks
  <2>1. open'[t] = open[t] /\ open[t] \in Upstreams
    BY DEF SocketFacts, NetworkTypes
  <2>2. CASE \E q \in Requests : socket[q] = t
    <3>1. PICK q \in Requests : socket[q] = t
      BY <2>2
    <3>2. q # r
      BY <3>1 DEF SocketFacts
    <3> QED BY <1>1, <3>1, <3>2
  <2>3. CASE t \in ToSet(pool[open[t]])
    BY <2>1, <2>3
  <2> QED BY <2>1, <2>2, <2>3 DEF SocketFacts, Placed, NoneLeaks
<1>8. ClosedIsSilent'
  BY DEF SocketFacts, Silence, ClosedIsSilent, Silent
<1>9. PoolIsSilent'
  BY <1>3 DEF SocketFacts, Silence, PoolIsSilent, Silent
<1>10. OwnOnly'
  <2> SUFFICES ASSUME duplicates = 0, NEW q \in Requests, socket'[q] # None
               PROVE  \/ asked'[socket'[q]] \subseteq {q} /\ inbox'[socket'[q]] = <<>>
                      \/ asked'[socket'[q]] = {} /\ inbox'[socket'[q]] = <<q>>
    BY DEF OwnOnly
  <2>1. CASE q = r
    BY <1>1, <2>1
  <2>2. CASE q # r
    <3>1. socket'[q] = socket[q] /\ socket[q] \in Sockets \ {s} /\ socket[q] # None
      BY <1>1, <1>2, <2>2
    <3>2. asked'[socket[q]] = asked[socket[q]] /\ inbox'[socket[q]] = inbox[socket[q]]
      BY <3>1
    <3>3. \/ asked[socket[q]] \subseteq {q} /\ inbox[socket[q]] = <<>>
          \/ asked[socket[q]] = {} /\ inbox[socket[q]] = <<q>>
      BY <3>1, OutAlone
    <3> QED BY <3>1, <3>2, <3>3
  <2> QED BY <2>1, <2>2
<1>11. AnswerIsOwn'
  BY DEF SocketFacts, Silence, AnswerIsOwn
<1> QED BY <1>4, <1>5, <1>6, <1>7, <1>8, <1>9, <1>10, <1>11 DEF Placed, Silence

LEMMA DeliverKeeps ==
    ASSUME SocketFacts, NEW s \in Sockets, Deliver(s)
    PROVE  Placed' /\ Silence'
<1>1. PICK q \in asked[s] :
        /\ inbox' = [inbox EXCEPT ![s] = Append(@, q)]
        /\ \/ asked' = [asked EXCEPT ![s] = @ \ {q}] /\ UNCHANGED duplicates
           \/ duplicates' = duplicates + 1 /\ UNCHANGED asked
  BY DEF Deliver
<1>2. UNCHANGED <<socket, upstream, answer, pool, open>>
  BY DEF Deliver, requestVars
<1>3. /\ inbox'[s] = Append(inbox[s], q) /\ \A t \in Sockets \ {s} : inbox'[t] = inbox[t] /\ asked'[t] = asked[t]
      /\ q \in Requests
  BY <1>1 DEF SocketFacts, NetworkTypes
<1>4. Pooled' /\ Out' /\ OutOnce' /\ NoneLeaks'
  BY <1>2 DEF SocketFacts, Placed, Pooled, Out, OutOnce, NoneLeaks
<1>5. ClosedIsSilent'
  BY <1>1, <1>2, <1>3 DEF SocketFacts, Silence, ClosedIsSilent, Silent
<1>6. duplicates' = 0 => duplicates = 0 /\ asked'[s] = asked[s] \ {q}
  <2>1. duplicates \in Nat
    BY BoundsAssumption DEF SocketFacts, NetworkTypes
  <2> QED BY <1>1, <2>1 DEF SocketFacts, NetworkTypes
<1>7. PoolIsSilent'
  <2> SUFFICES ASSUME duplicates' = 0, NEW u \in Upstreams, NEW t \in ToSet(pool'[u]) PROVE Silent(t)'
    BY DEF PoolIsSilent
  <2>1. duplicates = 0 /\ t \in ToSet(pool[u])
    BY <1>2, <1>6
  <2>2. t \in Sockets /\ asked[t] = {} /\ inbox[t] = <<>>
    BY <2>1, InPool DEF Silent
  <2>3. t # s
    BY <2>2
  <2> QED BY <1>3, <2>2, <2>3 DEF Silent
<1>8. OwnOnly'
  <2> SUFFICES ASSUME duplicates' = 0, NEW r \in Requests, socket'[r] # None
               PROVE  \/ asked'[socket[r]] \subseteq {r} /\ inbox'[socket[r]] = <<>>
                      \/ asked'[socket[r]] = {} /\ inbox'[socket[r]] = <<r>>
    BY <1>2 DEF OwnOnly
  <2>1. /\ socket[r] # None /\ socket[r] \in Sockets
        /\ \/ asked[socket[r]] \subseteq {r} /\ inbox[socket[r]] = <<>>
           \/ asked[socket[r]] = {} /\ inbox[socket[r]] = <<r>>
    BY <1>2, <1>6, OutAlone
  <2>2. CASE socket[r] # s
    <3>1. asked'[socket[r]] = asked[socket[r]] /\ inbox'[socket[r]] = inbox[socket[r]]
      BY <1>3, <2>1, <2>2
    <3> QED BY <2>1, <3>1
  <2>3. CASE socket[r] = s
    <3>1. q = r /\ asked[s] \subseteq {r} /\ inbox[s] = <<>>
      BY <1>1, <2>1, <2>3
    <3>2. Append(<<>>, r) = <<r>>
      OBVIOUS
    <3> QED BY <1>3, <1>6, <2>3, <3>1, <3>2
  <2> QED BY <2>2, <2>3
<1>9. AnswerIsOwn'
  BY <1>2, <1>6 DEF SocketFacts, Silence, AnswerIsOwn
<1> QED BY <1>4, <1>5, <1>7, <1>8, <1>9 DEF Placed, Silence

LEMMA ClosePoolKeeps ==
    ASSUME SocketFacts, NEW u \in Upstreams, ClosePool(u)
    PROVE  Placed' /\ Silence'
<1> DEFINE drained == ToSet(pool[u])
<1>1. /\ \A s \in Sockets : s \in drained => open'[s] = None /\ asked'[s] = {} /\ inbox'[s] = <<>>
      /\ \A s \in Sockets : s \notin drained => open'[s] = open[s] /\ asked'[s] = asked[s] /\ inbox'[s] = inbox[s]
      /\ pool' = [pool EXCEPT ![u] = <<>>]
      /\ UNCHANGED <<socket, upstream, answer, duplicates>>
  BY DEF ClosePool, requestVars
<1>2. ToSet(<<>>) = {} /\ NoneTwice(<<>>)
  BY DEF ToSet, NoneTwice
<1>3. /\ ToSet(pool'[u]) = {} /\ NoneTwice(pool'[u])
      /\ \A v \in Upstreams \ {u} : pool'[v] = pool[v]
  BY <1>1, <1>2 DEF SocketFacts, PoolTypes
<1>4. \A v \in Upstreams \ {u} : \A s \in ToSet(pool[v]) : s \in Sockets /\ s \notin drained
  BY InPool
<1>5. \A r \in Requests : socket[r] # None => socket[r] \in Sockets /\ socket[r] \notin drained
  BY OutAlone
<1>6. \A s \in Sockets : open[s] = u => s \in drained \/ \E r \in Requests : socket[r] = s
  BY DEF SocketFacts, Placed, NoneLeaks
<1> HIDE DEF drained
<1>7. Pooled'
  BY <1>1, <1>3, <1>4 DEF SocketFacts, Placed, Pooled
<1>8. Out'
  BY <1>1, <1>3, <1>5 DEF SocketFacts, Placed, Out
<1>9. OutOnce'
  BY <1>1 DEF SocketFacts, Placed, OutOnce
<1>10. NoneLeaks'
  <2> SUFFICES ASSUME NEW t \in Sockets, open'[t] # None
               PROVE  (\E q \in Requests : socket'[q] = t) \/ t \in ToSet(pool'[open'[t]])
    BY DEF NoneLeaks
  <2>1. t \notin drained /\ open'[t] = open[t] /\ open[t] \in Upstreams
    BY <1>1 DEF SocketFacts, NetworkTypes
  <2>2. (\E q \in Requests : socket[q] = t) \/ t \in ToSet(pool[open[t]])
    BY <2>1 DEF SocketFacts, Placed, NoneLeaks
  <2> QED BY <1>1, <1>3, <1>6, <2>1, <2>2
<1>11. ClosedIsSilent'
  BY <1>1 DEF SocketFacts, Silence, ClosedIsSilent, Silent
<1>12. PoolIsSilent'
  BY <1>1, <1>3, <1>4 DEF SocketFacts, Silence, PoolIsSilent, Silent
<1>13. OwnOnly'
  <2> SUFFICES ASSUME duplicates = 0, NEW r \in Requests, socket[r] # None
               PROVE  \/ asked'[socket[r]] \subseteq {r} /\ inbox'[socket[r]] = <<>>
                      \/ asked'[socket[r]] = {} /\ inbox'[socket[r]] = <<r>>
    BY <1>1 DEF OwnOnly
  <2>1. asked'[socket[r]] = asked[socket[r]] /\ inbox'[socket[r]] = inbox[socket[r]]
    BY <1>1, <1>5
  <2> QED BY <2>1, OutAlone
<1>14. AnswerIsOwn'
  BY <1>1 DEF SocketFacts, Silence, AnswerIsOwn
<1> QED BY <1>7, <1>8, <1>9, <1>10, <1>11, <1>12, <1>13, <1>14 DEF Placed, Silence

LEMMA SocketsStep ==
    ASSUME ProxyIInv, Next
    PROVE  Placed' /\ Silence'
<1>1. SocketFacts
  BY HaveSocketFacts
<1>2. /\ RequestTypes /\ NetworkTypes /\ PoolTypes /\ InStep
  BY DEF ProxyIInv, ProxyTypes
<1>3. ASSUME NEW r \in Requests, Ends(r), step[r] # "read", UNCHANGED <<pool, open, asked, inbox, duplicates>>
      PROVE  Placed' /\ Silence'
  <2>1. socket[r] = None
    BY <1>2, <1>3 DEF InStep
  <2>2. /\ upstream' = [upstream EXCEPT ![r] = None]
        /\ socket' = [socket EXCEPT ![r] = None]
        /\ answer' = [answer EXCEPT ![r] = None]
    BY <1>2, <1>3, Ending
  <2>3. /\ socket' = socket /\ \A q \in Requests : answer'[q] \in {answer[q], None, q}
        /\ \A q \in Requests : socket[q] # None => upstream'[q] = upstream[q]
    BY <1>2, <2>1, <2>2 DEF RequestTypes
  <2> QED BY <1>1, <1>3, <2>3, Calm
<1>4. ASSUME UNCHANGED <<socket, upstream, answer, pool, open, asked, inbox, duplicates>>
      PROVE  Placed' /\ Silence'
  BY <1>1, <1>4, Calm
<1>5. ASSUME NEW r \in Requests, Check(r) PROVE Placed' /\ Silence'
  <2>1. /\ step[r] = "check" /\ socket[r] = None /\ UNCHANGED <<open, inbox, duplicates>>
    BY <1>2, <1>5 DEF Check, InStep
  <2>2. CASE Ends(r) /\ UNCHANGED <<pool, asked>>
    BY <1>3, <2>1, <2>2
  <2>3. CASE answer' = [answer EXCEPT ![r] = r] /\ UNCHANGED <<upstream, socket, pool, asked>>
    <3>1. \A q \in Requests : answer'[q] \in {answer[q], None, q}
      BY <1>2, <2>3 DEF RequestTypes
    <3> QED BY <1>1, <2>1, <2>3, <3>1, Calm
  <2>4. ASSUME NEW u \in Upstreams, upstream' = [upstream EXCEPT ![r] = u], UNCHANGED <<socket, answer, pool, asked>>
        PROVE  Placed' /\ Silence'
    <3>1. \A q \in Requests : socket[q] # None => upstream'[q] = upstream[q]
      BY <1>2, <2>1, <2>4 DEF RequestTypes
    <3> QED BY <1>1, <2>1, <2>4, <3>1, Calm
  <2>5. ASSUME NEW u \in Upstreams, pool[u] # <<>>, pool' = [pool EXCEPT ![u] = Tail(@)],
               socket' = [socket EXCEPT ![r] = Head(pool[u])],
               asked' = [asked EXCEPT ![Head(pool[u])] = @ \cup {r}],
               upstream' = [upstream EXCEPT ![r] = u], answer' = answer
        PROVE  Placed' /\ Silence'
    <3> DEFINE s == Head(pool[u])
    <3>1. /\ s \in ToSet(pool[u]) /\ ToSet(Tail(pool[u])) \subseteq ToSet(pool[u])
          /\ \A t \in ToSet(pool[u]) : t = s \/ t \in ToSet(Tail(pool[u]))
          /\ NoneTwice(Tail(pool[u])) /\ s \notin ToSet(Tail(pool[u]))
      <4>1. pool[u] \in Seq(Sockets) /\ NoneTwice(pool[u])
        BY <1>1, <1>2 DEF PoolTypes, SocketFacts, Placed, Pooled
      <4> QED BY <2>5, <4>1, TakenFrom
    <3>2. /\ s \in Sockets /\ open[s] = u
          /\ \A v \in Upstreams \ {u} : s \notin ToSet(pool[v])
          /\ \A q \in Requests : socket[q] # s
          /\ duplicates = 0 => asked[s] = {} /\ inbox[s] = <<>>
      BY <1>1, <3>1, InPool DEF Silent
    <3>3. /\ socket' = [socket EXCEPT ![r] = s] /\ asked' = [asked EXCEPT ![s] = @ \cup {r}]
          /\ pool' = [pool EXCEPT ![u] = Tail(@)]
      BY <2>5
    <3> HIDE DEF s
    <3>4. \A v \in Upstreams : /\ NoneTwice(pool'[v]) /\ ToSet(pool'[v]) \subseteq ToSet(pool[v])
                               /\ s \notin ToSet(pool'[v])
                               /\ \A t \in ToSet(pool[v]) : t = s \/ t \in ToSet(pool'[v])
      <4>1. pool'[u] = Tail(pool[u]) /\ \A v \in Upstreams \ {u} : pool'[v] = pool[v]
        BY <1>2, <3>3 DEF PoolTypes
      <4>2. \A v \in Upstreams : NoneTwice(pool[v])
        BY <1>1 DEF SocketFacts, Placed, Pooled
      <4> QED BY <3>1, <3>2, <4>1, <4>2
    <3>5. /\ upstream'[r] = u /\ \A q \in Requests \ {r} : upstream'[q] = upstream[q]
          /\ open'[s] = u /\ \A t \in Sockets \ {s} : open'[t] = open[t] /\ asked'[t] = asked[t]
          /\ asked'[s] \subseteq asked[s] \cup {r}
      BY <1>2, <2>1, <2>5, <3>2, <3>3 DEF RequestTypes, NetworkTypes
    <3> QED BY <1>1, <2>1, <2>5, <3>2, <3>3, <3>4, <3>5, TakesOut
  <2> QED BY <1>5, <2>2, <2>3, <2>4, <2>5 DEF Check, Get
<1>6. ASSUME NEW r \in Requests, Dial(r) PROVE Placed' /\ Silence'
  <2> DEFINE s == CHOOSE x \in Free : \A y \in Free : x <= y
  <2>1. s \in Sockets /\ open[s] = None
    BY <1>6, FreeSocket DEF Dial, Free
  <2>2. /\ open' = [open EXCEPT ![s] = upstream[r]]
        /\ asked' = [asked EXCEPT ![s] = {r}]
        /\ socket' = [socket EXCEPT ![r] = s]
        /\ step[r] = "dial" /\ upstream[r] \in Upstreams /\ socket[r] = None
        /\ UNCHANGED <<upstream, answer, pool, inbox, duplicates>>
    BY <1>2, <1>6 DEF Dial, InStep
  <2> HIDE DEF s
  <2>3. /\ \A q \in Requests : socket[q] # s
        /\ \A v \in Upstreams : s \notin ToSet(pool[v])
        /\ asked[s] = {} /\ inbox[s] = <<>>
    <3>1. \A q \in Requests : socket[q] # None => open[socket[q]] # None
      BY <1>1, OutAlone DEF SocketFacts
    <3>2. \A v \in Upstreams : \A t \in ToSet(pool[v]) : open[t] # None
      BY <1>1, InPool DEF SocketFacts
    <3> QED BY <1>1, <2>1, <3>1, <3>2 DEF SocketFacts, Silence, ClosedIsSilent, Silent
  <2>4. \A v \in Upstreams : /\ NoneTwice(pool'[v]) /\ ToSet(pool'[v]) \subseteq ToSet(pool[v])
                             /\ s \notin ToSet(pool'[v])
                             /\ \A t \in ToSet(pool[v]) : t = s \/ t \in ToSet(pool'[v])
    BY <1>1, <2>2, <2>3 DEF SocketFacts, Placed, Pooled
  <2>5. /\ open'[s] = upstream[r] /\ \A t \in Sockets \ {s} : open'[t] = open[t] /\ asked'[t] = asked[t]
        /\ asked'[s] \subseteq asked[s] \cup {r}
    BY <1>2, <2>1, <2>2 DEF NetworkTypes
  <2> QED BY <1>1, <2>1, <2>2, <2>3, <2>4, <2>5, TakesOut
<1>7. ASSUME NEW r \in Requests, DialFails(r) \/ Reply(r) PROVE Placed' /\ Silence'
  BY <1>3, <1>7 DEF DialFails, Reply, network
<1>8. ASSUME NEW r \in Requests, Read(r) PROVE Placed' /\ Silence'
  <2>1. /\ socket[r] # None /\ socket[r] \in Sockets /\ upstream[r] \in Upstreams
        /\ inbox[socket[r]] # <<>> /\ upstream' = upstream
        /\ socket' = [socket EXCEPT ![r] = None] /\ answer' = [answer EXCEPT ![r] = Head(inbox[socket[r]])]
    BY <1>2, <1>8 DEF Read, InStep, RequestTypes
  <2>2. duplicates = 0 => answer'[r] = r
    <3>1. duplicates = 0 => inbox[socket[r]] = <<r>>
      BY <1>1, <2>1, OutAlone
    <3>2. Head(<<r>>) = r
      OBVIOUS
    <3> QED BY <1>2, <2>1, <3>1, <3>2 DEF RequestTypes
  <2>3. \A q \in Requests \ {r} : answer'[q] = answer[q]
    BY <1>2, <2>1 DEF RequestTypes
  <2>4. CASE CloseSocket(socket[r]) /\ pool' = pool
    BY <1>1, <2>1, <2>2, <2>3, <2>4, ClosesOut
  <2>5. CASE /\ pool' = [pool EXCEPT ![upstream[r]] = Append(@, socket[r])]
             /\ inbox' = [inbox EXCEPT ![socket[r]] = Tail(@)]
             /\ open' = open /\ asked' = asked /\ duplicates' = duplicates
    BY <1>1, <2>1, <2>2, <2>3, <2>5, PutsBack
  <2>6. CASE Put(socket[r], upstream[r])
    BY <1>2, <2>1, <2>4, <2>5, <2>6, Returning
  <2> QED BY <1>8, <2>4, <2>6 DEF Read
<1>9. ASSUME NEW r \in Requests, step[r] = "read", Abandon(r) PROVE Placed' /\ Silence'
  <2>1. /\ socket[r] # None /\ CloseSocket(socket[r]) /\ pool' = pool
        /\ upstream' = [upstream EXCEPT ![r] = None]
        /\ socket' = [socket EXCEPT ![r] = None]
        /\ answer' = [answer EXCEPT ![r] = None]
    BY <1>2, <1>9, Ending DEF Abandon, InStep
  <2>2. /\ answer'[r] = None
        /\ \A q \in Requests \ {r} : upstream'[q] = upstream[q] /\ answer'[q] = answer[q]
    BY <1>2, <2>1 DEF RequestTypes
  <2> QED BY <1>1, <2>1, <2>2, ClosesOut
<1>10. ASSUME NEW r \in Requests, Arrive(r) \/ Deadline(r) PROVE Placed' /\ Silence'
  BY <1>4, <1>10 DEF Arrive, Deadline, network
<1>11. ASSUME NEW l \in Listeners, Admit(l) \/ ListenerReturns(l) PROVE Placed' /\ Silence'
  BY <1>4, <1>11 DEF Admit, ListenerReturns, network
<1>12. CASE Cancel
  BY <1>4, <1>12 DEF Cancel, requestVars, network
<1> QED BY <1>1, <1>5, <1>6, <1>7, <1>8, <1>9, <1>10, <1>11, <1>12, DeliverKeeps, ClosePoolKeeps
       DEF Next, Advance, Timeout, ExchangeFails

--------------------------------------------------------------------------------
(* The invariant *)

LEMMA ProxyInit == Init => ProxyIInv
<1> SUFFICES ASSUME Init PROVE ProxyIInv
  OBVIOUS
<1>1. /\ MaxIdle \in Nat /\ MaxDuplicates \in Nat
      /\ \A s \in Sockets : s # None
      /\ \A u \in Upstreams : u # None
      /\ \A r \in Requests : r # None /\ r # "reading" /\ r # "returned"
  BY BoundsAssumption, RequestsAssumption
<1>2. ToSet(<<>>) = {} /\ NoneTwice(<<>>) /\ Len(<<>>) = 0
  BY DEF ToSet, NoneTwice
<1>3. ControlTypes /\ RequestTypes
  BY DEF Init, ControlTypes, RequestTypes, Steps
<1>4. PoolTypes /\ NetworkTypes
  BY <1>1, <1>2 DEF Init, PoolTypes, NetworkTypes
<1>5. InStep /\ Held /\ ClosedIsEmpty
  BY <1>1 DEF Init, InStep, Held, ClosedIsEmpty, Underway
<1>6. Pooled /\ Out /\ OutOnce /\ NoneLeaks
  BY <1>1, <1>2 DEF Init, Pooled, Out, OutOnce, NoneLeaks
<1>7. ClosedIsSilent /\ PoolIsSilent /\ OwnOnly /\ AnswerIsOwn
  BY <1>1, <1>2 DEF Init, ClosedIsSilent, PoolIsSilent, OwnOnly, AnswerIsOwn, Silent
<1> QED BY <1>3, <1>4, <1>5, <1>6, <1>7 DEF ProxyIInv, ProxyTypes

LEMMA ProxyInductive == ProxyIInv /\ [Next]_vars => ProxyIInv'
<1> SUFFICES ASSUME ProxyIInv, [Next]_vars PROVE ProxyIInv'
  OBVIOUS
<1>1. CASE Next
  BY <1>1, TypesStep, InStepStep, ClosedStep, SocketsStep DEF ProxyIInv, Placed, Silence
<1>2. CASE UNCHANGED vars
  <2>1. ProxyTypes' /\ InStep' /\ Held' /\ ClosedIsEmpty'
    BY <1>2 DEF vars, ProxyIInv, ProxyTypes, ControlTypes, RequestTypes, PoolTypes, NetworkTypes, InStep,
       Held,
                ClosedIsEmpty
  <2>2. Pooled' /\ Out' /\ OutOnce' /\ NoneLeaks'
    BY <1>2 DEF vars, ProxyIInv, Pooled, Out, OutOnce, NoneLeaks
  <2>3. ClosedIsSilent' /\ PoolIsSilent' /\ OwnOnly' /\ AnswerIsOwn'
    BY <1>2 DEF vars, ProxyIInv, ClosedIsSilent, PoolIsSilent, OwnOnly, AnswerIsOwn, Silent
  <2> QED BY <2>1, <2>2, <2>3 DEF ProxyIInv
<1> QED BY <1>1, <1>2

LEMMA ProxyInvariant == Spec => []ProxyIInv
BY ProxyInit, ProxyInductive, PTL DEF Spec

--------------------------------------------------------------------------------
(* Theorems *)

(* The listeners, the requests, the pools and the sockets keep their types,    *)
(* and no pool outgrows its channel (connPool.go Put).                        *)
THEOREM ProxyTypeCorrect == Spec => []TypeOK
<1>1. ProxyIInv => TypeOK
  BY DEF ProxyIInv, ProxyTypes, ControlTypes, RequestTypes, PoolTypes, NetworkTypes, TypeOK
<1> QED BY <1>1, ProxyInvariant, PTL

(* Between Get, Put, Close and every return of requestUpstream an open socket  *)
(* is once in the pool of its upstream or out with one running request: none   *)
(* leaks and none is used by two requests, however many run and in whichever   *)
(* order Close meets them.                                                    *)
THEOREM SocketsAreOwned == Spec => []SocketHasOneOwner
<1>1. ProxyIInv => SocketHasOneOwner
  <2> SUFFICES ASSUME ProxyIInv, NEW s \in Sockets
               PROVE  /\ \A u \in Upstreams : s \in ToSet(pool[u]) => open[s] = u /\ ~closed[u]
                      /\ \A r \in Requests : socket[r] = s => r \in running /\ open[s] = upstream[r]
                      /\ open[s] # None =>
                           Cardinality({r \in Requests : socket[r] = s})
                             + Cardinality({i \in DOMAIN pool[open[s]] : pool[open[s]][i] = s}) = 1
    BY DEF SocketHasOneOwner
  <2>1. SocketFacts
    BY HaveSocketFacts
  <2>2. ASSUME NEW u \in Upstreams, s \in ToSet(pool[u]) PROVE open[s] = u /\ ~closed[u]
    <3>1. ToSet(<<>>) = {}
      BY DEF ToSet
    <3> QED BY <2>1, <2>2, <3>1, InPool DEF ProxyIInv, ClosedIsEmpty
  <2>3. ASSUME NEW r \in Requests, socket[r] = s PROVE r \in running /\ open[s] = upstream[r]
    <3>1. socket[r] # None
      BY <2>1, <2>3 DEF SocketFacts
    <3> QED BY <2>1, <2>3, <3>1, OutAlone DEF ProxyIInv, InStep, Underway
  <2>4. ASSUME open[s] # None
        PROVE  Cardinality({r \in Requests : socket[r] = s})
                 + Cardinality({i \in DOMAIN pool[open[s]] : pool[open[s]][i] = s}) = 1
    <3> DEFINE who == {r \in Requests : socket[r] = s}
               where == {i \in DOMAIN pool[open[s]] : pool[open[s]][i] = s}
    <3>1. open[s] \in Upstreams
      BY <2>1, <2>4 DEF SocketFacts, NetworkTypes
    <3>2. CASE \E r \in Requests : socket[r] = s
      <4>1. PICK r \in Requests : socket[r] = s
        BY <3>2
      <4>2. /\ \A q \in Requests \ {r} : socket[q] # s
            /\ s \notin ToSet(pool[open[s]])
        BY <2>1, <3>1, <4>1, OutAlone DEF SocketFacts
      <4>3. who = {r} /\ where = {}
        BY <4>1, <4>2 DEF ToSet
      <4> HIDE DEF who, where
      <4>4. Cardinality(who) = 1 /\ Cardinality(where) = 0
        BY <4>3, FS_Singleton, FS_EmptySet
      <4> QED BY <4>4 DEF who, where
    <3>3. CASE s \in ToSet(pool[open[s]])
      <4>1. PICK i \in DOMAIN pool[open[s]] : pool[open[s]][i] = s
        BY <3>3 DEF ToSet
      <4>2. who = {}
        BY <2>1, <3>1, <3>3, InPool
      <4>3. where = {i}
        BY <2>1, <3>1, <4>1 DEF SocketFacts, Placed, Pooled, NoneTwice
      <4> HIDE DEF who, where
      <4>4. Cardinality(who) = 0 /\ Cardinality(where) = 1
        BY <4>2, <4>3, FS_Singleton, FS_EmptySet
      <4> QED BY <4>4 DEF who, where
    <3> QED BY <2>1, <2>4, <3>2, <3>3 DEF SocketFacts, Placed, NoneLeaks
  <2> QED BY <2>2, <2>3, <2>4
<1> QED BY <1>1, ProxyInvariant, PTL

(* As long as no datagram comes twice, requestUpstreamUDP gives each client    *)
(* the answer to its own question, though it compares no identifier and uses   *)
(* sockets again.                                                             *)
THEOREM AnswersAreOwn == Spec => []AnswerIsOwn
<1>1. ProxyIInv => AnswerIsOwn
  BY DEF ProxyIInv
<1> QED BY <1>1, ProxyInvariant, PTL

=============================================================================
