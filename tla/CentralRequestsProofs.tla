----------------------- MODULE CentralRequestsProofs -----------------------
(* Theorems about CentralRequests, for every number of stations, threads,   *)
(* requests and milliseconds.                                              *)
EXTENDS CentralRequests, StationRegistryProofs, FiniteSetTheorems,
        SequenceTheorems, WellFoundedInduction

-----------------------------------------------------------------------------
(* Type correctness *)

Actions == Action \cup {"SetChargingProfile", "none"}
Requests == [id : Nat, s : Sern \cup {NoSern}, action : Actions, uid : Nat,
             reused : BOOLEAN]
Workers == [pc : {"idle", "busy", "adding", "send"},
            todo : SUBSET {"create", "look"}, req : Requests,
            addr : Endpoint \cup {NoEndpoint}, handle : Endpoint \cup {NoEndpoint}]
Entries == [uid : Nat \cup {-1}, action : Actions]

ReqTypeOK ==
    /\ worker \in [Worker -> Workers]
    /\ queue \in Seq(Entries)
    /\ wire \subseteq [e : Endpoint, req : Requests]
    /\ ms \in Nat \ {0}
    /\ made \in Seq(Nat)
    /\ handled \subseteq [req : Requests, as : Actions, kept : BOOLEAN]
    /\ raced \subseteq Nat

(* Where a thread is decides what it still has to do.  A command that will  *)
(* be queued has no unique id before create_central_request.               *)
InStep(w) ==
    /\ worker[w].pc \in {"idle", "send"} => worker[w].todo = {}
    /\ worker[w].pc = "adding" => "create" \in worker[w].todo
    /\ worker[w].pc # "idle" => /\ worker[w].req.s \in Sern
                                /\ worker[w].req.id \in DOMAIN made
                                /\ made[worker[w].req.id] = worker[w].req.uid
    /\ "create" \in worker[w].todo => worker[w].req.action \notin Unqueued
    /\ worker[w].pc = "busy" /\ "create" \in worker[w].todo
       => worker[w].req.uid = 0
ThreadsInStep == \A w \in Worker : InStep(w)

(* The address of a request, from the row to the handle to the station.    *)
AddressOf(w) ==
    /\ worker[w].addr # NoEndpoint => HomeOf[worker[w].addr] = worker[w].req.s
    /\ worker[w].pc = "send" => /\ worker[w].handle \in Endpoint
                                /\ HomeOf[worker[w].handle] = worker[w].req.s
AddressesOfRequests == \A w \in Worker : AddressOf(w)

(* The requests on their way: with a thread, or with a station.            *)
Busy == {w \in Worker : worker[w].pc # "idle"}

(* Each request is in one place.                                           *)
OnePlace ==
    /\ \A v, w \in Busy : v # w => worker[v].req.id # worker[w].req.id
    /\ \A w \in Busy, m \in wire : worker[w].req.id # m.req.id
    /\ \A m, n \in wire : m # n => m.req.id # n.req.id
    /\ \A m \in wire : m.req.id \in DOMAIN made /\ made[m.req.id] = m.req.uid

(* A request that is past create_central_request and is not Unqueued has    *)
(* its id; that of an entry of the queue was given to a request.           *)
UidsGiven ==
    /\ \A i \in DOMAIN queue :
          \/ queue[i] = Emptied
          \/ queue[i].uid # 0 /\ \E k \in DOMAIN made : made[k] = queue[i].uid
    /\ \A w \in Busy :
          worker[w].req.uid = 0 =>
             \/ worker[w].req.action \in Unqueued
             \/ worker[w].pc = "busy" /\ "create" \in worker[w].todo
    /\ \A m \in wire : m.req.uid = 0 => m.req.action \in Unqueued
    /\ \A h \in handled :
          h.req.uid = 0 => h.as = "none" /\ h.req.action \in Unqueued

(* An entry with the id of a request is that request's.                    *)
EntryFits(i, r) ==
    queue[i] # Emptied /\ queue[i].uid = r.uid /\ ~Twin(r) =>
        queue[i].action = r.action /\ r.action \notin Unqueued
EntriesFit ==
    /\ \A i \in DOMAIN queue, w \in Busy : EntryFits(i, worker[w].req)
    /\ \A i \in DOMAIN queue, m \in wire : EntryFits(i, m.req)

(* A queued request has an entry until it is confirmed.                    *)
HasEntry(r) ==
    r.action \notin Unqueued /\ r.id \notin raced /\ ~Twin(r) =>
        \E i \in DOMAIN queue : queue[i].uid = r.uid
EntriesKept ==
    /\ \A w \in Busy : "create" \notin worker[w].todo => HasEntry(worker[w].req)
    /\ \A m \in wire : HasEntry(m.req)

(* The requests that have yet to be queued count as well.                  *)
Pending == {w \in Worker : "create" \in worker[w].todo}
Confirmed == {h \in handled : h.as # "none"}
EntriesCounted ==
    /\ IsFiniteSet(Pending) /\ IsFiniteSet(Confirmed)
    /\ (\A h \in handled : ~h.kept) =>
          Len(queue) + Cardinality(Confirmed) + Cardinality(Pending) <= Len(made)
(* What an operation leaves of the queue: entries of q, or emptied ones.    *)
From(new, q) == \A i \in DOMAIN new : \/ new[i] = Emptied
                                     \/ \E j \in DOMAIN q : new[i] = q[j]

(* Two threads were in request_queue: no request with an id is counted on.  *)
AllRaced == \A i \in DOMAIN made' : made'[i] # 0 => i \in raced'

-----------------------------------------------------------------------------
(* The operators of the model *)

(* A set of natural numbers has a least one.                               *)
LEMMA LeastNumber ==
    ASSUME NEW S \in SUBSET Nat, S # {}
    PROVE  \E i \in S : \A j \in S : i <= j
<1>1. PICK i \in S : \A j \in S : ~(<<j, i>> \in OpToRel(<, Nat))
  BY WFMin, NatLessThanWellFounded
<1>2. \A j \in S : ~(j < i)
  BY <1>1 DEF OpToRel
<1>. QED BY <1>2

(* The queue without an entry: one shorter, and every other entry stays.   *)
LEMMA EntryErased ==
    ASSUME NEW S, NEW q \in Seq(S), NEW i \in 1..Len(q)
    PROVE  /\ RemoveAt(q, i) \in Seq(S)
           /\ Len(RemoveAt(q, i)) = Len(q) - 1
           /\ \A j \in 1..(Len(q) - 1) :
                 RemoveAt(q, i)[j] = IF j < i THEN q[j] ELSE q[j + 1]
<1>1. \A j \in 1..Len(q) : q[j] \in S
  OBVIOUS
<1>2. /\ SubSeq(q, 1, i - 1) \in Seq(S)
      /\ Len(SubSeq(q, 1, i - 1)) = i - 1
      /\ \A j \in 1..(i - 1) : SubSeq(q, 1, i - 1)[j] = q[j]
  BY <1>1, SubSeqProperties
<1>3. /\ SubSeq(q, i + 1, Len(q)) \in Seq(S)
      /\ Len(SubSeq(q, i + 1, Len(q))) = Len(q) - i
      /\ \A j \in 1..(Len(q) - i) : SubSeq(q, i + 1, Len(q))[j] = q[i + j]
  BY <1>1, SubSeqProperties
<1>4. /\ RemoveAt(q, i) \in Seq(S)
      /\ Len(RemoveAt(q, i)) = (i - 1) + (Len(q) - i)
      /\ \A j \in 1..((i - 1) + (Len(q) - i)) :
            RemoveAt(q, i)[j] = IF j <= i - 1 THEN SubSeq(q, 1, i - 1)[j]
                                ELSE SubSeq(q, i + 1, Len(q))[j - (i - 1)]
  <2>. DEFINE a == SubSeq(q, 1, i - 1)
              b == SubSeq(q, i + 1, Len(q))
  <2>. HIDE DEF a, b
  <2>1. /\ a \o b \in Seq(S) /\ Len(a \o b) = Len(a) + Len(b)
        /\ \A j \in 1..(Len(a) + Len(b)) :
              (a \o b)[j] = IF j <= Len(a) THEN a[j] ELSE b[j - Len(a)]
    BY <1>2, <1>3, ConcatProperties DEF a, b
  <2>. QED BY <1>2, <1>3, <2>1 DEF RemoveAt, a, b
<1>. QED BY <1>2, <1>3, <1>4

(* What may become of a queue in a race: of each entry itself or an empty   *)
(* one.                                                                    *)
LEMMA DamagedFacts ==
    ASSUME NEW q \in Seq(Entries), NEW new \in Damaged(q)
    PROVE  new \in Seq(Entries) /\ Len(new) = Len(q) /\ From(new, q)
<1>1. PICK lost \in SUBSET DOMAIN q :
         new = [i \in DOMAIN q |-> IF i \in lost THEN Emptied ELSE q[i]]
  BY DEF Damaged
<1>2. Emptied \in Entries
  BY DEF Emptied, Entries, Actions
<1>3. DOMAIN q = 1..Len(q) /\ Len(q) \in Nat /\ \A i \in DOMAIN q : q[i] \in Entries
  BY LenProperties
<1>4. new \in [1..Len(q) -> Entries]
  BY <1>1, <1>2, <1>3
<1>5. new \in Seq(Entries)
  BY <1>3, <1>4, SeqDef
<1>6. Len(new) = Len(q)
  BY <1>3, <1>4, <1>5, LenProperties
<1>7. From(new, q)
  BY <1>1 DEF From
<1>. QED BY <1>5, <1>6, <1>7

(* A sequence with one more element.                                       *)
LEMMA Appended ==
    ASSUME NEW S, NEW q \in Seq(S), NEW x \in S
    PROVE  /\ Append(q, x) \in Seq(S)
           /\ Len(Append(q, x)) = Len(q) + 1
           /\ DOMAIN Append(q, x) = DOMAIN q \cup {Len(q) + 1}
           /\ Len(q) + 1 \notin DOMAIN q
           /\ \A i \in DOMAIN q : Append(q, x)[i] = q[i]
           /\ Append(q, x)[Len(q) + 1] = x
<1>1. /\ Append(q, x) \in Seq(S) /\ Len(Append(q, x)) = Len(q) + 1
      /\ \A i \in 1..Len(q) : Append(q, x)[i] = q[i]
      /\ Append(q, x)[Len(q) + 1] = x
  BY AppendProperties
<1>2. /\ DOMAIN q = 1..Len(q) /\ DOMAIN Append(q, x) = 1..(Len(q) + 1)
      /\ Len(q) \in Nat
  BY <1>1, LenProperties
<1>. QED BY <1>1, <1>2

(* Entry x is added, and what was there stays; or it was a race.           *)
Adds(x) ==
    /\ queue' \in Seq(Entries) /\ Len(queue') <= Len(queue) + 1
    /\ \A i \in DOMAIN queue' :
          \/ queue'[i] = Emptied \/ queue'[i] = x
          \/ \E j \in DOMAIN queue : queue'[i] = queue[j]
    /\ \/ /\ \A j \in DOMAIN queue : j \in DOMAIN queue' /\ queue'[j] = queue[j]
          /\ \E i \in DOMAIN queue' : queue'[i] = x
       \/ AllRaced
    /\ raced \subseteq raced' /\ raced' \subseteq Nat

(* The end of an addToQueue, in a race or alone.                           *)
LEMMA AddsEntry ==
    ASSUME queue \in Seq(Entries), raced \subseteq Nat, made' \in Seq(Nat),
           NEW x \in Entries, NEW overlaps \in BOOLEAN, NEW given, made' = given,
           queue' \in Leaves(overlaps, Append(queue, x)), Races(overlaps, given)
    PROVE  Adds(x)
<1>. DEFINE q == Append(queue, x)
<1>1. /\ q \in Seq(Entries) /\ Len(q) = Len(queue) + 1
      /\ DOMAIN q = DOMAIN queue \cup {Len(queue) + 1}
      /\ \A i \in DOMAIN queue : q[i] = queue[i]
      /\ q[Len(queue) + 1] = x
  BY Appended
<1>2. queue' \in Leaves(overlaps, q)
  OBVIOUS
<1>. HIDE DEF q
<1>3. Len(queue) \in Nat /\ DOMAIN made' \subseteq Nat
  BY LenProperties
<1>4. CASE ~overlaps
  <2>1. queue' = q
    BY <1>2, <1>4 DEF Leaves
  <2>2. raced' = raced
    BY <1>4 DEF Races
  <2>3. \A j \in DOMAIN queue : j \in DOMAIN q /\ q[j] = queue[j]
    BY <1>1
  <2>4. \E i \in DOMAIN q : q[i] = x
    BY <1>1
  <2>5. Len(q) <= Len(queue) + 1
    BY <1>1, <1>3
  <2>6. \A i \in DOMAIN q : q[i] = x \/ \E j \in DOMAIN queue : q[i] = queue[j]
    BY <1>1
  <2>. QED BY <1>1, <2>1, <2>2, <2>3, <2>4, <2>5, <2>6, Zenon DEF Adds
<1>5. CASE overlaps
  <2>1. queue' \in Damaged(q) \/ queue' \in Damaged(queue)
    BY <1>2, <1>5 DEF Leaves
  <2>2. AllRaced /\ raced \subseteq raced' /\ raced' \subseteq Nat
    BY <1>3, <1>5 DEF Races, AllRaced
  <2>3. CASE queue' \in Damaged(q)
    <3>1. queue' \in Seq(Entries) /\ Len(queue') = Len(q) /\ From(queue', q)
      BY <1>1, <2>3, DamagedFacts
    <3>2. \A i \in DOMAIN queue' :
            \/ queue'[i] = Emptied \/ queue'[i] = x
            \/ \E j \in DOMAIN queue : queue'[i] = queue[j]
      BY <1>1, <3>1 DEF From
    <3>. QED BY <1>1, <1>3, <2>2, <3>1, <3>2 DEF Adds
  <2>4. CASE queue' \in Damaged(queue)
    <3>1. /\ queue' \in Seq(Entries) /\ Len(queue') = Len(queue)
          /\ From(queue', queue)
      BY <2>4, DamagedFacts
    <3>. QED BY <1>3, <2>2, <3>1 DEF Adds, From
  <2>. QED BY <2>1, <2>3, <2>4
<1>. QED BY <1>4, <1>5

-----------------------------------------------------------------------------
(* What each step does to the thread that takes it and to the others *)

(* Only the thread w is at work, and the others keep what they have.       *)
OnlyWorker(w) ==
    /\ worker' \in [Worker -> Workers]
    /\ \A v \in Worker \ {w} : worker'[v] = worker[v]

(* A command starts as a new request without entry.                        *)
LEMMA CommandShape ==
    ASSUME ReqTypeOK, NEW w \in Worker, NEW s \in Sern, NEW a \in Action,
           Command(w, s, a)
    PROVE  /\ OnlyWorker(w)
           /\ worker[w].pc = "idle" /\ worker'[w].pc = "busy"
           /\ worker'[w].req.id = Len(made) + 1
           /\ worker'[w].req.s = s /\ worker'[w].req.action = a
           /\ worker'[w].addr = NoEndpoint
           /\ IF a \in Unqueued
              THEN worker'[w].todo = {"look"}
              ELSE worker'[w].todo = {"create", "look"} /\ worker'[w].req.uid = 0
           /\ made' = Append(made, worker'[w].req.uid)
           /\ UNCHANGED <<vars, queue, wire, ms, handled, raced>>
<1>. DEFINE u == IF a = "SetChargeLimit" THEN Global_GenerateTextUID ELSE 0
            r == Request(NextId, s, a, u)
            q == [Resting EXCEPT !.pc = "busy", !.req = r,
                     !.todo = IF a \in Unqueued THEN {"look"}
                              ELSE {"create", "look"}]
<1>1. u \in Nat /\ (a \notin Unqueued => u = 0)
  BY UnqueuedAssumption DEF Global_GenerateTextUID, ReqTypeOK
<1>2. Len(made) + 1 \in Nat
  BY LenProperties DEF ReqTypeOK
<1>3. r \in Requests /\ r.id = Len(made) + 1 /\ r.s = s /\ r.action = a /\ r.uid = u
  BY <1>1, <1>2 DEF Request, Requests, NextId, Actions
<1>4. /\ worker' = [worker EXCEPT ![w] = q]
      /\ made' = Append(made, r.uid)
      /\ worker[w].pc = "idle"
      /\ UNCHANGED <<vars, queue, wire, ms, handled, raced>>
  BY DEF Command, Steps
<1>. HIDE DEF r, u
<1>5. q \in Workers /\ q.pc = "busy" /\ q.req = r /\ q.addr = NoEndpoint
  BY <1>3 DEF Resting, Workers
<1>6. q.todo = IF a \in Unqueued THEN {"look"} ELSE {"create", "look"}
  BY DEF Resting
<1>. HIDE DEF q
<1>7. worker' \in [Worker -> Workers] /\ worker'[w] = q
  BY <1>4, <1>5 DEF ReqTypeOK
<1>8. \A v \in Worker \ {w} : worker'[v] = worker[v]
  BY <1>4 DEF ReqTypeOK
<1>9. OnlyWorker(w)
  BY <1>7, <1>8 DEF OnlyWorker
<1>. QED BY <1>1, <1>3, <1>4, <1>5, <1>6, <1>7, <1>9

(* create_central_request gives the request its unique id.                 *)
LEMMA CreateShape ==
    ASSUME ReqTypeOK, NEW w \in Worker, worker[w].req.id \in DOMAIN made,
           create_central_request(w)
    PROVE  /\ OnlyWorker(w)
           /\ worker[w].pc = "busy" /\ "create" \in worker[w].todo
           /\ worker'[w].pc = "adding" /\ worker'[w].todo = worker[w].todo
           /\ worker'[w].req.id = worker[w].req.id
           /\ worker'[w].req.s = worker[w].req.s
           /\ worker'[w].req.action = worker[w].req.action
           /\ worker'[w].req.uid = ms
           /\ worker'[w].addr = worker[w].addr
           /\ made' = [made EXCEPT ![worker[w].req.id] = ms]
           /\ raced \subseteq raced' /\ raced' \subseteq Nat
           /\ UNCHANGED <<vars, queue, wire, ms, handled>>
<1>. DEFINE p == worker[w]
            q == [p EXCEPT !.pc = "adding", !.req.uid = ms]
<1>2. /\ worker' = [worker EXCEPT ![w].pc = "adding", ![w].req.uid = ms]
      /\ made' = [made EXCEPT ![worker[w].req.id] = ms]
      /\ worker[w].pc = "busy" /\ "create" \in worker[w].todo
      /\ Races(Adding # {}, made')
      /\ UNCHANGED <<vars, queue, wire, ms, handled>>
  BY DEF create_central_request, Global_GenerateTextUID
<1>3. p \in Workers /\ ms \in Nat
  BY DEF ReqTypeOK
<1>4. worker' = [worker EXCEPT ![w] = q]
  BY <1>2, <1>3 DEF Workers, Requests, ReqTypeOK
<1>. HIDE DEF p
<1>5. q \in Workers /\ q.pc = "adding" /\ q.todo = p.todo /\ q.addr = p.addr
  BY <1>3 DEF Workers, Requests
<1>6. /\ q.req.id = p.req.id /\ q.req.s = p.req.s /\ q.req.action = p.req.action
      /\ q.req.uid = ms
  BY <1>3 DEF Workers, Requests
<1>. HIDE DEF q
<1>7. worker' \in [Worker -> Workers] /\ worker'[w] = q
  BY <1>4, <1>5 DEF ReqTypeOK
<1>8. \A v \in Worker \ {w} : worker'[v] = worker[v]
  BY <1>4 DEF ReqTypeOK
<1>9. OnlyWorker(w)
  BY <1>7, <1>8 DEF OnlyWorker
<1>10. raced \subseteq raced' /\ raced' \subseteq Nat
  <2>1. DOMAIN made' = DOMAIN made /\ DOMAIN made \subseteq Nat /\ raced \subseteq Nat
    BY <1>2, LenProperties DEF ReqTypeOK
  <2>. QED BY <1>2, <2>1 DEF Races
<1>. QED BY <1>2, <1>5, <1>6, <1>7, <1>9, <1>10 DEF p

(* The end of addToQueue.                                                  *)
LEMMA AddedShape ==
    ASSUME ReqTypeOK, NEW w \in Worker, Added(w)
    PROVE  /\ OnlyWorker(w)
           /\ worker[w].pc = "adding" /\ worker'[w].pc = "busy"
           /\ worker'[w].todo = worker[w].todo \ {"create"}
           /\ worker'[w].req = worker[w].req
           /\ worker'[w].addr = worker[w].addr
           /\ [uid |-> worker[w].req.uid, action |-> worker[w].req.action] \in Entries
           /\ Adds([uid |-> worker[w].req.uid, action |-> worker[w].req.action])
           /\ UNCHANGED <<vars, wire, ms, made, handled>>
<1>. DEFINE q == [worker[w] EXCEPT !.pc = "busy", !.todo = worker[w].todo \ {"create"}]
            x == [uid |-> worker[w].req.uid, action |-> worker[w].req.action]
            overlaps == worker[w].req.id \in raced
<1>2. /\ worker' = [worker EXCEPT ![w] = q]
      /\ worker[w].pc = "adding"
      /\ queue' \in Leaves(overlaps, Append(queue, x))
      /\ Races(overlaps, made)
      /\ UNCHANGED <<vars, wire, ms, made, handled>>
  BY DEF Added, addToQueue, EntryOf, ReqTypeOK, Workers
<1>3. /\ q \in Workers /\ q.pc = "busy" /\ q.todo = worker[w].todo \ {"create"}
      /\ q.addr = worker[w].addr /\ q.req = worker[w].req
  BY DEF ReqTypeOK, Workers
<1>4. /\ x \in Entries /\ overlaps \in BOOLEAN /\ queue \in Seq(Entries)
      /\ raced \subseteq Nat /\ made \in Seq(Nat)
  BY DEF ReqTypeOK, Workers, Requests, Entries
<1>. HIDE DEF q, x, overlaps
<1>5. Adds(x)
  BY <1>2, <1>4, AddsEntry
<1>6. worker' \in [Worker -> Workers] /\ worker'[w] = q
  BY <1>2, <1>3 DEF ReqTypeOK
<1>7. \A v \in Worker \ {w} : worker'[v] = worker[v]
  BY <1>2 DEF ReqTypeOK
<1>8. OnlyWorker(w)
  BY <1>6, <1>7 DEF OnlyWorker
<1>9. Adds([uid |-> worker[w].req.uid, action |-> worker[w].req.action])
  BY <1>5 DEF x
<1>10. [uid |-> worker[w].req.uid, action |-> worker[w].req.action] \in Entries
  BY <1>4 DEF x
<1>. QED BY <1>2, <1>3, <1>6, <1>8, <1>9, <1>10

(* The address is read from the row of the request's station.              *)
LEMMA LookShape ==
    ASSUME ReqTypeOK, TypeOK, NEW w \in Worker, worker[w].req.s \in Sern,
           getIPAddrBySerNumber(w)
    PROVE  /\ OnlyWorker(w)
           /\ worker[w].pc = "busy" /\ worker'[w].pc = "busy"
           /\ worker'[w].todo = worker[w].todo \ {"look"}
           /\ worker'[w].req = worker[w].req
           /\ worker'[w].addr = cs[worker[w].req.s].IPAddr
           /\ \/ UNCHANGED vars
              \/ createUpdateFWRequestfromWeb(worker[w].req.s)
           /\ UNCHANGED <<queue, wire, ms, made, handled, raced>>
<1>. DEFINE q == [worker[w] EXCEPT !.todo = worker[w].todo \ {"look"},
                                   !.addr = cs[worker[w].req.s].IPAddr]
<1>1. /\ worker' = [worker EXCEPT ![w] = q]
      /\ worker[w].pc = "busy"
      /\ \/ UNCHANGED vars
         \/ createUpdateFWRequestfromWeb(worker[w].req.s)
      /\ UNCHANGED <<queue, wire, ms, made, handled, raced>>
  BY DEF getIPAddrBySerNumber, ReqTypeOK, Workers
<1>2. cs[worker[w].req.s].IPAddr \in Endpoint \cup {NoEndpoint}
  BY DEF TypeOK, Row
<1>3. /\ q \in Workers /\ q.pc = worker[w].pc /\ q.req = worker[w].req
      /\ q.todo = worker[w].todo \ {"look"} /\ q.addr = cs[worker[w].req.s].IPAddr
  BY <1>2 DEF ReqTypeOK, Workers
<1>. HIDE DEF q
<1>4. worker' \in [Worker -> Workers] /\ worker'[w] = q
  BY <1>1, <1>3 DEF ReqTypeOK
<1>5. \A v \in Worker \ {w} : worker'[v] = worker[v]
  BY <1>1 DEF ReqTypeOK
<1>6. OnlyWorker(w)
  BY <1>4, <1>5 DEF OnlyWorker
<1>. QED BY <1>1, <1>3, <1>4, <1>6

(* A thread at rest.                                                       *)
LEMMA RestingFacts ==
    /\ Resting \in Workers /\ Resting.pc = "idle" /\ Resting.todo = {}
    /\ Resting.addr = NoEndpoint
BY DEF Resting, NoRequest, Request, Workers, Requests, Actions

(* The connection with the address is found, or the command ends.          *)
LEMMA FindShape ==
    ASSUME ReqTypeOK, TypeOK, NEW w \in Worker, get_ocpp_client_connection(w)
    PROVE  /\ OnlyWorker(w)
           /\ worker[w].pc = "busy" /\ worker[w].todo = {}
           /\ worker'[w].todo = {}
           /\ \/ worker'[w] = Resting
              \/ /\ worker'[w].pc = "send" /\ worker'[w].req = worker[w].req
                 /\ worker'[w].addr = worker[w].addr
                 /\ worker'[w].handle = worker[w].addr
                 /\ worker[w].addr \in Endpoint
           /\ UNCHANGED <<vars, queue, wire, ms, made, handled, raced>>
<1>1. /\ worker' = [worker EXCEPT ![w] =
                       IF worker[w].addr \in m_connections
                       THEN [worker[w] EXCEPT !.pc = "send", !.handle = worker[w].addr]
                       ELSE Resting]
      /\ worker[w].pc = "busy" /\ worker[w].todo = {}
      /\ UNCHANGED <<vars, queue, wire, ms, made, handled, raced>>
  BY DEF get_ocpp_client_connection, ReqTypeOK
<1>2. worker[w] \in Workers /\ m_connections \subseteq Endpoint
  BY DEF ReqTypeOK, TypeOK
<1>3. CASE worker[w].addr \in m_connections
  <2>. DEFINE q == [worker[w] EXCEPT !.pc = "send", !.handle = worker[w].addr]
  <2>1. /\ q \in Workers /\ q.pc = "send" /\ q.todo = worker[w].todo
        /\ q.addr = worker[w].addr /\ q.handle = worker[w].addr
        /\ q.req = worker[w].req
    BY <1>2 DEF Workers
  <2>2. worker' = [worker EXCEPT ![w] = q]
    BY <1>1, <1>3
  <2>. HIDE DEF q
  <2>3. worker' \in [Worker -> Workers] /\ worker'[w] = q
    BY <2>1, <2>2 DEF ReqTypeOK
  <2>4. OnlyWorker(w)
    BY <2>2, <2>3 DEF OnlyWorker, ReqTypeOK
  <2>. QED BY <1>1, <1>2, <1>3, <2>1, <2>3, <2>4
<1>4. CASE worker[w].addr \notin m_connections
  <2>2. worker' = [worker EXCEPT ![w] = Resting]
    BY <1>1, <1>4
  <2>3. worker' \in [Worker -> Workers] /\ worker'[w] = Resting
    BY <2>2, RestingFacts DEF ReqTypeOK
  <2>4. OnlyWorker(w)
    BY <2>2, <2>3 DEF OnlyWorker, ReqTypeOK
  <2>. QED BY <1>1, <2>3, <2>4, RestingFacts
<1>. QED BY <1>3, <1>4

(* The request goes to where the handle leads, which another thread may     *)
(* have overwritten, or nowhere.                                           *)
LEMMA SendShape ==
    ASSUME ReqTypeOK, NEW w \in Worker, sendResponse2Client(w)
    PROVE  /\ OnlyWorker(w)
           /\ worker[w].pc = "send" /\ worker'[w] = Resting
           /\ \/ wire' = wire
              \/ \E m : /\ wire' = wire \cup {m}
                        /\ m \in [e : m_connections, req : Requests]
                        /\ m.req.id = worker[w].req.id
                        /\ m.req.s = worker[w].req.s
                        /\ m.req.action = worker[w].req.action
                        /\ m.req.uid = worker[w].req.uid
                        /\ ~m.req.reused => m.e = worker[w].handle
           /\ UNCHANGED <<vars, queue, ms, made, handled, raced>>
<1>1. /\ worker' = [worker EXCEPT ![w] = Resting]
      /\ worker[w].pc = "send"
      /\ UNCHANGED <<vars, queue, ms, made, handled, raced>>
  BY DEF sendResponse2Client
<1>2. worker' \in [Worker -> Workers] /\ worker'[w] = Resting
  BY <1>1, RestingFacts DEF ReqTypeOK
<1>3. OnlyWorker(w)
  BY <1>1, <1>2 DEF OnlyWorker, ReqTypeOK
<1>4. PICK v \in Worker :
         wire' = IF worker[v].handle \in m_connections
                 THEN wire \cup {[e |-> worker[v].handle,
                                  req |-> [worker[w].req EXCEPT !.reused = (v # w)]]}
                 ELSE wire
  BY DEF sendResponse2Client
<1>5. CASE worker[v].handle \in m_connections
  <2>. DEFINE r == [worker[w].req EXCEPT !.reused = (v # w)]
              m == [e |-> worker[v].handle, req |-> r]
  <2>1. worker[w].req \in Requests
    BY DEF ReqTypeOK, Workers
  <2>2. (v # w) \in BOOLEAN
    OBVIOUS
  <2>3. r \in Requests /\ r.reused = (v # w)
    BY <2>1, <2>2 DEF Requests
  <2>4. /\ r.id = worker[w].req.id /\ r.s = worker[w].req.s
        /\ r.action = worker[w].req.action /\ r.uid = worker[w].req.uid
    BY <2>1 DEF Requests
  <2>. HIDE DEF r
  <2>5. m \in [e : m_connections, req : Requests] /\ m.req = r
    BY <1>5, <2>3
  <2>6. ~r.reused => m.e = worker[w].handle
    BY <2>3
  <2>7. wire' = wire \cup {m}
    BY <1>4, <1>5 DEF r
  <2>. HIDE DEF m
  <2>8. \E n : /\ wire' = wire \cup {n}
               /\ n \in [e : m_connections, req : Requests]
               /\ n.req.id = worker[w].req.id
               /\ n.req.s = worker[w].req.s
               /\ n.req.action = worker[w].req.action
               /\ n.req.uid = worker[w].req.uid
               /\ ~n.req.reused => n.e = worker[w].handle
    BY <2>4, <2>5, <2>6, <2>7
  <2>. QED BY <1>1, <1>2, <1>3, <2>8
<1>6. CASE worker[v].handle \notin m_connections
  BY <1>1, <1>2, <1>3, <1>4, <1>6
<1>. QED BY <1>5, <1>6
(* A StartTransaction makes a request and sends it at once.                *)
LEMMA StartShape ==
    ASSUME ReqTypeOK, NEW e \in Endpoint, StartTransaction(e)
    PROVE  /\ worker' \in [Worker -> Workers]
           /\ \A v \in Worker : worker'[v] = worker[v]
           /\ made' = Append(made, ms)
           /\ UNCHANGED <<vars, ms, handled>>
           /\ [uid |-> ms, action |-> "SetChargingProfile"] \in Entries
           /\ Adds([uid |-> ms, action |-> "SetChargingProfile"])
           /\ \E m : /\ wire' = wire \cup {m}
                     /\ m \in [e : Endpoint, req : Requests] /\ m.e = e
                     /\ m.req.id = Len(made) + 1 /\ m.req.s = HomeOf[e]
                     /\ m.req.action = "SetChargingProfile"
                     /\ m.req.uid = ms
<1>. DEFINE r == Request(NextId, HomeOf[e], "SetChargingProfile", ms)
            m == [e |-> e, req |-> r]
            overlaps == Adding # {}
            x == [uid |-> ms, action |-> "SetChargingProfile"]
<1>1. /\ made' = Append(made, r.uid)
      /\ wire' = wire \cup {m}
      /\ queue' \in Leaves(overlaps, Append(queue, [uid |-> r.uid, action |-> r.action]))
      /\ Races(overlaps, made')
      /\ UNCHANGED <<vars, worker, ms, handled>>
  BY DEF StartTransaction, addToQueue, EntryOf, Global_GenerateTextUID
<1>2. Len(made) + 1 \in Nat /\ ms \in Nat /\ HomeOf[e] \in Sern
  BY LenProperties, HomeOfAssumption DEF ReqTypeOK
<1>3. /\ overlaps \in BOOLEAN /\ x \in Entries
      /\ queue \in Seq(Entries) /\ raced \subseteq Nat
  BY <1>2 DEF ReqTypeOK, Entries, Actions
<1>4. /\ r \in Requests /\ r.id = Len(made) + 1 /\ r.s = HomeOf[e]
      /\ r.action = "SetChargingProfile" /\ r.uid = ms
  BY <1>2 DEF Request, Requests, NextId, Actions
<1>. HIDE DEF r, overlaps
<1>5. m \in [e : Endpoint, req : Requests] /\ m.req = r /\ m.e = e
  BY <1>4
<1>6. queue' \in Leaves(overlaps, Append(queue, x))
  BY <1>1, <1>4
<1>. HIDE DEF m, x
<1>7. made' = Append(made, ms) /\ made' \in Seq(Nat)
  BY <1>1, <1>2, <1>4, Appended DEF ReqTypeOK
<1>8. Adds(x)
  BY <1>1, <1>3, <1>6, <1>7, AddsEntry
<1>9. /\ [uid |-> ms, action |-> "SetChargingProfile"] \in Entries
      /\ Adds([uid |-> ms, action |-> "SetChargingProfile"])
  BY <1>3, <1>8 DEF x
<1>10. worker' \in [Worker -> Workers] /\ \A v \in Worker : worker'[v] = worker[v]
  BY <1>1 DEF ReqTypeOK
<1>. QED BY <1>1, <1>4, <1>5, <1>7, <1>9, <1>10

(* What getActionByUID finds: the action of an entry with the id, which it  *)
(* erases, or that there is none.                                          *)
LEMMA FoundFacts ==
    ASSUME NEW q \in Seq(Entries), NEW uid, NEW action, NEW left,
           getActionByUID(q, uid, action, left)
    PROVE  \/ /\ \A i \in DOMAIN q : q[i].uid # uid
              /\ action = "none" /\ left = q
           \/ \E i \in DOMAIN q : /\ q[i].uid = uid /\ action = q[i].action
                                  /\ left = RemoveAt(q, i)
<1>1. DOMAIN q \subseteq Nat
  BY LenProperties
<1>2. Matches(q, uid) \in SUBSET Nat
  BY <1>1 DEF Matches
<1>3. Matches(q, uid) # {} => Found(q, uid) # {}
  <2>. HAVE Matches(q, uid) # {}
  <2>1. \E i \in Matches(q, uid) : \A j \in Matches(q, uid) : i <= j
    BY <1>2, LeastNumber
  <2>. QED BY <2>1 DEF Found
<1>. QED BY <1>3 DEF Matches, Found, getActionByUID

(* The queue without one of its entries.                                   *)
LEMMA RemovedFrom ==
    ASSUME NEW q \in Seq(Entries), NEW k \in DOMAIN q
    PROVE  /\ RemoveAt(q, k) \in Seq(Entries)
           /\ Len(RemoveAt(q, k)) = Len(q) - 1
           /\ From(RemoveAt(q, k), q)
           /\ \A j \in DOMAIN q : j # k =>
                 \E i \in DOMAIN RemoveAt(q, k) : RemoveAt(q, k)[i] = q[j]
<1>. DEFINE r == RemoveAt(q, k)
<1>1. DOMAIN q = 1..Len(q) /\ Len(q) \in Nat
  BY LenProperties
<1>2. /\ r \in Seq(Entries) /\ Len(r) = Len(q) - 1
      /\ \A j \in 1..(Len(q) - 1) : r[j] = IF j < k THEN q[j] ELSE q[j + 1]
  <2>1. k \in 1..Len(q)
    BY <1>1
  <2>. QED BY <2>1, EntryErased
<1>. HIDE DEF r
<1>3. DOMAIN r = 1..(Len(q) - 1)
  BY <1>2, LenProperties
<1>4. From(r, q)
  BY <1>1, <1>2, <1>3 DEF From
<1>5. ASSUME NEW j \in DOMAIN q, j # k
      PROVE  \E i \in DOMAIN r : r[i] = q[j]
  <2>1. CASE j < k
    <3>1. j \in 1..(Len(q) - 1)
      BY <1>1, <2>1
    <3>. QED BY <1>2, <1>3, <2>1, <3>1
  <2>2. CASE j > k
    <3>1. j - 1 \in 1..(Len(q) - 1) /\ ~(j - 1 < k) /\ (j - 1) + 1 = j
      BY <1>1, <2>2
    <3>2. r[j - 1] = q[j]
      BY <1>2, <3>1
    <3>. QED BY <1>3, <3>1, <3>2
  <2>. QED BY <1>1, <1>5, <2>1, <2>2
<1>. QED BY <1>2, <1>4, <1>5 DEF r

(* The search for uid in the queue ends with action: of an entry, or none.  *)
Finds(uid, action) ==
    \/ action = "none"
    \/ \E i \in DOMAIN queue : queue[i].uid = uid /\ action = queue[i].action

(* A confirmation takes the request from the wire and its entry from the    *)
(* queue; in a race it may miss the entry and leave the queue damaged.     *)
LEMMA ConfirmShape ==
    ASSUME ReqTypeOK, NEW m \in wire, processIncomingCPResponseMessage(m)
    PROVE  /\ worker' \in [Worker -> Workers]
           /\ \A v \in Worker : worker'[v] = worker[v]
           /\ wire' = wire \ {m}
           /\ UNCHANGED <<ms, made>>
           /\ UNCHANGED vars \/ \E tz \in Zone : DataTransferConf(m.e, tz)
           /\ raced \subseteq raced' /\ raced' \subseteq Nat
           /\ queue' \in Seq(Entries) /\ From(queue', queue)
           /\ \E action \in Actions, kept \in BOOLEAN :
                 /\ handled' = handled \cup
                       {[req |-> m.req, as |-> action, kept |-> kept]}
                 /\ \/ /\ \A i \in DOMAIN queue : queue[i].uid # m.req.uid
                       /\ action = "none" /\ queue' = queue
                    \/ \E i \in DOMAIN queue :
                          /\ queue[i].uid = m.req.uid
                          /\ action = queue[i].action
                          /\ queue' = RemoveAt(queue, i)
                    \/ kept /\ AllRaced /\ Finds(m.req.uid, action)
<1>. DEFINE overlaps == Adding # {}
<1>1. PICK seen \in IF overlaps THEN Damaged(queue) ELSE {queue} :
      \E action \in Action \cup {"SetChargingProfile", "none"} :
      \E left \in {seen} \cup {RemoveAt(seen, i) : i \in DOMAIN seen} :
          /\ getActionByUID(seen, m.req.uid, action, left)
          /\ queue' \in Leaves(overlaps, left)
          /\ handled' = handled \cup
                {[req |-> m.req, as |-> action, kept |-> overlaps]}
          /\ \/ UNCHANGED vars
             \/ \E tz \in Zone : DataTransferConf(m.e, tz)
  BY DEF processIncomingCPResponseMessage
<1>2. PICK action \in Actions :
      \E left \in {seen} \cup {RemoveAt(seen, i) : i \in DOMAIN seen} :
          /\ getActionByUID(seen, m.req.uid, action, left)
          /\ queue' \in Leaves(overlaps, left)
          /\ handled' = handled \cup
                {[req |-> m.req, as |-> action, kept |-> overlaps]}
          /\ \/ UNCHANGED vars
             \/ \E tz \in Zone : DataTransferConf(m.e, tz)
  BY <1>1, Zenon DEF Actions
<1>3. PICK left : /\ getActionByUID(seen, m.req.uid, action, left)
                  /\ queue' \in Leaves(overlaps, left)
                  /\ handled' = handled \cup
                        {[req |-> m.req, as |-> action, kept |-> overlaps]}
  BY <1>2, Zenon
<1>4. /\ worker' = worker /\ wire' = wire \ {m} /\ UNCHANGED <<ms, made>>
      /\ Races(overlaps, made)
  BY DEF processIncomingCPResponseMessage
<1>5. /\ queue \in Seq(Entries) /\ overlaps \in BOOLEAN /\ m.req.uid \in Nat
      /\ raced \subseteq Nat /\ DOMAIN made \subseteq Nat
  BY LenProperties DEF ReqTypeOK, Requests
<1>. HIDE DEF overlaps
<1>6. raced \subseteq raced' /\ raced' \subseteq Nat
  BY <1>4, <1>5 DEF Races
<1>7. seen \in Seq(Entries) /\ From(seen, queue) /\ (~overlaps => seen = queue)
  <2>1. CASE overlaps
    BY <1>5, <2>1, DamagedFacts
  <2>2. CASE ~overlaps
    BY <1>5, <2>2 DEF From
  <2>. QED BY <2>1, <2>2
<1>8. \/ /\ \A i \in DOMAIN seen : seen[i].uid # m.req.uid
         /\ action = "none" /\ left = seen
      \/ \E i \in DOMAIN seen : /\ seen[i].uid = m.req.uid /\ action = seen[i].action
                                /\ left = RemoveAt(seen, i)
  BY <1>3, <1>7, FoundFacts
<1>9. left \in Seq(Entries) /\ From(left, queue)
  <2>1. left \in Seq(Entries) /\ From(left, seen)
    BY <1>7, <1>8, RemovedFrom DEF From
  <2>. QED BY <1>7, <2>1 DEF From
<1>10. Finds(m.req.uid, action)
  <2>1. ASSUME NEW i \in DOMAIN seen, seen[i].uid = m.req.uid, action = seen[i].action
        PROVE  Finds(m.req.uid, action)
    <3>1. seen[i] # Emptied
      BY <1>5, <2>1 DEF Emptied
    <3>2. PICK j \in DOMAIN queue : seen[i] = queue[j]
      BY <1>7, <3>1 DEF From
    <3>. QED BY <2>1, <3>2 DEF Finds
  <2>. QED BY <1>8, <2>1 DEF Finds
<1>11. CASE overlaps
  <2>1. queue' \in Damaged(left) \/ queue' \in Damaged(queue)
    BY <1>3, <1>11 DEF Leaves
  <2>2. queue' \in Seq(Entries) /\ (From(queue', left) \/ From(queue', queue))
    BY <1>5, <1>9, <2>1, DamagedFacts
  <2>3. From(queue', queue)
    BY <1>9, <2>2 DEF From
  <2>4. AllRaced
    BY <1>4, <1>11 DEF Races, AllRaced
  <2>5. \E kept \in BOOLEAN :
           /\ handled' = handled \cup {[req |-> m.req, as |-> action, kept |-> kept]}
           /\ kept /\ AllRaced /\ Finds(m.req.uid, action)
    BY <1>3, <1>5, <1>10, <1>11, <2>4, Zenon
  <2>6. UNCHANGED vars \/ \E tz \in Zone : DataTransferConf(m.e, tz)
    BY <1>2
  <2>7. worker' \in [Worker -> Workers] /\ \A v \in Worker : worker'[v] = worker[v]
    BY <1>4 DEF ReqTypeOK
  <2>. QED BY <1>4, <1>6, <2>2, <2>3, <2>5, <2>6, <2>7
<1>12. CASE ~overlaps
  <2>1. queue' = left /\ seen = queue
    BY <1>3, <1>7, <1>12 DEF Leaves
  <2>2. \E kept \in BOOLEAN :
         /\ handled' = handled \cup {[req |-> m.req, as |-> action, kept |-> kept]}
         /\ \/ /\ \A i \in DOMAIN queue : queue[i].uid # m.req.uid
               /\ action = "none" /\ queue' = queue
            \/ \E i \in DOMAIN queue :
                  /\ queue[i].uid = m.req.uid
                  /\ action = queue[i].action
                  /\ queue' = RemoveAt(queue, i)
    BY <1>3, <1>5, <1>8, <2>1
  <2>3. UNCHANGED vars \/ \E tz \in Zone : DataTransferConf(m.e, tz)
    BY <1>2
  <2>4. worker' \in [Worker -> Workers] /\ \A v \in Worker : worker'[v] = worker[v]
    BY <1>4 DEF ReqTypeOK
  <2>. QED BY <1>4, <1>6, <1>9, <2>1, <2>2, <2>3, <2>4
<1>. QED BY <1>11, <1>12

-----------------------------------------------------------------------------
(* The invariants of the threads *)

(* The steps that leave the threads and the histories alone.               *)
LEMMA QuietStep ==
    ASSUME ReqTypeOK, NextMs \/ (\E e \in Endpoint : Connection(e))
    PROVE  /\ ReqTypeOK'
           /\ UNCHANGED <<worker, queue, made, handled, raced>>
           /\ wire' \subseteq wire
<1>1. CASE NextMs
  BY <1>1 DEF NextMs, ReqTypeOK
<1>2. CASE \E e \in Endpoint : Connection(e)
  BY <1>2 DEF Connection, reqVars, ReqTypeOK
<1>. QED BY <1>1, <1>2

(* Every step keeps the types and the stages of the threads.               *)
LEMMA ThreadsStep ==
    ASSUME TypeOK, ReqTypeOK, ThreadsInStep, OnePlace, [ReqNext]_<<vars, reqVars>>
    PROVE  ReqTypeOK' /\ ThreadsInStep'
<1>0. DOMAIN made = 1..Len(made) /\ Len(made) \in Nat
  BY LenProperties DEF ReqTypeOK
<1>1. CASE UNCHANGED <<vars, reqVars>>
  BY <1>1 DEF reqVars, ReqTypeOK, ThreadsInStep, InStep
<1>2. CASE NextMs \/ \E e \in Endpoint : Connection(e)
  BY <1>2, QuietStep DEF ThreadsInStep, InStep
<1>3. ASSUME NEW w \in Worker, NEW s \in Sern, NEW a \in Action, Command(w, s, a)
      PROVE  ReqTypeOK' /\ ThreadsInStep'
  <2>1. /\ OnlyWorker(w) /\ worker'[w].pc = "busy"
        /\ worker'[w].req.id = Len(made) + 1
        /\ worker'[w].req.s = s /\ worker'[w].req.action = a
        /\ IF a \in Unqueued
           THEN worker'[w].todo = {"look"}
           ELSE worker'[w].todo = {"create", "look"} /\ worker'[w].req.uid = 0
        /\ made' = Append(made, worker'[w].req.uid)
        /\ UNCHANGED <<vars, queue, wire, ms, handled, raced>>
    BY <1>3, CommandShape
  <2>2. worker'[w].req.uid \in Nat /\ made \in Seq(Nat)
    BY <2>1 DEF OnlyWorker, Workers, Requests, ReqTypeOK
  <2>3. /\ made' \in Seq(Nat) /\ DOMAIN made' = DOMAIN made \cup {Len(made) + 1}
        /\ \A i \in DOMAIN made : made'[i] = made[i]
        /\ made'[Len(made) + 1] = worker'[w].req.uid
    BY <2>1, <2>2, Appended
  <2>4. ReqTypeOK'
    BY <2>1, <2>3 DEF ReqTypeOK, OnlyWorker
  <2>5. \A v \in Worker : v # w => worker'[v] = worker[v]
    BY <2>1 DEF OnlyWorker
  <2>6. "create" \in worker'[w].todo => a \notin Unqueued /\ worker'[w].req.uid = 0
    BY <2>1
  <2>7. /\ worker'[w].pc = "busy" /\ worker'[w].req.s \in Sern
        /\ worker'[w].req.id \in DOMAIN made'
        /\ made'[worker'[w].req.id] = worker'[w].req.uid
        /\ worker'[w].req.action = a
    BY <2>1, <2>3
  <2>8. ASSUME NEW v \in Worker PROVE InStep(v)'
    <3>1. CASE v = w
      BY <2>6, <2>7, <3>1 DEF InStep
    <3>2. CASE v # w
      <4>1. InStep(v) /\ worker'[v] = worker[v]
        BY <2>5, <3>2 DEF ThreadsInStep
      <4>2. worker[v].req.id \in DOMAIN made =>
               /\ worker[v].req.id \in DOMAIN made'
               /\ made'[worker[v].req.id] = made[worker[v].req.id]
        BY <2>3
      <4>. QED BY <4>1, <4>2 DEF InStep
    <3>. QED BY <3>1, <3>2
  <2>. QED BY <2>4, <2>8 DEF ThreadsInStep
<1>4. ASSUME NEW w \in Worker, create_central_request(w)
      PROVE  ReqTypeOK' /\ ThreadsInStep'
  <2>0. worker[w].req.id \in DOMAIN made
    BY <1>4 DEF create_central_request, ThreadsInStep, InStep
  <2>1. /\ OnlyWorker(w)
        /\ worker[w].pc = "busy" /\ "create" \in worker[w].todo
        /\ worker'[w].pc = "adding" /\ worker'[w].todo = worker[w].todo
        /\ worker'[w].req.id = worker[w].req.id
        /\ worker'[w].req.s = worker[w].req.s
        /\ worker'[w].req.action = worker[w].req.action
        /\ worker'[w].req.uid = ms
        /\ made' = [made EXCEPT ![worker[w].req.id] = ms]
        /\ raced' \subseteq Nat
        /\ UNCHANGED <<vars, queue, wire, ms, handled>>
    BY <1>4, <2>0, CreateShape
  <2>2. worker[w].req.id \in DOMAIN made /\ worker[w].req.s \in Sern
    BY <2>1 DEF ThreadsInStep, InStep
  <2>3. /\ DOMAIN made' = DOMAIN made
        /\ \A i \in DOMAIN made : i # worker[w].req.id => made'[i] = made[i]
        /\ made'[worker[w].req.id] = ms
    BY <2>1, <2>2
  <2>4. made' \in Seq(Nat)
    <3>1. made \in [1..Len(made) -> Nat] /\ ms \in Nat
      BY LenProperties DEF ReqTypeOK
    <3>2. made' \in [1..Len(made) -> Nat]
      BY <1>0, <2>1, <3>1
    <3>. QED BY <1>0, <3>2, SeqDef
  <2>5. ReqTypeOK'
    BY <2>1, <2>4 DEF ReqTypeOK, OnlyWorker
  <2>6. \A v \in Worker : v # w /\ worker[v].pc # "idle"
                          => worker[v].req.id # worker[w].req.id
    BY <2>1 DEF OnePlace, Busy
  <2>. QED BY <2>1, <2>2, <2>3, <2>5, <2>6 DEF ThreadsInStep, InStep, OnlyWorker
<1>5. ASSUME NEW w \in Worker, Added(w)
      PROVE  ReqTypeOK' /\ ThreadsInStep'
  <2>1. /\ OnlyWorker(w)
        /\ worker[w].pc = "adding" /\ worker'[w].pc = "busy"
        /\ worker'[w].todo = worker[w].todo \ {"create"}
        /\ worker'[w].req = worker[w].req
        /\ queue' \in Seq(Entries) /\ raced' \subseteq Nat
        /\ UNCHANGED <<vars, wire, ms, made, handled>>
    BY <1>5, AddedShape DEF Adds
  <2>4. ReqTypeOK'
    BY <2>1 DEF ReqTypeOK, OnlyWorker
  <2>. QED BY <2>1, <2>4 DEF ThreadsInStep, InStep, OnlyWorker
<1>6. ASSUME NEW w \in Worker, getIPAddrBySerNumber(w)
      PROVE  ReqTypeOK' /\ ThreadsInStep'
  <2>0. worker[w].req.s \in Sern
    BY <1>6 DEF getIPAddrBySerNumber, ThreadsInStep, InStep
  <2>1. /\ OnlyWorker(w)
        /\ worker[w].pc = "busy" /\ worker'[w].pc = "busy"
        /\ worker'[w].todo = worker[w].todo \ {"look"}
        /\ worker'[w].req = worker[w].req
        /\ UNCHANGED <<queue, wire, ms, made, handled, raced>>
    BY <1>6, <2>0, LookShape
  <2>2. ReqTypeOK'
    BY <2>1 DEF ReqTypeOK, OnlyWorker
  <2>. QED BY <2>1, <2>2 DEF ThreadsInStep, InStep, OnlyWorker
<1>7. ASSUME NEW w \in Worker, get_ocpp_client_connection(w)
      PROVE  ReqTypeOK' /\ ThreadsInStep'
  <2>1. /\ OnlyWorker(w) /\ worker[w].pc = "busy" /\ worker'[w].todo = {}
        /\ \/ worker'[w] = Resting
           \/ worker'[w].pc = "send" /\ worker'[w].req = worker[w].req
        /\ UNCHANGED <<vars, queue, wire, ms, made, handled, raced>>
    BY <1>7, FindShape
  <2>2. ReqTypeOK'
    BY <2>1 DEF ReqTypeOK, OnlyWorker
  <2>. QED BY <2>1, <2>2, RestingFacts DEF ThreadsInStep, InStep, OnlyWorker
<1>8. ASSUME NEW w \in Worker, sendResponse2Client(w)
      PROVE  ReqTypeOK' /\ ThreadsInStep'
  <2>1. /\ OnlyWorker(w) /\ worker'[w] = Resting
        /\ \/ wire' = wire
           \/ \E m \in [e : m_connections, req : Requests] : wire' = wire \cup {m}
        /\ UNCHANGED <<vars, queue, ms, made, handled, raced>>
    BY <1>8, SendShape
  <2>2. wire' \subseteq [e : Endpoint, req : Requests]
    BY <2>1 DEF ReqTypeOK, TypeOK
  <2>3. ReqTypeOK'
    BY <2>1, <2>2 DEF ReqTypeOK, OnlyWorker
  <2>. QED BY <2>1, <2>3, RestingFacts DEF ThreadsInStep, InStep, OnlyWorker
<1>9. ASSUME NEW e \in Endpoint, StartTransaction(e)
      PROVE  ReqTypeOK' /\ ThreadsInStep'
  <2>1. /\ worker' \in [Worker -> Workers]
        /\ \A v \in Worker : worker'[v] = worker[v]
        /\ made' = Append(made, ms) /\ UNCHANGED <<vars, ms, handled>>
        /\ wire' \subseteq [e : Endpoint, req : Requests]
        /\ queue' \in Seq(Entries) /\ raced' \subseteq Nat
    <3>1. PICK m : /\ wire' = wire \cup {m} /\ m \in [e : Endpoint, req : Requests]
      BY <1>9, StartShape
    <3>. QED BY <1>9, <3>1, StartShape DEF ReqTypeOK, Adds
  <2>2. ms \in Nat /\ made \in Seq(Nat)
    BY DEF ReqTypeOK
  <2>4. /\ made' \in Seq(Nat) /\ DOMAIN made' = DOMAIN made \cup {Len(made) + 1}
        /\ \A i \in DOMAIN made : made'[i] = made[i]
    BY <2>1, <2>2, Appended
  <2>5. ReqTypeOK'
    BY <2>1, <2>4 DEF ReqTypeOK
  <2>. QED BY <2>1, <2>4, <2>5 DEF ThreadsInStep, InStep
<1>10. ASSUME NEW m \in wire, processIncomingCPResponseMessage(m)
       PROVE  ReqTypeOK' /\ ThreadsInStep'
  <2>1. /\ worker' \in [Worker -> Workers]
        /\ \A v \in Worker : worker'[v] = worker[v]
        /\ wire' = wire \ {m} /\ UNCHANGED <<ms, made>>
        /\ \E action \in Actions, kept \in BOOLEAN :
              handled' = handled \cup {[req |-> m.req, as |-> action, kept |-> kept]}
        /\ queue' \in Seq(Entries) /\ raced' \subseteq Nat
    BY <1>10, ConfirmShape
  <2>3. handled' \subseteq [req : Requests, as : Actions, kept : BOOLEAN]
    BY <2>1 DEF ReqTypeOK
  <2>4. ReqTypeOK'
    BY <2>1, <2>3 DEF ReqTypeOK
  <2>. QED BY <2>1, <2>4 DEF ThreadsInStep, InStep
<1>. QED BY <1>1, <1>2, <1>3, <1>4, <1>5, <1>6, <1>7, <1>8, <1>9, <1>10 DEF ReqNext, doOcppCommand
-----------------------------------------------------------------------------
(* The stations of the requests *)

(* To the registry, every step is one of its own or none.                  *)
LEMMA RegistryStep ==
    ASSUME ReqTypeOK, TypeOK, ThreadsInStep, Client # {}, [ReqNext]_<<vars, reqVars>>
    PROVE  [Next]_vars
<1>1. ASSUME NEW w \in Worker, getIPAddrBySerNumber(w)
      PROVE  [Next]_vars
  <2>1. worker[w].req.s \in Sern
    BY <1>1 DEF getIPAddrBySerNumber, ThreadsInStep, InStep
  <2>2. UNCHANGED vars \/ createUpdateFWRequestfromWeb(worker[w].req.s)
    BY <1>1, <2>1, LookShape
  <2>3. PICK cid \in Client : TRUE
    OBVIOUS
  <2>4. createUpdateFWRequestfromWeb(worker[w].req.s) => WebRequest(cid)
    BY <2>1 DEF WebRequest
  <2>. QED BY <2>2, <2>4 DEF Next
<1>2. ASSUME NEW e \in Endpoint, Connection(e)
      PROVE  [Next]_vars
  <2>1. \/ on_open(e) \/ on_close(e)
        \/ \E fw \in BootHasFw, pub \in BOOLEAN : BootNotification(e, fw, pub)
    BY <1>2 DEF Connection
  <2>2. HomeOf[e] \in Sern
    BY HomeOfAssumption
  <2>3. StationMessage(HomeOf[e])
    BY <2>1 DEF StationMessage
  <2>. QED BY <2>2, <2>3 DEF Next
<1>3. ASSUME NEW m \in wire, processIncomingCPResponseMessage(m)
      PROVE  [Next]_vars
  <2>1. UNCHANGED vars \/ \E tz \in Zone : DataTransferConf(m.e, tz)
    BY <1>3, ConfirmShape
  <2>2. m.e \in Endpoint /\ HomeOf[m.e] \in Sern
    BY HomeOfAssumption DEF ReqTypeOK
  <2>3. (\E tz \in Zone : DataTransferConf(m.e, tz)) => StationMessage(HomeOf[m.e])
    BY <2>2 DEF StationMessage
  <2>. QED BY <2>1, <2>2, <2>3 DEF Next
<1>4. ASSUME NEW w \in Worker, NEW s \in Sern, NEW a \in Action, Command(w, s, a)
      PROVE  [Next]_vars
  BY <1>4 DEF Command
<1>5. ASSUME NEW w \in Worker,
             \/ create_central_request(w) \/ Added(w)
             \/ get_ocpp_client_connection(w) \/ sendResponse2Client(w)
      PROVE  [Next]_vars
  BY <1>5 DEF create_central_request, Added, get_ocpp_client_connection,
              sendResponse2Client
<1>6. ASSUME NEW e \in Endpoint, StartTransaction(e)
      PROVE  [Next]_vars
  BY <1>6 DEF StartTransaction
<1>7. CASE NextMs
  BY <1>7 DEF NextMs
<1>8. CASE UNCHANGED <<vars, reqVars>>
  BY <1>8
<1>. QED BY <1>1, <1>2, <1>3, <1>4, <1>5, <1>6, <1>7, <1>8 DEF ReqNext, doOcppCommand

(* A request never leaves the way to its station.                          *)
LEMMA RoutingStep ==
    ASSUME IInv, ReqTypeOK, ThreadsInStep, AddressesOfRequests,
           RequestsReachTheirStation, [ReqNext]_<<vars, reqVars>>
    PROVE  AddressesOfRequests' /\ RequestsReachTheirStation'
<1>0. TypeOK /\ AddressLeadsHome
  BY DEF IInv
<1>. USE DEF AddressesOfRequests
<1>1. ASSUME UNCHANGED worker, wire' \subseteq wire
      PROVE  AddressesOfRequests' /\ RequestsReachTheirStation'
  BY <1>1 DEF AddressOf, RequestsReachTheirStation
<1>2. ASSUME NEW w \in Worker, OnlyWorker(w), wire' = wire, AddressOf(w)'
      PROVE  AddressesOfRequests' /\ RequestsReachTheirStation'
  <2>1. ASSUME NEW v \in Worker PROVE AddressOf(v)'
    <3>1. CASE v = w
      BY <1>2, <3>1
    <3>2. CASE v # w
      BY <1>2, <3>2 DEF AddressOf, OnlyWorker
    <3>. QED BY <3>1, <3>2
  <2>. QED BY <1>2, <2>1 DEF RequestsReachTheirStation
<1>3. CASE UNCHANGED <<vars, reqVars>>
  BY <1>1, <1>3 DEF reqVars
<1>4. CASE NextMs \/ \E e \in Endpoint : Connection(e)
  BY <1>1, <1>4, QuietStep
<1>5. ASSUME NEW w \in Worker, NEW s \in Sern, NEW a \in Action, Command(w, s, a)
      PROVE  AddressesOfRequests' /\ RequestsReachTheirStation'
  <2>1. OnlyWorker(w) /\ worker'[w].addr = NoEndpoint /\ worker'[w].pc = "busy"
        /\ wire' = wire
    BY <1>5, CommandShape
  <2>. QED BY <1>2, <2>1 DEF AddressOf
<1>6. ASSUME NEW w \in Worker, create_central_request(w)
      PROVE  AddressesOfRequests' /\ RequestsReachTheirStation'
  <2>0. worker[w].req.id \in DOMAIN made
    BY <1>6 DEF create_central_request, ThreadsInStep, InStep
  <2>1. /\ OnlyWorker(w) /\ worker'[w].addr = worker[w].addr /\ wire' = wire
        /\ worker'[w].pc = "adding" /\ worker'[w].req.s = worker[w].req.s
    BY <1>6, <2>0, CreateShape
  <2>. QED BY <1>2, <2>1 DEF AddressOf
<1>7. ASSUME NEW w \in Worker, Added(w)
      PROVE  AddressesOfRequests' /\ RequestsReachTheirStation'
  <2>1. /\ OnlyWorker(w) /\ worker'[w].addr = worker[w].addr /\ wire' = wire
        /\ worker'[w].pc = "busy" /\ worker'[w].req = worker[w].req
    BY <1>7, AddedShape
  <2>. QED BY <1>2, <2>1 DEF AddressOf
<1>8. ASSUME NEW w \in Worker, getIPAddrBySerNumber(w)
      PROVE  AddressesOfRequests' /\ RequestsReachTheirStation'
  <2>0. worker[w].req.s \in Sern
    BY <1>8 DEF getIPAddrBySerNumber, ThreadsInStep, InStep
  <2>1. /\ OnlyWorker(w) /\ worker'[w].addr = cs[worker[w].req.s].IPAddr
        /\ worker'[w].pc = "busy" /\ worker'[w].req = worker[w].req /\ wire' = wire
    BY <1>0, <1>8, <2>0, LookShape
  <2>. QED BY <1>0, <1>2, <2>0, <2>1 DEF AddressOf, AddressLeadsHome
<1>9. ASSUME NEW w \in Worker, get_ocpp_client_connection(w)
      PROVE  AddressesOfRequests' /\ RequestsReachTheirStation'
  <2>1. /\ OnlyWorker(w) /\ wire' = wire
        /\ \/ worker'[w] = Resting
           \/ /\ worker'[w].pc = "send" /\ worker'[w].req = worker[w].req
              /\ worker'[w].addr = worker[w].addr
              /\ worker'[w].handle = worker[w].addr
              /\ worker[w].addr \in Endpoint
    BY <1>0, <1>9, FindShape
  <2>2. AddressOf(w) /\ NoEndpoint \notin Endpoint
    BY EndpointAssumption
  <2>. QED BY <1>2, <2>1, <2>2, RestingFacts DEF AddressOf
<1>10. ASSUME NEW w \in Worker, sendResponse2Client(w)
       PROVE  AddressesOfRequests' /\ RequestsReachTheirStation'
  <2>1. OnlyWorker(w) /\ worker'[w] = Resting /\ worker[w].pc = "send"
    BY <1>10, SendShape
  <2>2. \/ wire' = wire
        \/ \E m : /\ wire' = wire \cup {m} /\ m.req.s = worker[w].req.s
                  /\ ~m.req.reused => m.e = worker[w].handle
    BY <1>10, SendShape
  <2>3. AddressOf(w)'
    BY <2>1, RestingFacts DEF AddressOf
  <2>4. \A v \in Worker : AddressOf(v)'
    BY <2>1, <2>3 DEF AddressOf, OnlyWorker
  <2>5. HomeOf[worker[w].handle] = worker[w].req.s
    BY <2>1 DEF AddressOf
  <2>. QED BY <2>2, <2>4, <2>5 DEF RequestsReachTheirStation
<1>11. ASSUME NEW e \in Endpoint, StartTransaction(e)
       PROVE  AddressesOfRequests' /\ RequestsReachTheirStation'
  <2>1. /\ \A v \in Worker : worker'[v] = worker[v]
        /\ \E m : wire' = wire \cup {m} /\ m.e = e /\ m.req.s = HomeOf[e]
    BY <1>11, StartShape
  <2>2. \A v \in Worker : AddressOf(v)'
    BY <2>1 DEF AddressOf
  <2>. QED BY <2>1, <2>2 DEF RequestsReachTheirStation
<1>12. ASSUME NEW m \in wire, processIncomingCPResponseMessage(m)
       PROVE  AddressesOfRequests' /\ RequestsReachTheirStation'
  <2>1. /\ \A v \in Worker : worker'[v] = worker[v]
        /\ wire' = wire \ {m}
    BY <1>12, ConfirmShape
  <2>2. \A v \in Worker : AddressOf(v)'
    BY <2>1 DEF AddressOf
  <2>. QED BY <2>1, <2>2 DEF RequestsReachTheirStation
<1>. QED BY <1>3, <1>4, <1>5, <1>6, <1>7, <1>8, <1>9, <1>10, <1>11, <1>12 DEF ReqNext, doOcppCommand
-----------------------------------------------------------------------------
(* The places and the unique ids of the requests *)

(* Requests that stay where they are, or end, leave no two in one place.   *)
LEMMA PlacesKept ==
    ASSUME OnePlace,
           \A v \in Busy' : v \in Busy /\ worker'[v].req.id = worker[v].req.id,
           wire' \subseteq wire,
           \A m \in wire : /\ m.req.id \in DOMAIN made'
                           /\ made'[m.req.id] = made[m.req.id]
    PROVE  OnePlace'
<1>1. \A v, w \in Busy' : v # w => worker'[v].req.id # worker'[w].req.id
  BY DEF OnePlace
<1>2. \A w \in Busy', m \in wire' : worker'[w].req.id # m.req.id
  BY DEF OnePlace
<1>3. \A m \in wire' : m.req.id \in DOMAIN made' /\ made'[m.req.id] = m.req.uid
  BY DEF OnePlace
<1>4. \A m, n \in wire' : m # n => m.req.id # n.req.id
  BY DEF OnePlace
<1>. QED BY <1>1, <1>2, <1>3, <1>4 DEF OnePlace

(* Each request stays in one place in every step.                          *)
LEMMA PlacesStep ==
    ASSUME TypeOK, ReqTypeOK, ThreadsInStep, OnePlace, [ReqNext]_<<vars, reqVars>>
    PROVE  OnePlace'
<1>0. /\ \A w \in Busy : w \in Worker /\ worker[w].req.id \in DOMAIN made
      /\ \A m \in wire : m.req.id \in DOMAIN made
  BY DEF Busy, ThreadsInStep, InStep, OnePlace
<1>1. ASSUME \A v \in Worker : worker'[v] = worker[v]
      PROVE  \A v \in Busy' : v \in Busy /\ worker'[v].req.id = worker[v].req.id
  BY <1>1 DEF Busy
<1>2. ASSUME NEW w \in Worker, OnlyWorker(w)
      PROVE  \A v \in Busy' : v # w => /\ v \in Busy
                                       /\ worker'[v].req.id = worker[v].req.id
  BY <1>2 DEF Busy, OnlyWorker
<1>3. CASE UNCHANGED <<vars, reqVars>>
  BY <1>3 DEF OnePlace, reqVars, Busy
<1>4. CASE NextMs \/ \E e \in Endpoint : Connection(e)
  <2>1. UNCHANGED <<worker, made>> /\ wire' \subseteq wire
    BY <1>4, QuietStep
  <2>. QED BY <1>0, <2>1, PlacesKept DEF Busy
<1>5. ASSUME NEW w \in Worker, NEW s \in Sern, NEW a \in Action, Command(w, s, a)
      PROVE  OnePlace'
  <2>1. /\ OnlyWorker(w) /\ worker'[w].req.id = Len(made) + 1
        /\ made' = Append(made, worker'[w].req.uid) /\ wire' = wire
    BY <1>5, CommandShape
  <2>2. worker'[w].req.uid \in Nat /\ made \in Seq(Nat)
    BY <2>1 DEF OnlyWorker, Workers, Requests, ReqTypeOK
  <2>3. /\ DOMAIN made' = DOMAIN made \cup {Len(made) + 1}
        /\ Len(made) + 1 \notin DOMAIN made
        /\ \A i \in DOMAIN made : made'[i] = made[i]
    BY <2>1, <2>2, Appended
  <2>4. \A v \in Busy' : v # w => /\ v \in Busy
                                  /\ worker'[v].req.id = worker[v].req.id
    BY <1>2, <2>1
  <2>5. /\ \A v \in Busy' : v # w => worker'[v].req.id # worker'[w].req.id
        /\ \A m \in wire : worker'[w].req.id # m.req.id
    BY <1>0, <2>1, <2>3, <2>4
  <2>6. \A u, v \in Busy' : u # v => worker'[u].req.id # worker'[v].req.id
    BY <2>4, <2>5 DEF OnePlace
  <2>7. \A v \in Busy', m \in wire' : worker'[v].req.id # m.req.id
    BY <2>1, <2>4, <2>5 DEF OnePlace
  <2>8. \A m \in wire' : m.req.id \in DOMAIN made' /\ made'[m.req.id] = m.req.uid
    BY <1>0, <2>1, <2>3 DEF OnePlace
  <2>9. \A m, n \in wire' : m # n => m.req.id # n.req.id
    BY <2>1 DEF OnePlace
  <2>. QED BY <2>6, <2>7, <2>8, <2>9 DEF OnePlace
<1>6. ASSUME NEW w \in Worker, create_central_request(w)
      PROVE  OnePlace'
  <2>0. worker[w].req.id \in DOMAIN made
    BY <1>6 DEF create_central_request, ThreadsInStep, InStep
  <2>1. /\ OnlyWorker(w) /\ worker[w].pc = "busy"
        /\ worker'[w].req.id = worker[w].req.id
        /\ made' = [made EXCEPT ![worker[w].req.id] = ms] /\ wire' = wire
    BY <1>6, <2>0, CreateShape
  <2>2. w \in Busy
    BY <2>1 DEF Busy
  <2>3. \A v \in Busy' : v \in Busy /\ worker'[v].req.id = worker[v].req.id
    BY <1>2, <2>1, <2>2
  <2>4. \A m \in wire : m.req.id \in DOMAIN made' /\ made'[m.req.id] = made[m.req.id]
    BY <1>0, <2>1, <2>2 DEF OnePlace
  <2>. QED BY <2>1, <2>3, <2>4, PlacesKept
<1>7. ASSUME NEW w \in Worker, Added(w)
      PROVE  OnePlace'
  <2>1. /\ OnlyWorker(w) /\ worker[w].pc = "adding"
        /\ worker'[w].req = worker[w].req /\ UNCHANGED <<made, wire>>
    BY <1>7, AddedShape
  <2>2. w \in Busy
    BY <2>1 DEF Busy
  <2>. QED BY <1>0, <1>2, <2>1, <2>2, PlacesKept
<1>8. ASSUME NEW w \in Worker, getIPAddrBySerNumber(w)
      PROVE  OnePlace'
  <2>0. worker[w].req.s \in Sern
    BY <1>8 DEF getIPAddrBySerNumber, ThreadsInStep, InStep
  <2>1. /\ OnlyWorker(w) /\ worker[w].pc = "busy"
        /\ worker'[w].req = worker[w].req /\ UNCHANGED <<made, wire>>
    BY <1>8, <2>0, LookShape
  <2>2. w \in Busy
    BY <2>1 DEF Busy
  <2>. QED BY <1>0, <1>2, <2>1, <2>2, PlacesKept
<1>9. ASSUME NEW w \in Worker, get_ocpp_client_connection(w)
      PROVE  OnePlace'
  <2>1. /\ OnlyWorker(w) /\ worker[w].pc = "busy"
        /\ worker'[w] = Resting \/ worker'[w].req = worker[w].req
        /\ UNCHANGED <<made, wire>>
    BY <1>9, FindShape
  <2>2. w \in Busy /\ (worker'[w] = Resting => w \notin Busy')
    BY <2>1, RestingFacts DEF Busy
  <2>. QED BY <1>0, <1>2, <2>1, <2>2, PlacesKept
<1>10. ASSUME NEW w \in Worker, sendResponse2Client(w)
       PROVE  OnePlace'
  <2>1. /\ OnlyWorker(w) /\ worker'[w] = Resting /\ worker[w].pc = "send"
        /\ made' = made
    BY <1>10, SendShape
  <2>2. w \in Busy /\ w \notin Busy'
    BY <2>1, RestingFacts DEF Busy
  <2>3. \A v \in Busy' : v # w /\ v \in Busy /\ worker'[v].req.id = worker[v].req.id
    BY <1>2, <2>1, <2>2
  <2>4. CASE wire' = wire
    BY <1>0, <2>1, <2>3, <2>4, PlacesKept
  <2>5. ASSUME NEW m, wire' = wire \cup {m}, m.req.id = worker[w].req.id,
               m.req.uid = worker[w].req.uid
        PROVE  OnePlace'
    <3>1. \A u, v \in Busy' : u # v => worker'[u].req.id # worker'[v].req.id
      BY <2>3 DEF OnePlace
    <3>2. \A v \in Busy', n \in wire' : worker'[v].req.id # n.req.id
      BY <2>2, <2>3, <2>5 DEF OnePlace
    <3>3. \A n, o \in wire' : n # o => n.req.id # o.req.id
      BY <2>2, <2>5 DEF OnePlace
    <3>4. \A n \in wire' : n.req.id \in DOMAIN made' /\ made'[n.req.id] = n.req.uid
      BY <2>1, <2>2, <2>5 DEF OnePlace, ThreadsInStep, InStep, Busy
    <3>. QED BY <3>1, <3>2, <3>3, <3>4 DEF OnePlace
  <2>. QED BY <1>10, <2>4, <2>5, SendShape
<1>11. ASSUME NEW e \in Endpoint, StartTransaction(e)
       PROVE  OnePlace'
  <2>1. /\ \A v \in Worker : worker'[v] = worker[v]
        /\ made' = Append(made, ms)
    BY <1>11, StartShape
  <2>2. PICK m : wire' = wire \cup {m} /\ m.req.id = Len(made) + 1 /\ m.req.uid = ms
    BY <1>11, StartShape
  <2>3. ms \in Nat /\ made \in Seq(Nat)
    BY DEF ReqTypeOK
  <2>4. /\ DOMAIN made' = DOMAIN made \cup {Len(made) + 1}
        /\ Len(made) + 1 \notin DOMAIN made
        /\ \A i \in DOMAIN made : made'[i] = made[i]
        /\ made'[Len(made) + 1] = ms
    BY <2>1, <2>3, Appended
  <2>5. \A v \in Busy' : v \in Busy /\ worker'[v].req.id = worker[v].req.id
    BY <1>1, <2>1
  <2>6. \A u, v \in Busy' : u # v => worker'[u].req.id # worker'[v].req.id
    BY <2>5 DEF OnePlace
  <2>7. \A v \in Busy', n \in wire' : worker'[v].req.id # n.req.id
    BY <1>0, <2>2, <2>4, <2>5 DEF OnePlace
  <2>8. \A n, o \in wire' : n # o => n.req.id # o.req.id
    BY <1>0, <2>2, <2>4 DEF OnePlace
  <2>9. \A n \in wire' : n.req.id \in DOMAIN made' /\ made'[n.req.id] = n.req.uid
    BY <1>0, <2>2, <2>4 DEF OnePlace
  <2>. QED BY <2>6, <2>7, <2>8, <2>9 DEF OnePlace
<1>12. ASSUME NEW m \in wire, processIncomingCPResponseMessage(m)
       PROVE  OnePlace'
  <2>1. /\ \A v \in Worker : worker'[v] = worker[v]
        /\ wire' \subseteq wire /\ made' = made
    BY <1>12, ConfirmShape
  <2>. QED BY <1>0, <1>1, <2>1, PlacesKept
<1>. QED BY <1>3, <1>4, <1>5, <1>6, <1>7, <1>8, <1>9, <1>10, <1>11, <1>12 DEF ReqNext, doOcppCommand
-----------------------------------------------------------------------------
(* The entries of request_queue *)

(* A unique id, once given, stays in the history.                          *)
Grown == \A k \in DOMAIN made : /\ k \in DOMAIN made'
                                /\ made[k] # 0 => made'[k] = made[k]

(* Request q is what r was.                                                *)
SameRequest(r, q) == q.id = r.id /\ q.uid = r.uid /\ q.action = r.action

(* Requests with the same id and unique id as before, and no new entries:   *)
(* the entries still fit.                                                  *)
LEMMA FitKept ==
    ASSUME EntriesFit, UidsGiven, Grown,
           From(queue', queue),
           \A v \in Busy' : v \in Busy /\ SameRequest(worker[v].req, worker'[v].req),
           \A m \in wire' : \/ m \in wire
                            \/ \E v \in Busy : SameRequest(worker[v].req, m.req)
    PROVE  EntriesFit'
<1>0. \A j \in DOMAIN queue : queue[j] = Emptied \/ queue[j].uid # 0
  BY DEF UidsGiven
<1>1. ASSUME NEW r, NEW q, SameRequest(r, q), NEW i \in DOMAIN queue',
             \A j \in DOMAIN queue : EntryFits(j, r)
      PROVE  EntryFits(i, q)'
  <2>1. SUFFICES ASSUME NEW j \in DOMAIN queue, queue'[i] = queue[j]
                 PROVE  EntryFits(i, q)'
    BY DEF From, EntryFits, Emptied
  <2>2. SUFFICES ASSUME queue[j] # Emptied, queue[j].uid = q.uid, ~Twin(q)'
                 PROVE  queue[j].action = q.action /\ q.action \notin Unqueued
    BY <2>1 DEF EntryFits, Emptied
  <2>3. ~Twin(r)
    BY <1>0, <1>1, <2>2 DEF Twin, Grown, SameRequest
  <2>. QED BY <1>1, <2>2, <2>3 DEF EntryFits, SameRequest
<1>2. ASSUME NEW i \in DOMAIN queue', NEW v \in Busy'
      PROVE  EntryFits(i, worker[v].req)'
  <2>1. /\ SameRequest(worker[v].req, worker'[v].req)
        /\ \A j \in DOMAIN queue : EntryFits(j, worker[v].req)
    BY DEF EntriesFit
  <2>2. PICK q : q = worker'[v].req
    OBVIOUS
  <2>3. EntryFits(i, q)'
    BY <1>1, <2>1, <2>2
  <2>. QED BY <2>2, <2>3 DEF EntryFits, Twin
<1>3. ASSUME NEW i \in DOMAIN queue', NEW m \in wire'
      PROVE  EntryFits(i, m.req)'
  <2>1. \E r : /\ SameRequest(r, m.req)
               /\ \A j \in DOMAIN queue : EntryFits(j, r)
    BY DEF EntriesFit, SameRequest
  <2>. QED BY <1>1, <2>1
<1>. QED BY <1>2, <1>3 DEF EntriesFit
(* Requests that are what they were, and no entry gone: each has its entry. *)
LEMMA EntriesStay ==
    ASSUME EntriesKept, UidsGiven, Grown, raced \subseteq raced',
           \A j \in DOMAIN queue : \E i \in DOMAIN queue' : queue'[i] = queue[j],
           \A v \in Busy' : "create" \notin worker'[v].todo =>
              \/ worker'[v].req.action \in Unqueued
              \/ /\ v \in Busy /\ "create" \notin worker[v].todo
                 /\ SameRequest(worker[v].req, worker'[v].req),
           \A m \in wire' :
              \/ m \in wire
              \/ \E v \in Busy : /\ "create" \notin worker[v].todo
                                 /\ SameRequest(worker[v].req, m.req)
    PROVE  EntriesKept'
<1>1. ASSUME NEW r, NEW q, SameRequest(r, q), HasEntry(r),
             r.uid = 0 => r.action \in Unqueued
      PROVE  HasEntry(q)'
  <2>1. SUFFICES ASSUME q.action \notin Unqueued, q.id \notin raced', ~Twin(q)'
                 PROVE  \E i \in DOMAIN queue' : queue'[i].uid = q.uid
    BY DEF HasEntry
  <2>2. ~Twin(r)
    BY <1>1, <2>1 DEF Twin, Grown, SameRequest
  <2>3. PICK j \in DOMAIN queue : queue[j].uid = q.uid
    BY <1>1, <2>1, <2>2 DEF HasEntry, SameRequest
  <2>. QED BY <2>3
<1>2. ASSUME NEW v \in Busy', "create" \notin worker'[v].todo
      PROVE  HasEntry(worker[v].req)'
  <2>1. CASE worker'[v].req.action \in Unqueued
    BY <2>1 DEF HasEntry
  <2>2. CASE worker'[v].req.action \notin Unqueued
    <3>1. /\ v \in Busy /\ "create" \notin worker[v].todo
          /\ SameRequest(worker[v].req, worker'[v].req)
      BY <1>2, <2>2
    <3>2. /\ HasEntry(worker[v].req)
          /\ worker[v].req.uid = 0 => worker[v].req.action \in Unqueued
      BY <3>1 DEF EntriesKept, UidsGiven
    <3>3. PICK q : q = worker'[v].req
      OBVIOUS
    <3>4. HasEntry(q)'
      BY <1>1, <3>1, <3>2, <3>3
    <3>. QED BY <3>3, <3>4 DEF HasEntry, Twin
  <2>. QED BY <2>1, <2>2
<1>3. ASSUME NEW m \in wire'
      PROVE  HasEntry(m.req)'
  <2>1. CASE m \in wire
    <3>1. HasEntry(m.req) /\ (m.req.uid = 0 => m.req.action \in Unqueued)
      BY <2>1 DEF EntriesKept, UidsGiven
    <3>. QED BY <1>1, <3>1 DEF SameRequest
  <2>2. ASSUME NEW v \in Busy, "create" \notin worker[v].todo,
               SameRequest(worker[v].req, m.req)
        PROVE  HasEntry(m.req)'
    <3>1. /\ HasEntry(worker[v].req)
          /\ worker[v].req.uid = 0 => worker[v].req.action \in Unqueued
      BY <2>2 DEF EntriesKept, UidsGiven
    <3>. QED BY <1>1, <2>2, <3>1
  <2>. QED BY <2>1, <2>2
<1>. QED BY <1>2, <1>3 DEF EntriesKept

(* After a race, no request is counted on to have its entry.               *)
LEMMA RacedEntries ==
    ASSUME ThreadsInStep', OnePlace', UidsGiven', AllRaced
    PROVE  EntriesKept'
<1>1. ASSUME NEW v \in Busy', "create" \notin worker'[v].todo
      PROVE  HasEntry(worker[v].req)'
  <2>1. /\ worker'[v].req.id \in DOMAIN made'
        /\ made'[worker'[v].req.id] = worker'[v].req.uid
    BY DEF Busy, ThreadsInStep, InStep
  <2>2. worker'[v].req.uid = 0 => worker'[v].req.action \in Unqueued
    BY <1>1 DEF UidsGiven
  <2>. QED BY <2>1, <2>2 DEF HasEntry, AllRaced
<1>2. ASSUME NEW m \in wire'
      PROVE  HasEntry(m.req)'
  BY DEF OnePlace, UidsGiven, HasEntry, AllRaced
<1>. QED BY <1>1, <1>2 DEF EntriesKept

(* The same for the unique ids.                                            *)
LEMMA UidsStay ==
    ASSUME UidsGiven, Grown, handled' = handled,
           From(queue', queue),
           \A v \in Busy' : worker'[v].req.uid = 0 =>
              \/ worker'[v].req.action \in Unqueued
              \/ worker'[v].pc = "busy" /\ "create" \in worker'[v].todo,
           \A m \in wire' : \/ m \in wire
                            \/ m.req.uid = 0 => m.req.action \in Unqueued
    PROVE  UidsGiven'
<1>1. ASSUME NEW i \in DOMAIN queue'
      PROVE  \/ queue'[i] = Emptied
             \/ queue'[i].uid # 0 /\ \E k \in DOMAIN made' : made'[k] = queue'[i].uid
  <2>. SUFFICES ASSUME queue'[i] # Emptied
                PROVE  queue'[i].uid # 0 /\ \E k \in DOMAIN made' :
                                               made'[k] = queue'[i].uid
    OBVIOUS
  <2>1. PICK j \in DOMAIN queue : queue'[i] = queue[j]
    BY DEF From
  <2>2. PICK k \in DOMAIN made : made[k] = queue[j].uid /\ queue[j].uid # 0
    BY <2>1 DEF UidsGiven
  <2>. QED BY <2>1, <2>2 DEF Grown
<1>2. \A m \in wire' : m.req.uid = 0 => m.req.action \in Unqueued
  BY DEF UidsGiven
<1>3. Emptied' = Emptied
  BY DEF Emptied
<1>. QED BY <1>1, <1>2, <1>3 DEF UidsGiven
(* The same for the confirmations so far.                                  *)
LEMMA ConfirmationsStay ==
    ASSUME ConfirmedAsSent, UidsGiven, Grown, raced \subseteq raced',
           handled' = handled
    PROVE  ConfirmedAsSent'
<1>. SUFFICES ASSUME NEW h \in handled
              PROVE  (\/ Twin(h.req)
                      \/ IF h.req.action \in Unqueued
                         THEN h.as = "none"
                         ELSE h.req.id \in raced \/ h.as = h.req.action)'
  BY DEF ConfirmedAsSent
<1>1. CASE h.req.uid = 0
  BY <1>1 DEF UidsGiven
<1>2. CASE h.req.uid # 0 /\ Twin(h.req)
  BY <1>2 DEF Twin, Grown
<1>3. CASE ~Twin(h.req)
  BY <1>3 DEF ConfirmedAsSent
<1>. QED BY <1>1, <1>2, <1>3

EntriesInv == UidsGiven /\ EntriesFit /\ EntriesKept /\ ConfirmedAsSent

(* A new command has no entry, and none of the entries has its id.         *)
LEMMA CommandEntries ==
    ASSUME ReqTypeOK, ThreadsInStep, OnePlace, EntriesInv,
           NEW w \in Worker, NEW s \in Sern, NEW a \in Action, Command(w, s, a)
    PROVE  EntriesInv'
<1>0. UidsGiven /\ EntriesFit /\ EntriesKept /\ ConfirmedAsSent
  BY DEF EntriesInv
<1>1. /\ OnlyWorker(w) /\ worker[w].pc = "idle" /\ worker'[w].pc = "busy"
      /\ worker'[w].req.id = Len(made) + 1 /\ worker'[w].req.action = a
      /\ a \in Unqueued \/ "create" \in worker'[w].todo
      /\ made' = Append(made, worker'[w].req.uid)
      /\ UNCHANGED <<queue, wire, handled, raced>>
  BY CommandShape
<1>2. worker'[w].req.uid \in Nat /\ made \in Seq(Nat)
  BY <1>1 DEF OnlyWorker, Workers, Requests, ReqTypeOK
<1>3. /\ DOMAIN made' = DOMAIN made \cup {Len(made) + 1}
      /\ Len(made) + 1 \notin DOMAIN made
      /\ \A i \in DOMAIN made : made'[i] = made[i]
      /\ made'[Len(made) + 1] = worker'[w].req.uid
  BY <1>1, <1>2, Appended
<1>4. Grown
  BY <1>3 DEF Grown
<1>5. \A v \in Busy' : v # w => /\ v \in Busy /\ worker'[v].todo = worker[v].todo
                                /\ worker'[v].pc = worker[v].pc
                                /\ SameRequest(worker[v].req, worker'[v].req)
  BY <1>1 DEF Busy, OnlyWorker, SameRequest
<1>6. UidsGiven'
  <2>1. \A v \in Busy' : worker'[v].req.uid = 0 =>
              \/ worker'[v].req.action \in Unqueued
              \/ worker'[v].pc = "busy" /\ "create" \in worker'[v].todo
    BY <1>0, <1>1, <1>5 DEF UidsGiven, SameRequest
  <2>. QED BY <1>0, <1>1, <1>4, <2>1, UidsStay DEF From
<1>7. EntriesFit'
  <2>1. ASSUME NEW i \in DOMAIN queue, NEW r, r.id \in DOMAIN made, EntryFits(i, r)
        PROVE  EntryFits(i, r)'
    BY <1>0, <1>1, <1>4, <2>1 DEF Emptied, EntryFits, Twin, Grown, UidsGiven
  <2>2. \A i \in DOMAIN queue, m \in wire : EntryFits(i, m.req)'
    BY <1>0, <2>1 DEF EntriesFit, OnePlace
  <2>3. ASSUME NEW i \in DOMAIN queue, NEW v \in Busy', v # w
        PROVE  EntryFits(i, worker[v].req)'
    <3>1. /\ worker[v].req.id \in DOMAIN made
          /\ EntryFits(i, worker[v].req)
          /\ SameRequest(worker[v].req, worker'[v].req)
      BY <1>0, <1>5, <2>3 DEF EntriesFit, Busy, ThreadsInStep, InStep
    <3>2. PICK r : r = worker[v].req
      OBVIOUS
    <3>3. EntryFits(i, r)'
      BY <2>1, <3>1, <3>2
    <3>. QED BY <3>1, <3>2, <3>3 DEF EntryFits, Twin, SameRequest
  <2>4. ASSUME NEW i \in DOMAIN queue
        PROVE  EntryFits(i, worker[w].req)'
    <3>1. SUFFICES ASSUME queue[i] # Emptied, queue[i].uid = worker'[w].req.uid
                   PROVE  Twin(worker[w].req)'
      BY <1>1 DEF EntryFits, Emptied
    <3>2. PICK k \in DOMAIN made : made[k] = queue[i].uid
      BY <1>0, <3>1 DEF UidsGiven
    <3>. QED BY <1>1, <1>3, <3>1, <3>2 DEF Twin
  <2>. QED BY <1>1, <2>2, <2>3, <2>4 DEF EntriesFit
<1>8. EntriesKept'
  <2>1. \A v \in Busy' : "create" \notin worker'[v].todo =>
              \/ worker'[v].req.action \in Unqueued
              \/ /\ v \in Busy /\ "create" \notin worker[v].todo
                 /\ SameRequest(worker[v].req, worker'[v].req)
    BY <1>1, <1>5 DEF ThreadsInStep, InStep, Busy
  <2>. QED BY <1>0, <1>1, <1>4, <2>1, EntriesStay
<1>9. ConfirmedAsSent'
  BY <1>0, <1>1, <1>4, ConfirmationsStay
<1>. QED BY <1>6, <1>7, <1>8, <1>9 DEF EntriesInv
(* A request gets its unique id: an entry that has this id already is that  *)
(* of another request.                                                     *)
LEMMA CreateEntries ==
    ASSUME ReqTypeOK, ThreadsInStep, OnePlace, EntriesInv,
           NEW w \in Worker, create_central_request(w)
    PROVE  EntriesInv'
<1>0. UidsGiven /\ EntriesFit /\ EntriesKept /\ ConfirmedAsSent
  BY DEF EntriesInv
<1>. worker[w].req.id \in DOMAIN made
  BY DEF create_central_request, ThreadsInStep, InStep
<1>1. /\ OnlyWorker(w)
      /\ worker[w].pc = "busy" /\ "create" \in worker[w].todo
      /\ worker'[w].pc = "adding" /\ worker'[w].todo = worker[w].todo
      /\ worker'[w].req.id = worker[w].req.id
      /\ worker'[w].req.uid = ms
      /\ made' = [made EXCEPT ![worker[w].req.id] = ms]
      /\ raced \subseteq raced'
      /\ UNCHANGED <<queue, wire, handled>>
  BY CreateShape
<1>2. /\ worker[w].req.id \in DOMAIN made /\ made[worker[w].req.id] = 0 /\ ms # 0
      /\ w \in Busy
  BY <1>1 DEF ThreadsInStep, InStep, ReqTypeOK, Busy
<1>3. /\ DOMAIN made' = DOMAIN made
      /\ \A i \in DOMAIN made : i # worker[w].req.id => made'[i] = made[i]
      /\ made'[worker[w].req.id] = ms
  BY <1>1, <1>2
<1>4. Grown
  BY <1>2, <1>3 DEF Grown
<1>5. \A v \in Busy' : v # w => /\ v \in Busy /\ worker'[v].todo = worker[v].todo
                                /\ worker'[v].pc = worker[v].pc
                                /\ SameRequest(worker[v].req, worker'[v].req)
  BY <1>1 DEF Busy, OnlyWorker, SameRequest
<1>6. UidsGiven'
  <2>1. \A v \in Busy' : worker'[v].req.uid = 0 =>
              \/ worker'[v].req.action \in Unqueued
              \/ worker'[v].pc = "busy" /\ "create" \in worker'[v].todo
    BY <1>0, <1>1, <1>2, <1>5 DEF UidsGiven, SameRequest
  <2>. QED BY <1>0, <1>1, <1>4, <2>1, UidsStay DEF From
<1>7. EntriesFit'
  <2>1. ASSUME NEW i \in DOMAIN queue, NEW r, EntryFits(i, r)
        PROVE  EntryFits(i, r)'
    BY <1>0, <1>1, <1>4, <2>1 DEF Emptied, EntryFits, Twin, Grown, UidsGiven
  <2>2. \A i \in DOMAIN queue, m \in wire : EntryFits(i, m.req)'
    BY <1>0, <2>1 DEF EntriesFit
  <2>3. ASSUME NEW i \in DOMAIN queue, NEW v \in Busy', v # w
        PROVE  EntryFits(i, worker[v].req)'
    <3>1. /\ EntryFits(i, worker[v].req)
          /\ SameRequest(worker[v].req, worker'[v].req)
      BY <1>0, <1>5, <2>3 DEF EntriesFit
    <3>2. PICK r : r = worker[v].req
      OBVIOUS
    <3>3. EntryFits(i, r)'
      BY <2>1, <3>1, <3>2
    <3>. QED BY <3>1, <3>2, <3>3 DEF EntryFits, Twin, SameRequest
  <2>4. ASSUME NEW i \in DOMAIN queue
        PROVE  EntryFits(i, worker[w].req)'
    <3>1. SUFFICES ASSUME queue[i] # Emptied, queue[i].uid = ms
                   PROVE  Twin(worker[w].req)'
      BY <1>1 DEF EntryFits, Emptied
    <3>2. PICK k \in DOMAIN made : made[k] = ms
      BY <1>0, <3>1 DEF UidsGiven
    <3>. QED BY <1>1, <1>2, <1>3, <3>2 DEF Twin
  <2>. QED BY <1>1, <2>2, <2>3, <2>4 DEF EntriesFit
<1>8. EntriesKept'
  <2>1. \A v \in Busy' : "create" \notin worker'[v].todo =>
              /\ v \in Busy /\ "create" \notin worker[v].todo
              /\ SameRequest(worker[v].req, worker'[v].req)
    BY <1>1, <1>5 DEF ThreadsInStep, InStep, Busy
  <2>. QED BY <1>0, <1>1, <1>4, <2>1, EntriesStay
<1>9. ConfirmedAsSent'
  BY <1>0, <1>1, <1>4, ConfirmationsStay
<1>. QED BY <1>6, <1>7, <1>8, <1>9 DEF EntriesInv

(* An entry is added.  A request other than its own with its id is a twin. *)
LEMMA AddedEntries ==
    ASSUME ReqTypeOK, ThreadsInStep, OnePlace, EntriesInv,
           ThreadsInStep', OnePlace', NEW w \in Worker, Added(w)
    PROVE  EntriesInv'
<1>0. UidsGiven /\ EntriesFit /\ EntriesKept /\ ConfirmedAsSent
  BY DEF EntriesInv
<1>. DEFINE x == [uid |-> worker[w].req.uid, action |-> worker[w].req.action]
<1>1. /\ OnlyWorker(w)
      /\ worker[w].pc = "adding" /\ worker'[w].pc = "busy"
      /\ worker'[w].req = worker[w].req
      /\ x \in Entries /\ Adds(x)
      /\ UNCHANGED <<wire, made, handled>>
  BY AddedShape
<1>2. /\ worker[w].req.id \in DOMAIN made
      /\ made[worker[w].req.id] = worker[w].req.uid
      /\ worker[w].req.action \notin Unqueued /\ w \in Busy
      /\ "create" \in worker[w].todo
  BY <1>1 DEF ThreadsInStep, InStep, Busy
<1>3. worker[w].req.uid # 0
  BY <1>0, <1>1, <1>2 DEF UidsGiven
<1>4. x \in Entries /\ x.uid = worker[w].req.uid /\ x.action = worker[w].req.action
  BY DEF ReqTypeOK, Workers, Requests, Entries
<1>. HIDE DEF x
<1>5. Grown
  BY <1>1 DEF Grown
<1>6. \A v \in Busy' : v # w => /\ v \in Busy /\ worker'[v].todo = worker[v].todo
                                /\ worker'[v].pc = worker[v].pc
                                /\ SameRequest(worker[v].req, worker'[v].req)
  BY <1>1 DEF Busy, OnlyWorker, SameRequest
<1>7. /\ \A i \in DOMAIN queue' :
            \/ queue'[i] = Emptied \/ queue'[i] = x
            \/ \E j \in DOMAIN queue : queue'[i] = queue[j]
      /\ raced \subseteq raced'
  BY <1>1 DEF Adds
<1>8. UidsGiven'
  <2>1. \A v \in Busy' : worker'[v].req.uid = 0 =>
              \/ worker'[v].req.action \in Unqueued
              \/ worker'[v].pc = "busy" /\ "create" \in worker'[v].todo
    BY <1>0, <1>1, <1>3, <1>6 DEF UidsGiven, SameRequest
  <2>2. \A i \in DOMAIN queue' :
           \/ queue'[i] = Emptied
           \/ queue'[i].uid # 0 /\ \E k \in DOMAIN made : made[k] = queue'[i].uid
    BY <1>0, <1>2, <1>3, <1>4, <1>7 DEF UidsGiven
  <2>. QED BY <1>0, <1>1, <2>1, <2>2 DEF UidsGiven, Emptied
<1>9. EntriesFit'
  <2>1. ASSUME NEW r, NEW i \in DOMAIN queue',
               r.id # worker[w].req.id \/ SameRequest(worker[w].req, r),
               \A j \in DOMAIN queue : EntryFits(j, r)
        PROVE  EntryFits(i, r)'
    <3>0. CASE queue'[i] = Emptied
      BY <3>0 DEF EntryFits, Emptied
    <3>1. ASSUME NEW j \in DOMAIN queue, queue'[i] = queue[j] PROVE EntryFits(i, r)'
      BY <1>1, <2>1, <3>1 DEF EntryFits, Twin, Emptied
    <3>2. CASE queue'[i] = x /\ r.id # worker[w].req.id
      BY <1>1, <1>2, <1>4, <3>2 DEF EntryFits, Twin
    <3>3. CASE queue'[i] = x /\ SameRequest(worker[w].req, r)
      BY <1>2, <1>4, <3>3 DEF EntryFits, SameRequest
    <3>. QED BY <1>7, <2>1, <3>0, <3>1, <3>2, <3>3
  <2>2. ASSUME NEW i \in DOMAIN queue', NEW m \in wire
        PROVE  EntryFits(i, m.req)'
    <3>1. m.req.id # worker[w].req.id
      BY <1>2 DEF OnePlace
    <3>2. \A j \in DOMAIN queue : EntryFits(j, m.req)
      BY <1>0 DEF EntriesFit
    <3>. QED BY <2>1, <3>1, <3>2
  <2>3. ASSUME NEW i \in DOMAIN queue', NEW v \in Busy'
        PROVE  EntryFits(i, worker[v].req)'
    <3>1. v \in Busy /\ SameRequest(worker[v].req, worker'[v].req)
      BY <1>1, <1>2, <1>6 DEF SameRequest
    <3>2. worker[v].req.id # worker[w].req.id \/ v = w
      BY <1>2, <3>1 DEF OnePlace
    <3>3. PICK r : r = worker[v].req
      OBVIOUS
    <3>4. \A j \in DOMAIN queue : EntryFits(j, r)
      BY <1>0, <3>1, <3>3 DEF EntriesFit
    <3>5. r.id # worker[w].req.id \/ SameRequest(worker[w].req, r)
      BY <3>2, <3>3 DEF SameRequest
    <3>6. EntryFits(i, r)'
      BY <2>1, <3>4, <3>5
    <3>. QED BY <3>1, <3>3, <3>6 DEF EntryFits, Twin, SameRequest
  <2>. QED BY <1>1, <2>2, <2>3 DEF EntriesFit
<1>10. EntriesKept'
  <2>0. CASE AllRaced
    BY <1>8, <2>0, RacedEntries
  <2>. SUFFICES ASSUME \A j \in DOMAIN queue : j \in DOMAIN queue' /\ queue'[j] = queue[j],
                       \E i \in DOMAIN queue' : queue'[i] = x
                PROVE  EntriesKept'
    BY <1>1, <2>0 DEF Adds
  <2>1. ASSUME NEW r, HasEntry(r)
        PROVE  HasEntry(r)'
    BY <1>1, <1>7, <2>1 DEF HasEntry, Twin
  <2>2. \A m \in wire : HasEntry(m.req)'
    BY <1>0, <2>1 DEF EntriesKept
  <2>3. HasEntry(worker[w].req)'
    BY <1>1, <1>4 DEF HasEntry
  <2>4. ASSUME NEW v \in Busy', v # w, "create" \notin worker'[v].todo
        PROVE  HasEntry(worker[v].req)'
    <3>1. /\ v \in Busy /\ "create" \notin worker[v].todo /\ v \in Worker
          /\ SameRequest(worker[v].req, worker'[v].req)
      BY <1>6, <2>4 DEF Busy
    <3>2. PICK r : r = worker[v].req
      OBVIOUS
    <3>3. HasEntry(r)'
      BY <1>0, <2>1, <3>1, <3>2 DEF EntriesKept
    <3>. QED BY <3>1, <3>2, <3>3 DEF HasEntry, Twin, SameRequest
  <2>. QED BY <1>1, <2>2, <2>3, <2>4 DEF EntriesKept
<1>11. ConfirmedAsSent'
  BY <1>0, <1>1, <1>5, <1>7, ConfirmationsStay
<1>. QED BY <1>8, <1>9, <1>10, <1>11 DEF EntriesInv
(* The request behind a StartTransaction comes with its entry.             *)
LEMMA StartEntries ==
    ASSUME ReqTypeOK, ThreadsInStep, OnePlace, EntriesInv,
           ThreadsInStep', OnePlace', NEW e \in Endpoint, StartTransaction(e)
    PROVE  EntriesInv'
<1>0. UidsGiven /\ EntriesFit /\ EntriesKept /\ ConfirmedAsSent
  BY DEF EntriesInv
<1>1. /\ \A v \in Worker : worker'[v] = worker[v]
      /\ made' = Append(made, ms) /\ handled' = handled
  BY StartShape
<1>2. PICK m : /\ wire' = wire \cup {m}
               /\ m \in [e : Endpoint, req : Requests]
               /\ m.req.id = Len(made) + 1
               /\ m.req.action = "SetChargingProfile" /\ m.req.uid = ms
  BY StartShape
<1>. DEFINE x == [uid |-> ms, action |-> "SetChargingProfile"]
<1>3. x \in Entries /\ x.uid = m.req.uid /\ x.action = m.req.action
  BY <1>2, StartShape
<1>4. Adds(x)
  BY StartShape
<1>. HIDE DEF x
<1>5. m.req.uid # 0 /\ m.req.action \notin Unqueued
  BY <1>2, UnqueuedAssumption DEF ReqTypeOK
<1>6. /\ DOMAIN made' = DOMAIN made \cup {Len(made) + 1}
      /\ Len(made) + 1 \notin DOMAIN made
      /\ \A i \in DOMAIN made : made'[i] = made[i]
      /\ made'[Len(made) + 1] = m.req.uid
  <2>1. ms \in Nat /\ made \in Seq(Nat)
    BY DEF ReqTypeOK
  <2>. QED BY <1>1, <1>2, <2>1, Appended
<1>7. Grown
  BY <1>6 DEF Grown
<1>8. \A v \in Busy' : /\ v \in Busy /\ v \in Worker
                       /\ worker'[v].todo = worker[v].todo
                       /\ worker'[v].pc = worker[v].pc
                       /\ SameRequest(worker[v].req, worker'[v].req)
  BY <1>1 DEF Busy, SameRequest
<1>9. /\ \A i \in DOMAIN queue' :
            \/ queue'[i] = Emptied \/ queue'[i] = x
            \/ \E j \in DOMAIN queue : queue'[i] = queue[j]
      /\ raced \subseteq raced'
  BY <1>4 DEF Adds
<1>10. UidsGiven'
  <2>1. \A v \in Busy' : worker'[v].req.uid = 0 =>
              \/ worker'[v].req.action \in Unqueued
              \/ worker'[v].pc = "busy" /\ "create" \in worker'[v].todo
    BY <1>0, <1>8 DEF UidsGiven, SameRequest
  <2>2. ASSUME NEW i \in DOMAIN queue'
        PROVE  \/ queue'[i] = Emptied
               \/ queue'[i].uid # 0 /\ \E k \in DOMAIN made' : made'[k] = queue'[i].uid
    <3>1. CASE queue'[i] = x
      BY <1>3, <1>5, <1>6, <3>1
    <3>2. CASE \E j \in DOMAIN queue : queue'[i] = queue[j]
      BY <1>0, <1>6, <3>2 DEF UidsGiven
    <3>. QED BY <1>9, <3>1, <3>2
  <2>3. \A n \in wire' : n.req.uid = 0 => n.req.action \in Unqueued
    BY <1>0, <1>2, <1>5 DEF UidsGiven
  <2>. QED BY <1>0, <1>1, <2>1, <2>2, <2>3 DEF UidsGiven, Emptied
<1>11. EntriesFit'
  <2>1. ASSUME NEW r, NEW i \in DOMAIN queue', r.id \in DOMAIN made,
               \A j \in DOMAIN queue : EntryFits(j, r)
        PROVE  EntryFits(i, r)'
    <3>0. CASE queue'[i] = Emptied
      BY <3>0 DEF EntryFits, Emptied
    <3>1. ASSUME NEW j \in DOMAIN queue, queue'[i] = queue[j] PROVE EntryFits(i, r)'
      BY <1>0, <1>6, <2>1, <3>1 DEF EntryFits, Twin, Emptied
    <3>2. CASE queue'[i] = x
      BY <1>3, <1>6, <2>1, <3>2 DEF EntryFits, Twin
    <3>. QED BY <1>9, <3>0, <3>1, <3>2
  <2>2. ASSUME NEW i \in DOMAIN queue', NEW n \in wire
        PROVE  EntryFits(i, n.req)'
    BY <1>0, <2>1 DEF EntriesFit, OnePlace
  <2>3. ASSUME NEW i \in DOMAIN queue', NEW v \in Busy'
        PROVE  EntryFits(i, worker[v].req)'
    <3>1. /\ v \in Busy /\ SameRequest(worker[v].req, worker'[v].req)
          /\ worker[v].req.id \in DOMAIN made
      BY <1>8 DEF Busy, ThreadsInStep, InStep
    <3>2. PICK r : r = worker[v].req
      OBVIOUS
    <3>3. \A j \in DOMAIN queue : EntryFits(j, r)
      BY <1>0, <3>1, <3>2 DEF EntriesFit
    <3>4. EntryFits(i, r)'
      BY <2>1, <3>1, <3>2, <3>3
    <3>. QED BY <3>1, <3>2, <3>4 DEF EntryFits, Twin, SameRequest
  <2>4. ASSUME NEW i \in DOMAIN queue'
        PROVE  EntryFits(i, m.req)'
    <3>1. CASE queue'[i] = x
      BY <1>3, <1>5, <3>1 DEF EntryFits
    <3>2. ASSUME NEW j \in DOMAIN queue, queue'[i] = queue[j] PROVE EntryFits(i, m.req)'
      <4>1. SUFFICES ASSUME queue[j] # Emptied, queue[j].uid = m.req.uid
                     PROVE  Twin(m.req)'
        BY <3>2 DEF EntryFits, Emptied
      <4>2. PICK k \in DOMAIN made : made[k] = m.req.uid
        BY <1>0, <4>1 DEF UidsGiven
      <4>. QED BY <1>2, <1>6, <4>2 DEF Twin
    <3>3. CASE queue'[i] = Emptied
      BY <3>3 DEF EntryFits, Emptied
    <3>. QED BY <1>9, <3>1, <3>2, <3>3
  <2>. QED BY <1>2, <2>2, <2>3, <2>4 DEF EntriesFit
<1>12. EntriesKept'
  <2>0. CASE AllRaced
    BY <1>10, <2>0, RacedEntries
  <2>. SUFFICES ASSUME \A j \in DOMAIN queue : j \in DOMAIN queue' /\ queue'[j] = queue[j],
                       \E i \in DOMAIN queue' : queue'[i] = x
                PROVE  EntriesKept'
    BY <1>4, <2>0 DEF Adds
  <2>1. ASSUME NEW r, HasEntry(r)
        PROVE  HasEntry(r)'
    BY <1>6, <1>9, <2>1 DEF HasEntry, Twin
  <2>2. \A n \in wire : HasEntry(n.req)'
    BY <1>0, <2>1 DEF EntriesKept
  <2>3. HasEntry(m.req)'
    BY <1>3 DEF HasEntry
  <2>4. ASSUME NEW v \in Busy', "create" \notin worker'[v].todo
        PROVE  HasEntry(worker[v].req)'
    <3>1. /\ v \in Busy /\ "create" \notin worker[v].todo /\ v \in Worker
          /\ SameRequest(worker[v].req, worker'[v].req)
      BY <1>8, <2>4
    <3>2. PICK r : r = worker[v].req
      OBVIOUS
    <3>3. HasEntry(r)'
      BY <1>0, <2>1, <3>1, <3>2 DEF EntriesKept
    <3>. QED BY <3>1, <3>2, <3>3 DEF HasEntry, Twin, SameRequest
  <2>. QED BY <1>2, <2>2, <2>3, <2>4 DEF EntriesKept
<1>13. ConfirmedAsSent'
  BY <1>0, <1>1, <1>7, <1>9, ConfirmationsStay
<1>. QED BY <1>10, <1>11, <1>12, <1>13 DEF EntriesInv

(* A confirmation finds its request's entry, if it has one, and takes no    *)
(* entry that another request still needs.                                 *)
LEMMA ConfirmEntries ==
    ASSUME ReqTypeOK, ThreadsInStep, OnePlace, EntriesInv,
           ThreadsInStep', OnePlace', NEW m \in wire, processIncomingCPResponseMessage(m)
    PROVE  EntriesInv'
<1>0. UidsGiven /\ EntriesFit /\ EntriesKept /\ ConfirmedAsSent
  BY DEF EntriesInv
<1>1. /\ \A v \in Worker : worker'[v] = worker[v]
      /\ wire' = wire \ {m} /\ made' = made
      /\ raced \subseteq raced' /\ From(queue', queue)
  BY ConfirmShape
<1>2. PICK action \in Actions, kept \in BOOLEAN :
         /\ handled' = handled \cup {[req |-> m.req, as |-> action, kept |-> kept]}
         /\ \/ /\ \A i \in DOMAIN queue : queue[i].uid # m.req.uid
               /\ action = "none" /\ queue' = queue
            \/ \E i \in DOMAIN queue :
                  /\ queue[i].uid = m.req.uid
                  /\ action = queue[i].action
                  /\ queue' = RemoveAt(queue, i)
            \/ kept /\ AllRaced /\ Finds(m.req.uid, action)
  BY ConfirmShape
<1>3. \/ AllRaced
      \/ \A j \in DOMAIN queue : queue[j].uid # m.req.uid =>
            \E i \in DOMAIN queue' : queue'[i] = queue[j]
  <2>1. CASE queue' = queue
    BY <2>1
  <2>2. ASSUME NEW k \in DOMAIN queue, queue[k].uid = m.req.uid,
               queue' = RemoveAt(queue, k)
        PROVE  \A j \in DOMAIN queue : queue[j].uid # m.req.uid =>
                     \E i \in DOMAIN queue' : queue'[i] = queue[j]
    BY <2>2, RemovedFrom DEF ReqTypeOK
  <2>. QED BY <1>2, <2>1, <2>2
<1>4. Grown
  BY <1>1 DEF Grown
<1>5. \A v \in Busy' : /\ v \in Busy /\ v \in Worker
                       /\ worker'[v].todo = worker[v].todo
                       /\ worker'[v].pc = worker[v].pc
                       /\ SameRequest(worker[v].req, worker'[v].req)
  BY <1>1 DEF Busy, SameRequest
<1>6. /\ m.req.uid = 0 => action = "none" /\ m.req.action \in Unqueued
      /\ \A i \in DOMAIN queue : queue[i].uid = m.req.uid => queue[i] # Emptied
  <2>1. m.req.uid \in Nat
    BY DEF ReqTypeOK, Requests
  <2>2. \A i \in DOMAIN queue : queue[i].uid = m.req.uid => queue[i] # Emptied
    BY <2>1 DEF Emptied
  <2>. QED BY <1>0, <1>2, <2>2 DEF UidsGiven, Finds
<1>7. UidsGiven'
  <2>1. \A v \in Busy' : worker'[v].req.uid = 0 =>
              \/ worker'[v].req.action \in Unqueued
              \/ worker'[v].pc = "busy" /\ "create" \in worker'[v].todo
    BY <1>0, <1>5 DEF UidsGiven, SameRequest
  <2>2. \A i \in DOMAIN queue' :
           \/ queue'[i] = Emptied
           \/ queue'[i].uid # 0 /\ \E k \in DOMAIN made' : made'[k] = queue'[i].uid
    BY <1>0, <1>1 DEF UidsGiven, From
  <2>3. \A h \in handled' :
           h.req.uid = 0 => h.as = "none" /\ h.req.action \in Unqueued
    BY <1>0, <1>2, <1>6 DEF UidsGiven
  <2>4. \A n \in wire' : n.req.uid = 0 => n.req.action \in Unqueued
    BY <1>0, <1>1 DEF UidsGiven
  <2>. QED BY <2>1, <2>2, <2>3, <2>4 DEF UidsGiven, Emptied
<1>8. EntriesFit'
  BY <1>0, <1>1, <1>4, <1>5, FitKept
<1>9. EntriesKept'
  <2>0. CASE AllRaced
    BY <1>7, <2>0, RacedEntries
  <2>. SUFFICES ASSUME \A j \in DOMAIN queue : queue[j].uid # m.req.uid =>
                          \E i \in DOMAIN queue' : queue'[i] = queue[j]
                PROVE  EntriesKept'
    BY <1>3, <2>0
  <2>1. ASSUME NEW r, r.id # m.req.id, HasEntry(r)
        PROVE  HasEntry(r)'
    <3>1. SUFFICES ASSUME r.action \notin Unqueued, r.id \notin raced, ~Twin(r)
                   PROVE  \E i \in DOMAIN queue' : queue'[i].uid = r.uid
      BY <1>1 DEF HasEntry, Twin
    <3>2. r.uid # m.req.uid
      BY <2>1, <3>1 DEF Twin, OnePlace
    <3>3. PICK j \in DOMAIN queue : queue[j].uid = r.uid
      BY <2>1, <3>1 DEF HasEntry
    <3>. QED BY <3>2, <3>3
  <2>2. \A n \in wire' : HasEntry(n.req)'
    BY <1>0, <1>1, <2>1 DEF EntriesKept, OnePlace
  <2>3. ASSUME NEW v \in Busy', "create" \notin worker'[v].todo
        PROVE  HasEntry(worker[v].req)'
    <3>1. /\ v \in Busy /\ "create" \notin worker[v].todo /\ v \in Worker
          /\ SameRequest(worker[v].req, worker'[v].req)
      BY <1>5, <2>3
    <3>3. PICK r : r = worker[v].req
      OBVIOUS
    <3>4. HasEntry(r)'
      BY <1>0, <2>1, <3>1, <3>3 DEF EntriesKept, OnePlace
    <3>. QED BY <3>1, <3>3, <3>4 DEF HasEntry, Twin, SameRequest
  <2>. QED BY <2>2, <2>3 DEF EntriesKept
<1>10. ConfirmedAsSent'
  <2>1. ASSUME ~Twin(m.req)
        PROVE  IF m.req.action \in Unqueued THEN action = "none"
               ELSE m.req.id \in raced' \/ action = m.req.action
    <3>1. \A i \in DOMAIN queue : queue[i].uid = m.req.uid =>
             queue[i].action = m.req.action /\ m.req.action \notin Unqueued
      BY <1>0, <1>6, <2>1 DEF EntriesFit, EntryFits
    <3>2. m.req.action \notin Unqueued =>
             m.req.id \in raced \/ \E i \in DOMAIN queue : queue[i].uid = m.req.uid
      BY <1>0, <2>1 DEF EntriesKept, HasEntry
    <3>3. m.req.action \notin Unqueued => m.req.uid # 0
      BY <1>6
    <3>4. AllRaced /\ m.req.action \notin Unqueued => m.req.id \in raced'
      BY <1>1, <3>3 DEF AllRaced, OnePlace
    <3>. QED BY <1>1, <1>2, <3>1, <3>2, <3>4 DEF Finds
  <2>. QED BY <1>0, <1>1, <1>2, <2>1 DEF ConfirmedAsSent, Twin
<1>. QED BY <1>7, <1>8, <1>9, <1>10 DEF EntriesInv
(* Every step keeps the entries fit and in place.                          *)
LEMMA EntriesStep ==
    ASSUME TypeOK, ReqTypeOK, ThreadsInStep, OnePlace, EntriesInv,
           [ReqNext]_<<vars, reqVars>>
    PROVE  EntriesInv'
<1>. ThreadsInStep' /\ OnePlace'
  BY ThreadsStep, PlacesStep
<1>0. UidsGiven /\ EntriesFit /\ EntriesKept /\ ConfirmedAsSent
  BY DEF EntriesInv
<1>1. ASSUME UNCHANGED <<queue, made, handled, raced>>,
             \A v \in Busy' : /\ v \in Busy
                              /\ SameRequest(worker[v].req, worker'[v].req)
                              /\ \/ worker'[v].pc = worker[v].pc
                                 \/ "create" \notin worker[v].todo
                              /\ "create" \in worker'[v].todo
                                    <=> "create" \in worker[v].todo,
             \A m \in wire' :
                \/ m \in wire
                \/ \E v \in Busy : /\ "create" \notin worker[v].todo
                                   /\ SameRequest(worker[v].req, m.req)
      PROVE  EntriesInv'
  <2>1. Grown
    BY <1>1 DEF Grown
  <2>2. EntriesFit'
    BY <1>0, <1>1, <2>1, FitKept DEF From
  <2>3. EntriesKept'
    BY <1>0, <1>1, <2>1, EntriesStay
  <2>4. ConfirmedAsSent'
    BY <1>0, <1>1, <2>1, ConfirmationsStay
  <2>5. \A v \in Busy' : worker'[v].req.uid = 0 =>
              \/ worker'[v].req.action \in Unqueued
              \/ worker'[v].pc = "busy" /\ "create" \in worker'[v].todo
    BY <1>0, <1>1 DEF UidsGiven, SameRequest
  <2>6. \A m \in wire' : \/ m \in wire
                         \/ m.req.uid = 0 => m.req.action \in Unqueued
    BY <1>0, <1>1 DEF UidsGiven, SameRequest
  <2>7. UidsGiven'
    BY <1>0, <1>1, <2>1, <2>5, <2>6, UidsStay DEF From
  <2>. QED BY <2>2, <2>3, <2>4, <2>7 DEF EntriesInv
<1>2. ASSUME UNCHANGED <<worker, queue, made, handled, raced>>, wire' \subseteq wire
      PROVE  EntriesInv'
  BY <1>1, <1>2 DEF Busy, SameRequest
<1>3. ASSUME NEW w \in Worker, OnlyWorker(w)
      PROVE  \A v \in Busy' : v # w =>
                 /\ v \in Busy /\ SameRequest(worker[v].req, worker'[v].req)
                 /\ worker'[v].pc = worker[v].pc
                 /\ worker'[v].todo = worker[v].todo
  BY <1>3 DEF Busy, OnlyWorker, SameRequest, ThreadsInStep, InStep
<1>4. CASE UNCHANGED <<vars, reqVars>>
  BY <1>2, <1>4 DEF reqVars
<1>5. CASE NextMs \/ \E e \in Endpoint : Connection(e)
  BY <1>2, <1>5, QuietStep
<1>6. ASSUME NEW w \in Worker, getIPAddrBySerNumber(w)
      PROVE  EntriesInv'
  <2>0. worker[w].req.s \in Sern
    BY <1>6 DEF getIPAddrBySerNumber, ThreadsInStep, InStep
  <2>1. /\ OnlyWorker(w) /\ worker[w].pc = "busy" /\ worker'[w].pc = "busy"
        /\ worker'[w].todo = worker[w].todo \ {"look"}
        /\ worker'[w].req = worker[w].req
        /\ UNCHANGED <<queue, wire, made, handled, raced>>
    BY <1>6, <2>0, LookShape
  <2>2. w \in Busy
    BY <2>1 DEF Busy
  <2>3. "create" \in worker'[w].todo <=> "create" \in worker[w].todo
    BY <2>1
  <2>. QED BY <1>1, <1>3, <2>1, <2>2, <2>3 DEF SameRequest
<1>7. ASSUME NEW w \in Worker, get_ocpp_client_connection(w)
      PROVE  EntriesInv'
  <2>1. /\ OnlyWorker(w) /\ worker[w].pc = "busy" /\ worker[w].todo = {}
        /\ worker'[w].todo = {}
        /\ worker'[w] = Resting \/ worker'[w].req = worker[w].req
        /\ UNCHANGED <<queue, wire, made, handled, raced>>
    BY <1>7, FindShape
  <2>2. w \in Busy /\ (worker'[w] = Resting => w \notin Busy')
    BY <2>1, RestingFacts DEF Busy
  <2>. QED BY <1>1, <1>3, <2>1, <2>2 DEF SameRequest
<1>8. ASSUME NEW w \in Worker, sendResponse2Client(w)
      PROVE  EntriesInv'
  <2>1. /\ OnlyWorker(w) /\ worker[w].pc = "send" /\ worker'[w] = Resting
        /\ \/ wire' = wire
           \/ \E m : /\ wire' = wire \cup {m}
                     /\ SameRequest(worker[w].req, m.req)
        /\ UNCHANGED <<queue, made, handled, raced>>
    BY <1>8, SendShape DEF SameRequest
  <2>2. w \in Busy /\ w \notin Busy' /\ worker[w].todo = {}
    BY <2>1, RestingFacts DEF Busy, ThreadsInStep, InStep
  <2>. QED BY <1>1, <1>3, <2>1, <2>2
<1>. QED BY <1>4, <1>5, <1>6, <1>7, <1>8, CommandEntries, CreateEntries,
            AddedEntries, StartEntries, ConfirmEntries DEF ReqNext, doOcppCommand

-----------------------------------------------------------------------------
(* The length of request_queue *)

(* A finite set with one more element.                                     *)
LEMMA OneMore ==
    ASSUME NEW S, IsFiniteSet(S), NEW x
    PROVE  /\ IsFiniteSet(S \cup {x})
           /\ Cardinality(S \cup {x}) <= Cardinality(S) + 1
           /\ Cardinality(S \cup {x}) \in Nat
<1>1. Cardinality(S) \in Nat
  BY FS_CardinalityType
<1>2. /\ IsFiniteSet(S \cup {x})
      /\ \/ Cardinality(S \cup {x}) = Cardinality(S)
         \/ Cardinality(S \cup {x}) = Cardinality(S) + 1
  BY FS_AddElement
<1>. QED BY <1>1, <1>2

(* Every step keeps the count: an entry stands for a request made, not yet  *)
(* confirmed and no longer waiting to be queued.                           *)
LEMMA CountStep ==
    ASSUME TypeOK, ReqTypeOK, ThreadsInStep, EntriesCounted,
           [ReqNext]_<<vars, reqVars>>
    PROVE  EntriesCounted'
<1>0. /\ IsFiniteSet(Pending) /\ IsFiniteSet(Confirmed)
      /\ Cardinality(Pending) \in Nat /\ Cardinality(Confirmed) \in Nat
      /\ Len(queue) \in Nat /\ Len(made) \in Nat
  BY FS_CardinalityType, LenProperties DEF EntriesCounted, ReqTypeOK
<1>1. ASSUME Pending' \subseteq Pending, handled' = handled,
             Len(queue') = Len(queue), Len(made') = Len(made)
      PROVE  EntriesCounted'
  <2>1. /\ IsFiniteSet(Pending') /\ Cardinality(Pending') <= Cardinality(Pending)
        /\ Cardinality(Pending') \in Nat
    BY <1>0, <1>1, FS_Subset, FS_CardinalityType
  <2>2. Confirmed' = Confirmed
    BY <1>1 DEF Confirmed
  <2>. QED BY <1>0, <1>1, <2>1, <2>2 DEF EntriesCounted
<1>2. ASSUME NEW w \in Worker, OnlyWorker(w)
      PROVE  \A v \in Worker : v # w => (v \in Pending' <=> v \in Pending)
  BY <1>2 DEF OnlyWorker, Pending
<1>3. CASE UNCHANGED <<vars, reqVars>>
  BY <1>1, <1>3 DEF reqVars, Pending
<1>4. CASE NextMs \/ \E e \in Endpoint : Connection(e)
  BY <1>1, <1>4, QuietStep DEF Pending
<1>5. ASSUME NEW w \in Worker, NEW s \in Sern, NEW a \in Action, Command(w, s, a)
      PROVE  EntriesCounted'
  <2>1. /\ OnlyWorker(w) /\ made' = Append(made, worker'[w].req.uid)
        /\ UNCHANGED <<queue, handled>>
    BY <1>5, CommandShape
  <2>2. worker'[w].req.uid \in Nat /\ made \in Seq(Nat)
    BY <2>1 DEF OnlyWorker, Workers, Requests, ReqTypeOK
  <2>3. Len(made') = Len(made) + 1
    BY <2>1, <2>2, Appended
  <2>4. Pending' \subseteq Pending \cup {w}
    BY <1>2, <2>1 DEF Pending
  <2>5. /\ IsFiniteSet(Pending \cup {w})
        /\ Cardinality(Pending \cup {w}) <= Cardinality(Pending) + 1
        /\ Cardinality(Pending \cup {w}) \in Nat
    BY <1>0, OneMore
  <2>6. /\ IsFiniteSet(Pending') /\ Cardinality(Pending') \in Nat
        /\ Cardinality(Pending') <= Cardinality(Pending \cup {w})
    BY <2>4, <2>5, FS_Subset, FS_CardinalityType
  <2>7. Confirmed' = Confirmed
    BY <2>1 DEF Confirmed
  <2>. QED BY <1>0, <2>1, <2>3, <2>5, <2>6, <2>7 DEF EntriesCounted
<1>6. ASSUME NEW w \in Worker, create_central_request(w)
      PROVE  EntriesCounted'
  <2>0. worker[w].req.id \in DOMAIN made
    BY <1>6 DEF create_central_request, ThreadsInStep, InStep
  <2>1. /\ OnlyWorker(w) /\ worker'[w].todo = worker[w].todo
        /\ made' = [made EXCEPT ![worker[w].req.id] = ms]
        /\ worker[w].pc = "busy" /\ UNCHANGED <<queue, handled>>
    BY <1>6, <2>0, CreateShape
  <2>2. Pending' \subseteq Pending
    BY <1>2, <2>1 DEF Pending
  <2>3. Len(made') = Len(made)
    <3>1. made \in [1..Len(made) -> Nat] /\ ms \in Nat
      BY LenProperties DEF ReqTypeOK
    <3>2. made' \in [1..Len(made) -> Nat]
      BY <2>1, <3>1
    <3>. QED BY <1>0, <3>2, LenProperties, SeqDef
  <2>. QED BY <1>1, <2>1, <2>2, <2>3
<1>7. ASSUME NEW w \in Worker, Added(w)
      PROVE  EntriesCounted'
  <2>1. /\ OnlyWorker(w) /\ worker[w].pc = "adding"
        /\ worker'[w].todo = worker[w].todo \ {"create"}
        /\ queue' \in Seq(Entries) /\ Len(queue') <= Len(queue) + 1
        /\ UNCHANGED <<made, handled>>
    BY <1>7, AddedShape DEF Adds
  <2>3. Len(queue') \in Nat /\ Len(queue') <= Len(queue) + 1
    BY <2>1, LenProperties
  <2>4. w \in Pending /\ Pending' = Pending \ {w}
    BY <1>2, <2>1 DEF Pending, ThreadsInStep, InStep
  <2>5. /\ IsFiniteSet(Pending') /\ Cardinality(Pending') = Cardinality(Pending) - 1
    BY <1>0, <2>4, FS_RemoveElement
  <2>6. Cardinality(Pending') \in Nat
    BY <2>5, FS_CardinalityType
  <2>7. Confirmed' = Confirmed
    BY <2>1 DEF Confirmed
  <2>. QED BY <1>0, <2>1, <2>3, <2>5, <2>6, <2>7 DEF EntriesCounted
<1>8. ASSUME NEW w \in Worker, getIPAddrBySerNumber(w)
      PROVE  EntriesCounted'
  <2>0. worker[w].req.s \in Sern
    BY <1>8 DEF getIPAddrBySerNumber, ThreadsInStep, InStep
  <2>1. /\ OnlyWorker(w) /\ worker'[w].todo = worker[w].todo \ {"look"}
        /\ UNCHANGED <<queue, made, handled, raced>>
    BY <1>8, <2>0, LookShape
  <2>2. Pending' \subseteq Pending
    BY <1>2, <2>1 DEF Pending
  <2>. QED BY <1>1, <2>1, <2>2
<1>9. ASSUME NEW w \in Worker, get_ocpp_client_connection(w) \/ sendResponse2Client(w)
      PROVE  EntriesCounted'
  <2>1. /\ OnlyWorker(w) /\ worker'[w].todo = {} /\ UNCHANGED <<queue, made, handled, raced>>
    BY <1>9, FindShape, SendShape, RestingFacts
  <2>2. Pending' \subseteq Pending
    BY <1>2, <2>1 DEF Pending
  <2>. QED BY <1>1, <2>1, <2>2
<1>10. ASSUME NEW e \in Endpoint, StartTransaction(e)
       PROVE  EntriesCounted'
  <2>1. /\ \A v \in Worker : worker'[v] = worker[v]
        /\ made' = Append(made, ms) /\ handled' = handled
    BY <1>10, StartShape
  <2>2. queue' \in Seq(Entries) /\ Len(queue') <= Len(queue) + 1
    BY <1>10, StartShape DEF Adds
  <2>3. ms \in Nat /\ made \in Seq(Nat)
    BY DEF ReqTypeOK
  <2>4. Len(queue') \in Nat /\ Len(queue') <= Len(queue) + 1
    BY <2>2, LenProperties
  <2>5. Len(made') = Len(made) + 1
    BY <2>1, <2>3, Appended
  <2>6. Pending' = Pending /\ Confirmed' = Confirmed
    BY <2>1 DEF Pending, Confirmed
  <2>. QED BY <1>0, <2>1, <2>4, <2>5, <2>6 DEF EntriesCounted
<1>11. ASSUME NEW m \in wire, processIncomingCPResponseMessage(m)
       PROVE  EntriesCounted'
  <2>1. /\ \A v \in Worker : worker'[v] = worker[v]
        /\ made' = made
    BY <1>11, ConfirmShape
  <2>2. PICK action \in Actions, kept \in BOOLEAN :
         /\ handled' = handled \cup {[req |-> m.req, as |-> action, kept |-> kept]}
         /\ \/ action = "none" /\ queue' = queue
            \/ \E i \in DOMAIN queue : queue' = RemoveAt(queue, i)
            \/ kept
    BY <1>11, ConfirmShape
  <2>. DEFINE h == [req |-> m.req, as |-> action, kept |-> kept]
  <2>3. h.as = action /\ h.kept = kept
    OBVIOUS
  <2>4. handled' = handled \cup {h}
    BY <2>2
  <2>. HIDE DEF h
  <2>5. Pending' = Pending
    BY <2>1 DEF Pending
  <2>6. CASE action = "none" /\ queue' = queue
    <3>1. Confirmed' = Confirmed
      BY <2>3, <2>4, <2>6 DEF Confirmed
    <3>2. (\A g \in handled' : ~g.kept) => \A g \in handled : ~g.kept
      BY <2>4
    <3>. QED BY <1>0, <2>1, <2>5, <2>6, <3>1, <3>2 DEF EntriesCounted
  <2>7. ASSUME kept \/ \E i \in DOMAIN queue : queue' = RemoveAt(queue, i)
        PROVE  EntriesCounted'
    <3>1. Confirmed' \subseteq Confirmed \cup {h}
      BY <2>4 DEF Confirmed
    <3>2. /\ IsFiniteSet(Confirmed \cup {h})
          /\ Cardinality(Confirmed \cup {h}) <= Cardinality(Confirmed) + 1
          /\ Cardinality(Confirmed \cup {h}) \in Nat
      BY <1>0, OneMore
    <3>3. /\ IsFiniteSet(Confirmed') /\ Cardinality(Confirmed') \in Nat
          /\ Cardinality(Confirmed') <= Cardinality(Confirmed \cup {h})
      BY <3>1, <3>2, FS_Subset, FS_CardinalityType
    <3>4. ASSUME \A g \in handled' : ~g.kept
          PROVE  /\ \A g \in handled : ~g.kept
                 /\ Len(queue') = Len(queue) - 1
      <4>1. ~kept
        BY <2>3, <2>4, <3>4
      <4>2. queue \in Seq(Entries)
        BY DEF ReqTypeOK
      <4>. QED BY <2>4, <2>7, <3>4, <4>1, <4>2, RemovedFrom
    <3>. QED BY <1>0, <2>1, <2>5, <3>2, <3>3, <3>4 DEF EntriesCounted
  <2>. QED BY <2>2, <2>6, <2>7
<1>. QED BY <1>3, <1>4, <1>5, <1>6, <1>7, <1>8, <1>9, <1>10, <1>11 DEF ReqNext, doOcppCommand
-----------------------------------------------------------------------------
(* The theorems *)

(* The initial states satisfy the invariants.                              *)
LEMMA RequestsInit ==
    ASSUME ReqInit
    PROVE  /\ Client # {} /\ IInv
           /\ ReqTypeOK /\ ThreadsInStep /\ AddressesOfRequests /\ OnePlace
           /\ EntriesInv /\ EntriesCounted /\ RequestsReachTheirStation
<1>1. PICK c \in Client :
         cs = [s \in Sern |-> [NoRow EXCEPT !.stored = TRUE, !.ClientID = c]]
  BY DEF ReqInit
<1>2. \A s \in Sern : /\ cs[s] \in Row /\ cs[s].IPAddr = NoEndpoint /\ cs[s].stored
                      /\ cs[s].CertFlag = 0 /\ cs[s].LastUpdtdTS = 0
  BY <1>1, NoRowIsRow DEF Row, NoRow
<1>3. TypeOK
  BY <1>1, <1>2 DEF ReqInit, TypeOK
<1>4. ~PublicUse(0)
  BY DEF PublicUse
<1>5. HeardOnlyStored
  <2>1. now = 0 /\ \A s \in Sern : last[s].heard = 0
    BY DEF ReqInit
  <2>2. ASSUME NEW s \in Sern
        PROVE  last[s].heard <= now /\ last[s].heard <= cs[s].LastUpdtdTS
    <3>1. last[s].heard = 0 /\ now = 0 /\ cs[s].LastUpdtdTS = 0
      BY <1>2, <2>1
    <3>. QED BY <3>1
  <2>3. \A s \in Sern : cs[s].stored
    BY <1>2
  <2>. QED BY <2>2, <2>3, Zenon DEF HeardOnlyStored
<1>6. BootAcceptedOnlyRegistered /\ AddressLeadsHome /\ MissedHeartbeatTolerated
  BY <1>2, EndpointAssumption
     DEF ReqInit, BootAcceptedOnlyRegistered, AddressLeadsHome, MissedHeartbeatTolerated
<1>7. PublicUseIsTheStations
  BY <1>2, <1>4 DEF ReqInit, PublicUseIsTheStations
<1>8. IInv
  BY <1>3, <1>5, <1>6, <1>7 DEF IInv
<1>9. /\ worker \in [Worker -> Workers] /\ queue = <<>> /\ wire = {} /\ ms = 1
      /\ made = <<>> /\ handled = {} /\ raced = {}
      /\ \A w \in Worker : worker[w] = Resting
  BY RestingFacts DEF ReqInit
<1>10. /\ Busy = {} /\ Pending = {} /\ Confirmed = {} /\ DOMAIN queue = {}
       /\ \A w \in Worker : worker[w].pc = "idle" /\ worker[w].todo = {}
                            /\ worker[w].addr = NoEndpoint
  BY <1>9, RestingFacts DEF Busy, Pending, Confirmed
<1>11. ReqTypeOK
  BY <1>9 DEF ReqTypeOK
<1>12. ThreadsInStep /\ AddressesOfRequests
  BY <1>10 DEF ThreadsInStep, InStep, AddressesOfRequests, AddressOf
<1>13. OnePlace /\ RequestsReachTheirStation
  BY <1>9, <1>10 DEF OnePlace, RequestsReachTheirStation
<1>14. EntriesInv
  BY <1>9, <1>10 DEF EntriesInv, UidsGiven, EntriesFit, EntriesKept, ConfirmedAsSent
<1>15. EntriesCounted
  BY <1>9, <1>10, FS_EmptySet DEF EntriesCounted
<1>. QED BY <1>1, <1>8, <1>11, <1>12, <1>13, <1>14, <1>15

(* What holds whether or not the BootNotifications carry a firmware         *)
(* version.                                                                *)
RequestsInv ==
    /\ Client # {} /\ TypeOK
    /\ ReqTypeOK /\ ThreadsInStep /\ OnePlace /\ EntriesInv /\ EntriesCounted

(* The invariant of the requests and of their entries.                     *)
LEMMA RequestsInvariant == ReqSpec => []RequestsInv
<1>1. ReqInit => RequestsInv
  BY RequestsInit DEF RequestsInv, IInv
<1>2. RequestsInv /\ [ReqNext]_<<vars, reqVars>> => RequestsInv'
  <2>. SUFFICES ASSUME RequestsInv, [ReqNext]_<<vars, reqVars>>
                PROVE  RequestsInv'
    OBVIOUS
  <2>1. TypeOK'
    BY RegistryStep, TypeStep DEF RequestsInv
  <2>2. ReqTypeOK' /\ ThreadsInStep'
    BY ThreadsStep DEF RequestsInv
  <2>3. OnePlace'
    BY PlacesStep DEF RequestsInv
  <2>4. EntriesInv'
    BY EntriesStep DEF RequestsInv
  <2>5. EntriesCounted'
    BY CountStep DEF RequestsInv
  <2>. QED BY <2>1, <2>2, <2>3, <2>4, <2>5 DEF RequestsInv
<1>. QED BY <1>1, <1>2, PTL DEF ReqSpec

(* The confirmation of a request is taken for that of the action that was   *)
(* sent, for every number of threads, requests and stations.               *)
THEOREM ConfirmationsMatch == ReqSpec => []ConfirmedAsSent
<1>1. RequestsInv => ConfirmedAsSent
  BY DEF RequestsInv, EntriesInv
<1>. QED BY <1>1, RequestsInvariant, PTL

(* request_queue never holds more entries than requests that were made and  *)
(* not confirmed, unless an erase was lost.                                *)
THEOREM QueueBounded == ReqSpec => []QueueHoldsUnconfirmed
<1>1. RequestsInv => QueueHoldsUnconfirmed
  <2>. SUFFICES ASSUME RequestsInv, \A h \in handled : ~h.kept
                PROVE  Len(queue) + Cardinality(Confirmed) <= Len(made)
    BY DEF QueueHoldsUnconfirmed, Confirmed
  <2>1. /\ Cardinality(Pending) \in Nat /\ Cardinality(Confirmed) \in Nat
        /\ Len(queue) \in Nat /\ Len(made) \in Nat
        /\ Len(queue) + Cardinality(Confirmed) + Cardinality(Pending) <= Len(made)
    BY FS_CardinalityType, LenProperties DEF RequestsInv, EntriesCounted, ReqTypeOK
  <2>. QED BY <2>1
<1>. QED BY <1>1, RequestsInvariant, PTL

(* A request arrives at the station it is for, when every BootNotification  *)
(* carries a firmware version: the address in the row, the thread's copy of *)
(* it and the handle all lead to that station.                             *)
THEOREM RequestsArrive ==
    ASSUME BootHasFw = {TRUE}
    PROVE  ReqSpec => []RequestsReachTheirStation
<1>. DEFINE Inv == IInv /\ AddressesOfRequests /\ RequestsReachTheirStation
<1>1. ReqInit => Inv
  BY RequestsInit
<1>2. RequestsInv /\ Inv /\ [ReqNext]_<<vars, reqVars>> => Inv'
  <2>. SUFFICES ASSUME RequestsInv, Inv, [ReqNext]_<<vars, reqVars>>
                PROVE  Inv'
    OBVIOUS
  <2>1. IInv'
    BY RegistryStep, InductiveStep DEF RequestsInv
  <2>2. AddressesOfRequests' /\ RequestsReachTheirStation'
    BY RoutingStep DEF RequestsInv
  <2>. QED BY <2>1, <2>2
<1>3. Inv => RequestsReachTheirStation
  OBVIOUS
<1>. HIDE DEF Inv
<1>. QED BY <1>1, <1>2, <1>3, RequestsInvariant, PTL DEF ReqSpec
=============================================================================
