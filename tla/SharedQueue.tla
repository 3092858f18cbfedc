----------------------------- MODULE SharedQueue -----------------------------
(* The shared queues of the default v1 imports handler: sharedQueueRegistry and  *)
(* sharedQueue in proxywasm/v1/default.go, behind the host calls of              *)
(* internal/imports/v1/shared.go. One registry serves the guests of the whole    *)
(* process, each on a goroutine of its own.                                      *)
(*                                                                               *)
(* The registry and every queue have locks of their own. Enqueueing and          *)
(* dequeueing look the queue up under the first, let go of it, and then work on  *)
(* the queue under the second: in between the queue may be removed.              *)
EXTENDS Integers, Sequences, FiniteSets

CONSTANTS Guests,     \* guests that call the host
          Names,      \* queue names they use
          NoID,       \* stands for a name without queue, a guest without token
          Modulus,    \* queue ids are uint32: they count modulo 2^32
          MaxQueues,  \* bound: how many queues get created
          MaxMessages \* bound: how many messages get enqueued

IDs == 0..(Modulus - 1)

ASSUME ModulusAssumption == Modulus \in Nat \ {0}
ASSUME BoundsAssumption == MaxQueues \in Nat /\ MaxMessages \in Nat
ASSUME NoIDAssumption == NoID \notin IDs

\* Queues and messages are numbered in the order they come into being; the number
\* of a queue stands for its pointer. A message is stamped with the name its
\* sender meant.
Queues == 1..MaxQueues
NoQueue == 0
Messages == [num : Nat, to : Names]

VARIABLES
  nameToID,  \* sharedQueueRegistry.nameToIDMap
  m,         \* sharedQueueRegistry.m
  gen,       \* sharedQueueRegistry.queueIDGenerator
  created,   \* how many queues have been created
  nameOf,    \* sharedQueue.name of each queue created
  queue,     \* sharedQueue.queue of each queue created
  tokens,    \* the queue id each guest last learned for each name
  busy,      \* what a guest's call is about to do: "idle", "enque" or "deque" on
             \* a queue it looked up, or "copy" what it dequeued
  ptr,       \* the queue it looked up
  for,       \* the name whose token it used
  item,      \* the message it dequeued, as a sequence of at most one
  res,       \* the result of each guest's last call
  sent, inbox, lost, newest \* history: number of messages enqueued; messages in
                            \* each guest's memory; messages whose copying failed;
                            \* newest message taken from each queue

registry == <<nameToID, m, gen, created, nameOf>>
call == <<busy, ptr, for, item>>
history == <<sent, inbox, lost, newest>>
vars == <<registry, queue, tokens, call, res, history>>

Init ==
  /\ nameToID = [n \in Names |-> NoID]
  /\ m = [i \in IDs |-> NoQueue]
  /\ gen = 0
  /\ created = 0
  /\ nameOf = [q \in Queues |-> NoID]
  /\ queue = [q \in Queues |-> <<>>]
  /\ tokens = [g \in Guests |-> [n \in Names |-> NoID]]
  /\ busy = [g \in Guests |-> "idle"]
  /\ ptr = [g \in Guests |-> NoQueue]
  /\ for = [g \in Guests |-> NoID]
  /\ item = [g \in Guests |-> <<>>]
  /\ res = [g \in Guests |-> "none"]
  /\ sent = 0
  /\ inbox = [g \in Guests |-> {}]
  /\ lost = {}
  /\ newest = [q \in Queues |-> 0]

Answered(g, r) == res' = [res EXCEPT ![g] = r]
Idle(g) == busy[g] = "idle"

\* A call that was at work on a queue returns.
Return(g, r) == /\ Answered(g, r)
                /\ busy' = [busy EXCEPT ![g] = "idle"]
                /\ ptr' = [ptr EXCEPT ![g] = NoQueue]
                /\ for' = [for EXCEPT ![g] = NoID]

\* The token reaches the guest, unless writing it to the guest's memory fails.
GiveToken(g, n, i) ==
  \/ tokens' = [tokens EXCEPT ![g][n] = i] /\ Answered(g, "Ok")
  \/ UNCHANGED tokens /\ Answered(g, "InvalidMemoryAccess")

-------------------------------------------------------------------------------
(* The registry, under its lock                                                  *)

\* register of a name that has a queue answers with its id.
RegisterAgain(g, n) ==
  /\ Idle(g)
  /\ nameToID[n] # NoID
  /\ GiveToken(g, n, nameToID[n])
  /\ UNCHANGED <<registry, queue, call, history>>

\* atomic.AddUint32(&s.queueIDGenerator, 1). The mutant numbers a queue after
\* how many there are.
NextID_Count == (Cardinality({i \in IDs : m[i] # NoQueue}) + 1) % Modulus
NextID == (gen + 1) % Modulus

\* register of a new name makes a queue under the next id, whatever has that id.
RegisterNew(g, n) ==
  /\ Idle(g) /\ created < MaxQueues
  /\ nameToID[n] = NoID
  /\ gen' = NextID
  /\ created' = created + 1
  /\ nameToID' = [nameToID EXCEPT ![n] = NextID]
  /\ m' = [m EXCEPT ![NextID] = created + 1]
  /\ nameOf' = [nameOf EXCEPT ![created + 1] = n]
  /\ GiveToken(g, n, NextID)
  /\ UNCHANGED <<queue, call, history>>

\* resolve
Resolve(g, n) ==
  /\ Idle(g)
  /\ \/ nameToID[n] # NoID /\ GiveToken(g, n, nameToID[n])
     \/ nameToID[n] = NoID /\ Answered(g, "NotFound") /\ UNCHANGED tokens
  /\ UNCHANGED <<registry, queue, call, history>>

\* get: the queue with an id, if there is one.
Get(i) == m[i]

\* delete takes the queue out of both maps. The mutant forgets the name.
Delete_IDOnly(i) ==
  /\ nameToID' = nameToID
  /\ m' = [m EXCEPT ![i] = NoQueue]
Delete(i) ==
  /\ nameToID' = [nameToID EXCEPT ![nameOf[m[i]]] = NoID]
  /\ m' = [m EXCEPT ![i] = NoQueue]

\* A guest that has a token removes the queue; whoever is at work on it goes on.
Remove(g, n) ==
  /\ Idle(g) /\ tokens[g][n] # NoID
  /\ \/ /\ Get(tokens[g][n]) # NoQueue
        /\ Delete(tokens[g][n])
        /\ Answered(g, "Ok")
     \/ /\ Get(tokens[g][n]) = NoQueue
        /\ Answered(g, "NotFound")
        /\ UNCHANGED <<nameToID, m>>
  /\ UNCHANGED <<gen, created, nameOf, queue, tokens, call, history>>

-------------------------------------------------------------------------------
(* The queues, each under its lock                                               *)

\* Within the bound on messages, counting those about to be enqueued.
MayEnque == sent + Cardinality({g \in Guests : busy[g] = "enque"}) < MaxMessages

\* EnqueueSharedQueue and DequeueSharedQueue look the queue up in the registry.
LookUp(g, n, what) ==
  /\ Idle(g) /\ tokens[g][n] # NoID
  /\ what = "enque" => MayEnque
  /\ \/ /\ Get(tokens[g][n]) # NoQueue
        /\ busy' = [busy EXCEPT ![g] = what]
        /\ ptr' = [ptr EXCEPT ![g] = Get(tokens[g][n])]
        /\ for' = [for EXCEPT ![g] = n]
        /\ UNCHANGED <<item, res>>
     \/ /\ Get(tokens[g][n]) = NoQueue
        /\ Answered(g, "NotFound")
        /\ UNCHANGED call
  /\ UNCHANGED <<registry, queue, tokens, history>>

\* append(s.queue, value). The mutant puts the value in front.
Appended_Front(q, v) == <<v>> \o q
Appended(q, v) == Append(q, v)

\* enque, on the queue that was looked up, removed or not.
Enque(g) ==
  /\ busy[g] = "enque"
  /\ sent' = sent + 1
  /\ queue' = [queue EXCEPT ![ptr[g]] = Appended(@, [num |-> sent + 1, to |-> for[g]])]
  /\ Return(g, "Ok")
  /\ UNCHANGED <<registry, tokens, item, inbox, lost, newest>>

\* deque of an empty queue.
DequeEmpty(g) ==
  /\ busy[g] = "deque"
  /\ queue[ptr[g]] = <<>>
  /\ Return(g, "Empty")
  /\ UNCHANGED <<registry, queue, tokens, item, history>>

\* s.queue[1:]. The mutant leaves the value in place.
Rest_Kept(q) == q
Rest(q) == Tail(q)

\* deque takes the first value out of the queue for good; it is not in the guest yet.
Deque(g) ==
  /\ busy[g] = "deque"
  /\ queue[ptr[g]] # <<>>
  /\ item' = [item EXCEPT ![g] = <<Head(queue[ptr[g]])>>]
  /\ newest' = [newest EXCEPT ![ptr[g]] = Head(queue[ptr[g]]).num]
  /\ queue' = [queue EXCEPT ![ptr[g]] = Rest(@)]
  /\ busy' = [busy EXCEPT ![g] = "copy"]
  /\ UNCHANGED <<registry, tokens, ptr, for, res, sent, inbox, lost>>

\* copyIntoInstance: the message is in the guest's memory,
CopyOut(g) ==
  /\ busy[g] = "copy"
  /\ inbox' = [inbox EXCEPT ![g] = @ \cup {[msg |-> item[g][1], via |-> for[g]]}]
  /\ item' = [item EXCEPT ![g] = <<>>]
  /\ Return(g, "Ok")
  /\ UNCHANGED <<registry, queue, tokens, sent, lost, newest>>

\* or it is lost: nothing puts it back in the queue.
CopyFails(g) ==
  /\ busy[g] = "copy"
  /\ lost' = lost \cup {item[g][1]}
  /\ item' = [item EXCEPT ![g] = <<>>]
  /\ Return(g, "InvalidMemoryAccess")
  /\ UNCHANGED <<registry, queue, tokens, sent, inbox, newest>>

-------------------------------------------------------------------------------
GuestStep(g) ==
  \/ \E n \in Names : \/ RegisterAgain(g, n) \/ RegisterNew(g, n) \/ Resolve(g, n)
                      \/ Remove(g, n)
                      \/ LookUp(g, n, "enque") \/ LookUp(g, n, "deque")
  \/ Enque(g) \/ DequeEmpty(g) \/ Deque(g) \/ CopyOut(g) \/ CopyFails(g)

Next == \E g \in Guests : GuestStep(g)

Spec == Init /\ [][Next]_vars

-------------------------------------------------------------------------------
(* Properties                                                                    *)

\* The maps, the queues and the calls keep their types: the id generator in
\* particular stays a uint32.
TypeOK ==
  /\ nameToID \in [Names -> IDs \cup {NoID}]
  /\ m \in [IDs -> Queues \cup {NoQueue}]
  /\ gen \in IDs
  /\ created \in 0..MaxQueues
  /\ nameOf \in [Queues -> Names \cup {NoID}]
  /\ queue \in [Queues -> Seq(Messages)]
  /\ tokens \in [Guests -> [Names -> IDs \cup {NoID}]]
  /\ busy \in [Guests -> {"idle", "enque", "deque", "copy"}]
  /\ ptr \in [Guests -> Queues \cup {NoQueue}]
  /\ for \in [Guests -> Names \cup {NoID}]
  /\ item \in [Guests -> Seq(Messages)]
  /\ \A g \in Guests : /\ Len(item[g]) <= 1
                       /\ busy[g] \in {"enque", "deque"} => ptr[g] \in Queues
                       /\ busy[g] # "idle" => for[g] \in Names
                       /\ busy[g] = "copy" => Len(item[g]) = 1
  /\ sent \in Nat
  /\ inbox \in [Guests -> SUBSET [msg : Messages, via : Names]]
  /\ newest \in [Queues -> Nat]

\* The ids have not come round to that of the first queue.
Unwrapped == created <= Modulus

\* The two maps of the registry agree: a name has the id of the queue of that
\* name, and every queue in the map is found under its name. No order of
\* registering, resolving and removing leaves one map with what the other lacks.
RegistryAgrees ==
  Unwrapped =>
    /\ \A n \in Names : nameToID[n] # NoID => /\ m[nameToID[n]] # NoQueue
                                              /\ nameOf[m[nameToID[n]]] = n
    /\ \A i \in IDs : m[i] # NoQueue => nameToID[nameOf[m[i]]] = i

\* A token never comes to mean another queue: it finds a queue of the name it was
\* handed out for, or none, even after that queue was removed and made anew.
TokensStayTrue ==
  Unwrapped =>
    \A g \in Guests, n \in Names :
      (tokens[g][n] # NoID /\ m[tokens[g][n]] # NoQueue) => nameOf[m[tokens[g][n]]] = n

\* A guest receives under a name only what was sent under that name.
NoCrossDelivery ==
  Unwrapped => \A g \in Guests : \A d \in inbox[g] : d.msg.to = d.via

\* The messages of a queue are taken in the order they were put in: those still
\* there are in order, and newer than any that was taken.
InOrder ==
  \A q \in 1..created :
    /\ \A i, j \in 1..Len(queue[q]) : i < j => queue[q][i].num < queue[q][j].num
    /\ \A i \in 1..Len(queue[q]) : newest[q] < queue[q][i].num

\* What these rest on. Queues are numbered as they are created: no map, call or
\* message knows one that has not been.
Numbered ==
  /\ gen = created % Modulus
  /\ \A i \in IDs : m[i] \in 0..created
  /\ \A q \in 1..created : nameOf[q] \in Names
  /\ \A q \in Queues : q > created => queue[q] = <<>> /\ newest[q] = 0
  /\ \A g \in Guests : busy[g] \in {"enque", "deque"} => ptr[g] \in 1..created

\* While ids have not come round the id of a queue is its number, modulo 2^32, so
\* that an id, once given, means one queue or none; the maps agree.
Identified ==
  Unwrapped =>
    /\ \A i \in IDs : m[i] # NoQueue => i = m[i] % Modulus /\ nameToID[nameOf[m[i]]] = i
    /\ \A n \in Names : nameToID[n] # NoID => /\ m[nameToID[n]] # NoQueue
                                              /\ nameOf[m[nameToID[n]]] = n
    /\ \A g \in Guests, n \in Names :
         tokens[g][n] # NoID =>
           \E q \in 1..created : tokens[g][n] = q % Modulus /\ nameOf[q] = n

\* Messages keep the name of their queue on every stage of their way.
Addressed ==
  Unwrapped =>
    /\ \A q \in 1..created : \A i \in 1..Len(queue[q]) : queue[q][i].to = nameOf[q]
    /\ \A g \in Guests : busy[g] \in {"enque", "deque"} => nameOf[ptr[g]] = for[g]
    /\ \A g \in Guests : busy[g] = "copy" => item[g][1].to = for[g]
    /\ \A g \in Guests : \A d \in inbox[g] : d.msg.to = d.via

\* No message is newer than the last that was sent.
Recent ==
  \A q \in Queues : /\ newest[q] <= sent
                    /\ \A i \in 1..Len(queue[q]) : queue[q][i].num <= sent

QueueInv == Numbered /\ Identified /\ Addressed /\ Recent

\* Where message number x is: in a queue (served or removed), on its way to a
\* guest, in a guest, or lost in copying.
Places(x) ==
  {<<"queue", q>> : q \in {q \in Queues : \E i \in 1..Len(queue[q]) : queue[q][i].num = x}}
    \cup {<<"copy", g>> : g \in {g \in Guests : \E i \in 1..Len(item[g]) : item[g][i].num = x}}
    \cup {<<"inbox", g>> : g \in {g \in Guests : \E d \in inbox[g] : d.msg.num = x}}
    \cup {<<"lost", y>> : y \in {y \in lost : y.num = x}}

\* Every message that was accepted is in exactly one place: none is delivered
\* twice, and none vanishes except where copying it into the guest failed.
InOnePlace == \A x \in 1..sent : Cardinality(Places(x)) = 1
===============================================================================
