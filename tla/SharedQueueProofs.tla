--------------------------- MODULE SharedQueueProofs ---------------------------
(* Theorems about SharedQueue, for any guests, names, bounds and width of the    *)
(* queue ids.                                                                    *)
EXTENDS SharedQueue, FiniteSetTheorems, TLAPS

-------------------------------------------------------------------------------
(* The counter comes round                                                       *)

\* What the remainder of a multiple and a rest is.
LEMMA ModUnique ==
  ASSUME NEW M \in Nat \ {0}, NEW x \in Nat, NEW q \in Int, NEW r \in 0..(M - 1),
         x = M * q + r
  PROVE  x % M = r
  OBVIOUS

\* Counting one on, modulo M.
LEMMA ModNext ==
  ASSUME NEW M \in Nat \ {0}, NEW a \in Nat
  PROVE  ((a % M) + 1) % M = (a + 1) % M
<1> DEFINE q == a \div M
           r == a % M
<1>1. a = M * q + r /\ q \in Int /\ r \in 0..(M - 1)
  OBVIOUS
<1> HIDE DEF q, r
<1>2. CASE r + 1 < M
  <2>1. a + 1 = M * q + (r + 1) /\ r + 1 = M * 0 + (r + 1) /\ r + 1 \in 0..(M - 1)
    BY <1>1, <1>2
  <2>2. (a + 1) % M = r + 1 /\ (r + 1) % M = r + 1
    BY <1>1, <2>1, ModUnique
  <2> QED BY <2>2 DEF r
<1>3. CASE r + 1 = M
  <2>1. a + 1 = M * (q + 1) + 0 /\ r + 1 = M * 1 + 0 /\ 0 \in 0..(M - 1)
    BY <1>1, <1>3
  <2>2. (a + 1) % M = 0 /\ (r + 1) % M = 0
    BY <1>1, <2>1, ModUnique
  <2> QED BY <2>2 DEF r
<1> QED BY <1>1, <1>2, <1>3

\* Two counts that look alike are the same or a whole round apart.
LEMMA ModGap ==
  ASSUME NEW M \in Nat \ {0}, NEW a \in Nat, NEW b \in Nat, a % M = b % M, a < b
  PROVE  b - a >= M
  OBVIOUS

-------------------------------------------------------------------------------
(* Types                                                                         *)

\* The steps on the registry keep the types of what they change.
LEMMA NextIDType == ASSUME TypeOK PROVE NextID \in IDs
BY ModulusAssumption DEF TypeOK, NextID, IDs, ModulusAssumption

LEMMA GiveTokenType ==
  ASSUME TypeOK, NEW g \in Guests, NEW n \in Names, NEW i \in IDs, GiveToken(g, n, i)
  PROVE  tokens' \in [Guests -> [Names -> IDs \cup {NoID}]]
<1>1. tokens \in [Guests -> [Names -> IDs \cup {NoID}]]
  BY DEF TypeOK
<1>2. CASE tokens' = [tokens EXCEPT ![g][n] = i]
  <2>1. [tokens[g] EXCEPT ![n] = i] \in [Names -> IDs \cup {NoID}]
    BY <1>1
  <2> QED BY <1>1, <1>2, <2>1
<1> QED BY <1>1, <1>2 DEF GiveToken

LEMMA RegistryTypeStep ==
  ASSUME TypeOK, NEW g \in Guests, NEW n \in Names,
         RegisterAgain(g, n) \/ RegisterNew(g, n) \/ Resolve(g, n) \/ Remove(g, n)
  PROVE  TypeOK'
<1>1. UNCHANGED <<queue, call, history>>
  BY DEF RegisterAgain, RegisterNew, Resolve, Remove
<1>2. CASE RegisterAgain(g, n)
  <2>1. nameToID[n] \in IDs
    BY <1>2 DEF RegisterAgain, TypeOK
  <2>2. tokens' \in [Guests -> [Names -> IDs \cup {NoID}]]
    BY <1>2, <2>1, GiveTokenType DEF RegisterAgain
  <2> QED BY <1>1, <1>2, <2>2 DEF RegisterAgain, TypeOK, registry, call, history
<1>3. CASE RegisterNew(g, n)
  <2>1. created' = created + 1 /\ created + 1 \in 1..MaxQueues
    BY <1>3, BoundsAssumption DEF RegisterNew, TypeOK, BoundsAssumption
  <2>2. NextID \in IDs /\ tokens' \in [Guests -> [Names -> IDs \cup {NoID}]]
    BY <1>3, NextIDType, GiveTokenType DEF RegisterNew
  <2>3. created' \in 0..MaxQueues /\ created + 1 \in Queues
    BY <2>1, BoundsAssumption DEF Queues, BoundsAssumption
  <2>4. /\ nameToID' \in [Names -> IDs \cup {NoID}]
        /\ m' \in [IDs -> Queues \cup {NoQueue}]
        /\ gen' \in IDs
        /\ nameOf' \in [Queues -> Names \cup {NoID}]
    BY <1>3, <2>2, <2>3 DEF RegisterNew, TypeOK
  <2> QED BY <1>1, <2>2, <2>3, <2>4 DEF TypeOK, call, history
<1>4. CASE Resolve(g, n)
  <2>1. tokens' \in [Guests -> [Names -> IDs \cup {NoID}]]
    BY <1>4, GiveTokenType DEF Resolve, TypeOK
  <2> QED BY <1>1, <1>4, <2>1 DEF Resolve, TypeOK, registry, call, history
<1>5. CASE Remove(g, n)
  <2>1. nameToID' \in [Names -> IDs \cup {NoID}] /\ m' \in [IDs -> Queues \cup {NoQueue}]
    BY <1>5 DEF Remove, Delete, TypeOK
  <2> QED BY <1>1, <1>5, <2>1 DEF Remove, TypeOK, call, history
<1> QED BY <1>2, <1>3, <1>4, <1>5

\* The steps on a queue keep the types.
LEMMA LookUpTypeStep ==
  ASSUME TypeOK, NEW g \in Guests, NEW n \in Names, NEW what \in {"enque", "deque"},
         LookUp(g, n, what)
  PROVE  TypeOK'
<1>1. tokens[g][n] \in IDs
  BY DEF LookUp, TypeOK
<1>2. UNCHANGED <<registry, queue, tokens, history, item>>
  BY DEF LookUp, call
<1>3. CASE Get(tokens[g][n]) # NoQueue
  <2>1. Get(tokens[g][n]) \in Queues
    BY <1>1, <1>3 DEF TypeOK, Get
  <2>2. /\ busy' = [busy EXCEPT ![g] = what]
        /\ ptr' = [ptr EXCEPT ![g] = Get(tokens[g][n])]
        /\ for' = [for EXCEPT ![g] = n]
    BY <1>3 DEF LookUp
  <2>3. busy[g] = "idle"
    BY DEF LookUp, Idle
  <2> QED BY <1>2, <2>1, <2>2 DEF TypeOK, registry, history
<1>4. CASE Get(tokens[g][n]) = NoQueue
  BY <1>2, <1>4 DEF LookUp, TypeOK, registry, history, call
<1> QED BY <1>3, <1>4

LEMMA QueueTypeStep ==
  ASSUME TypeOK, NEW g \in Guests,
         Enque(g) \/ DequeEmpty(g) \/ Deque(g) \/ CopyOut(g) \/ CopyFails(g)
  PROVE  TypeOK'
<1>1. CASE Enque(g)
  <2>1. [num |-> sent + 1, to |-> for[g]] \in Messages /\ ptr[g] \in Queues
    BY <1>1 DEF Enque, TypeOK, Messages
  <2>2. queue' \in [Queues -> Seq(Messages)] /\ sent' \in Nat
    BY <1>1, <2>1 DEF Enque, Appended, TypeOK
  <2>3. UNCHANGED <<registry, tokens, item, inbox, lost, newest>> /\ Return(g, "Ok")
    BY <1>1 DEF Enque
  <2> QED BY <2>2, <2>3 DEF TypeOK, Return, registry
<1>2. CASE DequeEmpty(g)
  BY <1>2 DEF DequeEmpty, TypeOK, Return, registry, history
<1>3. CASE Deque(g)
  <2>1. ptr[g] \in Queues /\ queue[ptr[g]] \in Seq(Messages) /\ queue[ptr[g]] # <<>>
    BY <1>3 DEF Deque, TypeOK
  <2>2. Head(queue[ptr[g]]) \in Messages /\ Tail(queue[ptr[g]]) \in Seq(Messages)
    BY <2>1
  <2>3. queue' \in [Queues -> Seq(Messages)] /\ newest' \in [Queues -> Nat]
    BY <1>3, <2>2 DEF Deque, Rest, TypeOK, Messages
  <2>4. UNCHANGED <<registry, tokens, ptr, for, sent, inbox, lost>>
    BY <1>3 DEF Deque
  <2>5. /\ busy[g] = "deque" /\ busy' = [busy EXCEPT ![g] = "copy"]
        /\ item' = [item EXCEPT ![g] = <<Head(queue[ptr[g]])>>]
    BY <1>3 DEF Deque
  <2>6. <<Head(queue[ptr[g]])>> \in Seq(Messages) /\ Len(<<Head(queue[ptr[g]])>>) = 1
    BY <2>2
  <2>7. item' \in [Guests -> Seq(Messages)] /\ \A h \in Guests : Len(item'[h]) <= 1
    BY <2>5, <2>6 DEF TypeOK
  <2>8. \A h \in Guests : /\ busy'[h] \in {"enque", "deque"} => ptr'[h] \in Queues
                          /\ busy'[h] # "idle" => for'[h] \in Names
                          /\ busy'[h] = "copy" => Len(item'[h]) = 1
    <3>1. SUFFICES ASSUME NEW h \in Guests
                   PROVE  /\ busy'[h] \in {"enque", "deque"} => ptr'[h] \in Queues
                          /\ busy'[h] # "idle" => for'[h] \in Names
                          /\ busy'[h] = "copy" => Len(item'[h]) = 1
      OBVIOUS
    <3>2. CASE h = g
      <4>1. busy'[h] = "copy" /\ item'[h] = <<Head(queue[ptr[g]])>> /\ for'[h] = for[g]
        BY <2>4, <2>5, <3>2 DEF TypeOK
      <4> QED BY <2>5, <2>6, <3>2, <4>1 DEF TypeOK
    <3>3. CASE h # g
      BY <2>4, <2>5, <3>3 DEF TypeOK
    <3> QED BY <3>2, <3>3
  <2> QED BY <2>3, <2>4, <2>5, <2>7, <2>8 DEF TypeOK, registry
<1>4. CASE CopyOut(g)
  <2>1. item[g] \in Seq(Messages) /\ Len(item[g]) = 1 /\ for[g] \in Names
    BY <1>4 DEF CopyOut, TypeOK
  <2>2. item[g][1] \in Messages
    BY <2>1
  <2>3. inbox' \in [Guests -> SUBSET [msg : Messages, via : Names]]
    BY <1>4, <2>1, <2>2 DEF CopyOut, TypeOK
  <2> QED BY <1>4, <2>3 DEF CopyOut, TypeOK, Return, registry
<1>5. CASE CopyFails(g)
  BY <1>5 DEF CopyFails, TypeOK, Return, registry
<1> QED BY <1>1, <1>2, <1>3, <1>4, <1>5

LEMMA TypeStep == TypeOK /\ [Next]_vars => TypeOK'
<1> SUFFICES ASSUME TypeOK, [Next]_vars PROVE TypeOK'
  OBVIOUS
<1>1. ASSUME NEW g \in Guests, GuestStep(g) PROVE TypeOK'
  BY <1>1, RegistryTypeStep, LookUpTypeStep, QueueTypeStep DEF GuestStep
<1>2. CASE UNCHANGED vars
  BY <1>2 DEF vars, registry, call, history, TypeOK
<1> QED BY <1>1, <1>2 DEF Next

\* The registry, the queues and the calls keep their types; the ids stay uint32.
THEOREM TypeCorrect == Spec => []TypeOK
<1>1. Init => TypeOK
  <2>1. 0 \in IDs /\ 0 \in 0..MaxQueues
    BY ModulusAssumption, BoundsAssumption DEF ModulusAssumption, BoundsAssumption, IDs
  <2> QED BY <2>1 DEF Init, TypeOK
<1> QED BY <1>1, TypeStep, PTL DEF Spec

-------------------------------------------------------------------------------
(* Numbers and ids                                                               *)

\* The numbers of queues that have been created never leave the registry.
LEMMA NumberedStep ==
  ASSUME TypeOK, Numbered, [Next]_vars
  PROVE  Numbered'
<1>1. created \in Nat /\ created \in 0..MaxQueues /\ created <= MaxQueues
  BY BoundsAssumption DEF TypeOK, BoundsAssumption
<1>2. ASSUME NEW g \in Guests, NEW n \in Names, RegisterNew(g, n) PROVE Numbered'
  <2>1. /\ created' = created + 1 /\ created + 1 \in Queues /\ NextID \in IDs
        /\ gen' = NextID /\ m' = [m EXCEPT ![NextID] = created + 1]
        /\ nameOf' = [nameOf EXCEPT ![created + 1] = n]
        /\ UNCHANGED <<queue, busy, ptr, newest>>
    BY <1>1, <1>2, NextIDType, BoundsAssumption
    DEF RegisterNew, Queues, call, history, BoundsAssumption
  <2>2. gen' = created' % Modulus
    BY <1>1, <2>1, ModNext, ModulusAssumption DEF Numbered, NextID, ModulusAssumption
  <2>3. \A i \in IDs : m'[i] \in 0..created'
    BY <1>1, <2>1 DEF Numbered, TypeOK
  <2>4. \A q \in 1..created' : nameOf'[q] \in Names
    BY <1>1, <2>1 DEF Numbered, TypeOK
  <2>5. \A q \in Queues : q > created' => queue'[q] = <<>> /\ newest'[q] = 0
    BY <1>1, <2>1 DEF Numbered, Queues
  <2>6. \A h \in Guests : busy'[h] \in {"enque", "deque"} => ptr'[h] \in 1..created'
    BY <1>1, <2>1 DEF Numbered
  <2> QED BY <2>2, <2>3, <2>4, <2>5, <2>6 DEF Numbered
<1>3. ASSUME NEW g \in Guests, NEW n \in Names,
             RegisterAgain(g, n) \/ Resolve(g, n)
      PROVE  Numbered'
  <2>1. UNCHANGED <<registry, queue, call, history>>
    BY <1>3 DEF RegisterAgain, Resolve
  <2> QED BY <2>1 DEF Numbered, registry, call, history
<1>4. ASSUME NEW g \in Guests, NEW n \in Names, Remove(g, n) PROVE Numbered'
  <2>1. UNCHANGED <<gen, created, nameOf, queue, call, history>>
    BY <1>4 DEF Remove
  <2>2. m' = m \/ m' = [m EXCEPT ![tokens[g][n]] = NoQueue]
    BY <1>4 DEF Remove, Delete
  <2>3. \A i \in IDs : m'[i] = m[i] \/ m'[i] = NoQueue
    BY <2>2 DEF TypeOK
  <2>4. \A i \in IDs : m'[i] \in 0..created
    BY <1>1, <2>3 DEF Numbered, NoQueue
  <2> QED BY <2>1, <2>4 DEF Numbered, call, history
<1>5. ASSUME NEW g \in Guests, NEW n \in Names, NEW what \in {"enque", "deque"},
             LookUp(g, n, what)
      PROVE  Numbered'
  <2>1. UNCHANGED <<registry, queue, tokens, history>> /\ tokens[g][n] \in IDs
    BY <1>5 DEF LookUp, TypeOK
  <2>2. m[tokens[g][n]] # NoQueue => m[tokens[g][n]] \in 1..created
    BY <1>1, <2>1 DEF Numbered, NoQueue
  <2>3. \/ UNCHANGED <<busy, ptr>>
        \/ /\ m[tokens[g][n]] # NoQueue
           /\ busy' = [busy EXCEPT ![g] = what]
           /\ ptr' = [ptr EXCEPT ![g] = m[tokens[g][n]]]
    BY <1>5 DEF LookUp, call, Get
  <2>4. \A h \in Guests : busy'[h] \in {"enque", "deque"} => ptr'[h] \in 1..created
    BY <2>2, <2>3 DEF Numbered, TypeOK
  <2> QED BY <2>1, <2>4 DEF Numbered, registry, history
<1>6. ASSUME NEW g \in Guests, Enque(g) PROVE Numbered'
  <2>1. /\ UNCHANGED <<registry, newest>> /\ ptr[g] \in 1..created
        /\ busy' = [busy EXCEPT ![g] = "idle"] /\ ptr' = [ptr EXCEPT ![g] = NoQueue]
    BY <1>6 DEF Enque, Return, Numbered
  <2>2. \A q \in Queues : q # ptr[g] => queue'[q] = queue[q]
    BY <1>6 DEF Enque, TypeOK
  <2>3. \A q \in Queues : q > created => queue'[q] = <<>> /\ newest'[q] = 0
    BY <1>1, <2>1, <2>2 DEF Numbered, Queues
  <2>4. \A h \in Guests : busy'[h] \in {"enque", "deque"} => ptr'[h] \in 1..created
    BY <2>1 DEF Numbered, TypeOK
  <2> QED BY <2>1, <2>3, <2>4 DEF Numbered, registry
<1>7. ASSUME NEW g \in Guests, Deque(g) PROVE Numbered'
  <2>1. /\ UNCHANGED <<registry, ptr>> /\ ptr[g] \in 1..created
        /\ busy' = [busy EXCEPT ![g] = "copy"]
    BY <1>7 DEF Deque, Numbered
  <2>2. \A q \in Queues : q # ptr[g] => queue'[q] = queue[q] /\ newest'[q] = newest[q]
    BY <1>7 DEF Deque, TypeOK
  <2>3. \A q \in Queues : q > created => queue'[q] = <<>> /\ newest'[q] = 0
    BY <1>1, <2>1, <2>2 DEF Numbered, Queues
  <2>4. \A h \in Guests : busy'[h] \in {"enque", "deque"} => ptr'[h] \in 1..created
    BY <2>1 DEF Numbered, TypeOK
  <2> QED BY <2>1, <2>3, <2>4 DEF Numbered, registry
<1>8. ASSUME NEW g \in Guests, DequeEmpty(g) \/ CopyOut(g) \/ CopyFails(g) PROVE Numbered'
  <2>1. /\ UNCHANGED <<registry, queue, newest>>
        /\ busy' = [busy EXCEPT ![g] = "idle"] /\ ptr' = [ptr EXCEPT ![g] = NoQueue]
    BY <1>8 DEF DequeEmpty, CopyOut, CopyFails, Return, history
  <2>2. \A h \in Guests : busy'[h] \in {"enque", "deque"} => ptr'[h] \in 1..created
    BY <2>1 DEF Numbered, TypeOK
  <2> QED BY <2>1, <2>2 DEF Numbered, registry
<1>9. CASE UNCHANGED vars
  BY <1>9 DEF vars, registry, call, history, Numbered
<1> QED BY <1>2, <1>3, <1>4, <1>5, <1>6, <1>7, <1>8, <1>9 DEF Next, GuestStep

\* Queues whose ids have not come round have different ids.
LEMMA IdOfQueue ==
  ASSUME NEW p \in 1..Modulus, NEW q \in 1..Modulus, p % Modulus = q % Modulus
  PROVE  p = q
<1>1. Modulus \in Nat \ {0} /\ p \in Nat /\ q \in Nat /\ p - q < Modulus /\ q - p < Modulus
  BY ModulusAssumption DEF ModulusAssumption
<1>2. ~(p < q)
  <2> SUFFICES ASSUME p < q PROVE FALSE
    OBVIOUS
  <2>1. q - p >= Modulus
    BY <1>1, ModGap
  <2> QED BY <1>1, <2>1
<1>3. ~(q < p)
  <2> SUFFICES ASSUME q < p PROVE FALSE
    OBVIOUS
  <2>1. p - q >= Modulus
    BY <1>1, ModGap
  <2> QED BY <1>1, <2>1
<1> QED BY <1>1, <1>2, <1>3
\* A step that does not create a queue and, if it changes the tokens, writes down
\* the id that a name has, keeps what is said of the tokens.
TokensTrue ==
  \A g \in Guests, n \in Names :
    tokens[g][n] # NoID => \E q \in 1..created : tokens[g][n] = q % Modulus /\ nameOf[q] = n

LEMMA TokenOfName ==
  ASSUME TypeOK, Numbered, Identified, Unwrapped, NEW n \in Names, nameToID[n] # NoID
  PROVE  \E q \in 1..created : nameToID[n] = q % Modulus /\ nameOf[q] = n
<1>1. nameToID[n] \in IDs /\ m[nameToID[n]] # NoQueue /\ nameOf[m[nameToID[n]]] = n
  BY DEF TypeOK, Identified
<1>2. nameToID[n] = m[nameToID[n]] % Modulus
  BY <1>1 DEF Identified
<1>3. created \in Nat
  BY DEF TypeOK
<1>4. m[nameToID[n]] \in 1..created
  BY <1>1, <1>3 DEF Numbered, NoQueue
<1> QED BY <1>1, <1>2, <1>4

LEMMA GiveTokenTrue ==
  ASSUME TypeOK, TokensTrue, UNCHANGED <<created, nameOf>>,
         NEW g \in Guests, NEW n \in Names, NEW i \in IDs, GiveToken(g, n, i),
         \E q \in 1..created : i = q % Modulus /\ nameOf[q] = n
  PROVE  TokensTrue'
<1>1. CASE tokens' = [tokens EXCEPT ![g][n] = i]
  <2> SUFFICES ASSUME NEW h \in Guests, NEW o \in Names, tokens'[h][o] # NoID
               PROVE  \E q \in 1..created : tokens'[h][o] = q % Modulus /\ nameOf[q] = o
    BY DEF TokensTrue
  <2>1. tokens'[h][o] = IF h = g /\ o = n THEN i ELSE tokens[h][o]
    BY <1>1 DEF TypeOK
  <2> QED BY <2>1 DEF TokensTrue
<1>2. CASE UNCHANGED tokens
  BY <1>2 DEF TokensTrue
<1> QED BY <1>1, <1>2 DEF GiveToken

\* The id of a new queue is that of no queue there was: it is the number after.
LEMMA NewID ==
  ASSUME TypeOK, Numbered, Identified, created + 1 <= Modulus
  PROVE  /\ NextID = (created + 1) % Modulus
         /\ NextID \in IDs
         /\ \A q \in 1..created : q % Modulus # NextID
         /\ m[NextID] = NoQueue
<1>1. created \in Nat /\ Modulus \in Nat \ {0}
  BY ModulusAssumption DEF TypeOK, ModulusAssumption
<1>2. NextID = (created + 1) % Modulus
  BY <1>1, ModNext DEF Numbered, NextID
<1>3. NextID \in IDs
  BY NextIDType
<1>4. ASSUME NEW q \in 1..created, q % Modulus = NextID PROVE FALSE
  <2>1. q \in 1..Modulus /\ created + 1 \in 1..Modulus
    BY <1>1
  <2>2. q = created + 1
    BY <1>2, <1>4, <2>1, IdOfQueue
  <2> QED BY <1>1, <2>2
<1>5. ASSUME m[NextID] # NoQueue PROVE FALSE
  <2>1. m[NextID] \in 1..created
    BY <1>1, <1>3, <1>5 DEF Numbered, NoQueue
  <2>2. Unwrapped
    BY <1>1 DEF Unwrapped
  <2>3. NextID = m[NextID] % Modulus
    BY <1>3, <1>5, <2>2 DEF Identified
  <2> QED BY <1>4, <2>1, <2>3
<1> QED BY <1>2, <1>3, <1>4, <1>5

\* Registering a new name keeps ids and names apart.
LEMMA IdentifiedNew ==
  ASSUME TypeOK, Numbered, Identified, NEW g \in Guests, NEW n \in Names, RegisterNew(g, n)
  PROVE  Identified'
<1> SUFFICES ASSUME Unwrapped'
             PROVE  /\ (\A i \in IDs : m[i] # NoQueue =>
                          i = m[i] % Modulus /\ nameToID[nameOf[m[i]]] = i)'
                    /\ (\A o \in Names : nameToID[o] # NoID => /\ m[nameToID[o]] # NoQueue
                                                               /\ nameOf[m[nameToID[o]]] = o)'
                    /\ TokensTrue'
  BY DEF Identified, TokensTrue
<1>1. /\ created' = created + 1 /\ created \in Nat /\ created + 1 \in Queues
      /\ created + 1 <= Modulus /\ Modulus \in Nat
  BY ModulusAssumption, BoundsAssumption
  DEF RegisterNew, TypeOK, Unwrapped, Queues, ModulusAssumption, BoundsAssumption
<1>2. Unwrapped
  BY <1>1 DEF Unwrapped
<1>3. /\ NextID = (created + 1) % Modulus /\ NextID \in IDs /\ m[NextID] = NoQueue
      /\ \A q \in 1..created : q % Modulus # NextID
  BY <1>1, NewID
<1>4. /\ nameToID[n] = NoID
      /\ nameToID' = [nameToID EXCEPT ![n] = NextID]
      /\ m' = [m EXCEPT ![NextID] = created + 1]
      /\ nameOf' = [nameOf EXCEPT ![created + 1] = n]
      /\ GiveToken(g, n, NextID)
  BY DEF RegisterNew
<1>5. nameOf'[created + 1] = n /\ \A q \in 1..created : nameOf'[q] = nameOf[q]
  BY <1>1, <1>4 DEF TypeOK, Queues
<1>6. ASSUME NEW i \in IDs, m'[i] # NoQueue
      PROVE  i = m'[i] % Modulus /\ nameToID'[nameOf'[m'[i]]] = i
  <2>1. CASE i = NextID
    <3>1. m'[i] = created + 1
      BY <1>4, <2>1 DEF TypeOK
    <3> QED BY <1>3, <1>4, <1>5, <2>1, <3>1 DEF TypeOK
  <2>2. CASE i # NextID
    <3>1. m'[i] = m[i] /\ m[i] # NoQueue
      BY <1>4, <1>6, <2>2 DEF TypeOK
    <3>2. m[i] \in 1..created /\ nameOf[m[i]] \in Names
      BY <1>1, <3>1 DEF Numbered, NoQueue
    <3>3. i = m[i] % Modulus /\ nameToID[nameOf[m[i]]] = i
      BY <1>2, <3>1 DEF Identified
    <3>4. nameOf[m[i]] # n
      BY <1>4, <3>3, NoIDAssumption DEF NoIDAssumption
    <3> QED BY <1>4, <1>5, <3>1, <3>2, <3>3, <3>4 DEF TypeOK
  <2> QED BY <2>1, <2>2
<1>7. ASSUME NEW o \in Names, nameToID'[o] # NoID
      PROVE  m'[nameToID'[o]] # NoQueue /\ nameOf'[m'[nameToID'[o]]] = o
  <2>1. CASE o = n
    <3>1. nameToID'[o] = NextID /\ m'[NextID] = created + 1
      BY <1>3, <1>4, <2>1 DEF TypeOK
    <3> QED BY <1>1, <1>5, <2>1, <3>1 DEF NoQueue
  <2>2. CASE o # n
    <3>1. nameToID'[o] = nameToID[o] /\ nameToID[o] \in IDs
      BY <1>4, <1>7, <2>2 DEF TypeOK
    <3>2. m[nameToID[o]] # NoQueue /\ nameOf[m[nameToID[o]]] = o
      BY <1>2, <1>7, <3>1 DEF Identified
    <3>3. m[nameToID[o]] \in 1..created
      BY <1>1, <3>1, <3>2 DEF Numbered, NoQueue
    <3>4. m'[nameToID[o]] = m[nameToID[o]]
      BY <1>3, <1>4, <3>1, <3>2 DEF TypeOK
    <3> QED BY <1>5, <3>1, <3>2, <3>3, <3>4
  <2> QED BY <2>1, <2>2
<1>8. TokensTrue'
  <2> SUFFICES ASSUME NEW h \in Guests, NEW o \in Names, tokens'[h][o] # NoID
               PROVE  \E q \in 1..(created + 1) : tokens'[h][o] = q % Modulus /\ nameOf'[q] = o
    BY <1>1 DEF TokensTrue
  <2>1. \/ h = g /\ o = n /\ tokens'[h][o] = NextID
        \/ tokens'[h][o] = tokens[h][o]
    BY <1>4 DEF GiveToken, TypeOK
  <2>2. CASE h = g /\ o = n /\ tokens'[h][o] = NextID
    <3>1. created + 1 \in 1..(created + 1)
      BY <1>1
    <3> QED BY <1>3, <1>5, <2>2, <3>1
  <2>3. CASE tokens'[h][o] = tokens[h][o]
    <3>1. PICK q \in 1..created : tokens[h][o] = q % Modulus /\ nameOf[q] = o
      BY <1>2, <2>3 DEF Identified
    <3>2. q \in 1..(created + 1)
      BY <1>1
    <3> QED BY <1>5, <2>3, <3>1, <3>2
  <2> QED BY <2>1, <2>2, <2>3
<1> QED BY <1>6, <1>7, <1>8

LEMMA IdentifiedStep ==
  ASSUME TypeOK, Numbered, Identified, [Next]_vars
  PROVE  Identified'
<1>1. ASSUME NEW g \in Guests, NEW n \in Names, RegisterNew(g, n) PROVE Identified'
  BY <1>1, IdentifiedNew
<1>2. ASSUME NEW g \in Guests, NEW n \in Names, RegisterAgain(g, n) \/ Resolve(g, n)
      PROVE  Identified'
  <2>1. UNCHANGED registry
    BY <1>2 DEF RegisterAgain, Resolve
  <2> SUFFICES ASSUME Unwrapped PROVE TokensTrue'
    BY <2>1 DEF Identified, TokensTrue, Unwrapped, registry
  <2>2. TokensTrue
    BY DEF TokensTrue, Identified
  <2>3. CASE nameToID[n] # NoID /\ GiveToken(g, n, nameToID[n])
    <3>1. nameToID[n] \in IDs
      BY <2>3 DEF TypeOK
    <3> QED BY <2>1, <2>2, <2>3, <3>1, TokenOfName, GiveTokenTrue DEF registry
  <2>4. CASE UNCHANGED tokens
    BY <2>1, <2>2, <2>4 DEF TokensTrue, registry
  <2> QED BY <1>2, <2>3, <2>4 DEF RegisterAgain, Resolve
<1>3. ASSUME NEW g \in Guests, NEW n \in Names, Remove(g, n) PROVE Identified'
  <2>1. UNCHANGED <<created, nameOf, tokens>>
    BY <1>3 DEF Remove
  <2> SUFFICES ASSUME Unwrapped
               PROVE  /\ (\A i \in IDs : m[i] # NoQueue =>
                            i = m[i] % Modulus /\ nameToID[nameOf[m[i]]] = i)'
                      /\ (\A o \in Names : nameToID[o] # NoID => /\ m[nameToID[o]] # NoQueue
                                                                 /\ nameOf[m[nameToID[o]]] = o)'
    BY <2>1 DEF Identified, Unwrapped
  <2>2. CASE UNCHANGED <<nameToID, m>>
    BY <2>1, <2>2 DEF Identified
  <2>3. CASE Get(tokens[g][n]) # NoQueue /\ Delete(tokens[g][n])
    <3> DEFINE i == tokens[g][n]
               o == nameOf[m[i]]
    <3>1. i \in IDs /\ m[i] # NoQueue
      BY <1>3, <2>3 DEF Remove, TypeOK, Get
    <3>2. o \in Names /\ nameToID[o] = i
      <4>1. created \in Nat
        BY DEF TypeOK
      <4>2. m[i] \in 1..created
        BY <3>1, <4>1 DEF Numbered, NoQueue
      <4>3. nameToID[o] = i
        BY <3>1 DEF Identified
      <4> QED BY <4>2, <4>3 DEF Numbered
    <3>3. /\ nameToID' = [nameToID EXCEPT ![o] = NoID]
          /\ m' = [m EXCEPT ![i] = NoQueue]
      BY <2>3 DEF Delete
    <3> HIDE DEF i, o
    <3>4. ASSUME NEW j \in IDs, m'[j] # NoQueue
          PROVE  j = m'[j] % Modulus /\ nameToID'[nameOf'[m'[j]]] = j
      <4>1. j # i /\ m'[j] = m[j]
        BY <3>1, <3>3, <3>4 DEF TypeOK
      <4>2. m[j] \in 1..created /\ nameOf[m[j]] \in Names
        BY <3>4, <4>1 DEF Numbered, NoQueue, TypeOK
      <4>3. j = m[j] % Modulus /\ nameToID[nameOf[m[j]]] = j
        BY <3>4, <4>1 DEF Identified
      <4> QED BY <2>1, <3>2, <3>3, <4>1, <4>2, <4>3 DEF TypeOK
    <3>5. ASSUME NEW p \in Names, nameToID'[p] # NoID
          PROVE  m'[nameToID'[p]] # NoQueue /\ nameOf'[m'[nameToID'[p]]] = p
      <4>1. p # o /\ nameToID'[p] = nameToID[p] /\ nameToID[p] \in IDs
        BY <3>2, <3>3, <3>5 DEF TypeOK
      <4>2. m[nameToID[p]] # NoQueue /\ nameOf[m[nameToID[p]]] = p
        BY <3>5, <4>1 DEF Identified
      <4>3. nameToID[p] # i
        BY <4>1, <4>2 DEF o
      <4> QED BY <2>1, <3>3, <4>1, <4>2, <4>3 DEF TypeOK
    <3> QED BY <3>4, <3>5
  <2> QED BY <1>3, <2>2, <2>3 DEF Remove
<1>4. ASSUME UNCHANGED <<registry, tokens>> PROVE Identified'
  BY <1>4 DEF Identified, Unwrapped, registry
<1> QED BY <1>1, <1>2, <1>3, <1>4 DEF Next, GuestStep, LookUp, Enque, DequeEmpty, Deque,
           CopyOut, CopyFails, vars
\* A token that finds a queue finds one of the name it was handed out for.
LEMMA TokenNames ==
  ASSUME TypeOK, Numbered, Identified, Unwrapped, NEW g \in Guests, NEW n \in Names,
         tokens[g][n] # NoID, m[tokens[g][n]] # NoQueue
  PROVE  nameOf[m[tokens[g][n]]] = n
<1>1. PICK q \in 1..created : tokens[g][n] = q % Modulus /\ nameOf[q] = n
  BY DEF Identified
<1>2. tokens[g][n] \in IDs /\ created \in Nat /\ Modulus \in Nat
  BY ModulusAssumption DEF TypeOK, ModulusAssumption
<1>3. m[tokens[g][n]] \in 1..created
  BY <1>2 DEF Numbered, NoQueue
<1>4. tokens[g][n] = m[tokens[g][n]] % Modulus
  BY <1>2 DEF Identified
<1>5. q \in 1..Modulus /\ m[tokens[g][n]] \in 1..Modulus
  BY <1>2, <1>3 DEF Unwrapped
<1>6. m[tokens[g][n]] = q
  BY <1>1, <1>4, <1>5, IdOfQueue
<1> QED BY <1>1, <1>6

-------------------------------------------------------------------------------
(* Messages and their order                                                      *)

LEMMA AddressedStep ==
  ASSUME TypeOK, Numbered, Identified, Addressed, [Next]_vars
  PROVE  Addressed'
<1>1. /\ created \in Nat
      /\ \A q \in 1..created : q \in Queues
      /\ Unwrapped' => Unwrapped
  <2>1. created \in 0..MaxQueues /\ MaxQueues \in Nat /\ Modulus \in Nat
    BY BoundsAssumption, ModulusAssumption
    DEF TypeOK, BoundsAssumption, ModulusAssumption
  <2>2. created' = created \/ created' = created + 1
    <3>1. ASSUME NEW g \in Guests, NEW n \in Names, RegisterNew(g, n)
          PROVE  created' = created + 1
      BY <3>1 DEF RegisterNew
    <3>2. ASSUME NEW g \in Guests, NEW n \in Names,
                 RegisterAgain(g, n) \/ Resolve(g, n) \/ Remove(g, n)
                   \/ (\E what \in {"enque", "deque"} : LookUp(g, n, what))
          PROVE  created' = created
      BY <3>2 DEF RegisterAgain, Resolve, Remove, LookUp, registry
    <3>3. ASSUME NEW g \in Guests,
                 Enque(g) \/ DequeEmpty(g) \/ Deque(g) \/ CopyOut(g) \/ CopyFails(g)
          PROVE  created' = created
      BY <3>3 DEF Enque, DequeEmpty, Deque, CopyOut, CopyFails, registry
    <3>4. CASE UNCHANGED vars
      BY <3>4 DEF vars, registry
    <3> QED BY <3>1, <3>2, <3>3, <3>4 DEF Next, GuestStep
  <2> QED BY <2>1, <2>2 DEF Unwrapped, Queues
<1> SUFFICES ASSUME Unwrapped
             PROVE  /\ (\A q \in 1..created : \A i \in 1..Len(queue[q]) :
                          queue[q][i].to = nameOf[q])'
                    /\ (\A g \in Guests : busy[g] \in {"enque", "deque"} =>
                          nameOf[ptr[g]] = for[g])'
                    /\ (\A g \in Guests : busy[g] = "copy" => item[g][1].to = for[g])'
                    /\ (\A g \in Guests : \A d \in inbox[g] : d.msg.to = d.via)'
  BY <1>1 DEF Addressed
<1> DEFINE QOK == \A q \in 1..created : \A i \in 1..Len(queue[q]) : queue[q][i].to = nameOf[q]
           POK == \A g \in Guests : busy[g] \in {"enque", "deque"} => nameOf[ptr[g]] = for[g]
           IOK == \A g \in Guests : busy[g] = "copy" => item[g][1].to = for[g]
           DOK == \A g \in Guests : \A d \in inbox[g] : d.msg.to = d.via
<1>2. QOK /\ POK /\ IOK /\ DOK
  BY DEF Addressed
<1>3. ASSUME NEW g \in Guests, NEW n \in Names, RegisterNew(g, n)
      PROVE  QOK' /\ POK' /\ IOK' /\ DOK'
  <2>1. /\ created' = created + 1 /\ created + 1 \in Queues
        /\ nameOf' = [nameOf EXCEPT ![created + 1] = n]
        /\ UNCHANGED <<queue, call, history>>
    BY <1>1, <1>3, BoundsAssumption DEF RegisterNew, Queues, BoundsAssumption
  <2>2. \A q \in 1..created : nameOf'[q] = nameOf[q]
    BY <1>1, <2>1 DEF TypeOK, Queues
  <2>3. queue[created + 1] = <<>>
    BY <1>1, <2>1 DEF Numbered
  <2>4. QOK'
    <3> SUFFICES ASSUME NEW q \in 1..(created + 1), NEW i \in 1..Len(queue[q])
                 PROVE  queue[q][i].to = nameOf'[q]
      BY <2>1
    <3>1. q # created + 1
      BY <2>3
    <3>2. q \in 1..created
      BY <1>1, <3>1
    <3> QED BY <1>2, <2>2, <3>2
  <2>5. POK'
    BY <1>2, <2>1, <2>2 DEF Numbered, call
  <2> QED BY <1>2, <2>1, <2>4, <2>5 DEF call, history
<1>4. ASSUME NEW g \in Guests, NEW n \in Names,
             RegisterAgain(g, n) \/ Resolve(g, n) \/ Remove(g, n)
      PROVE  QOK' /\ POK' /\ IOK' /\ DOK'
  <2>1. UNCHANGED <<created, nameOf, queue, call, history>>
    BY <1>4 DEF RegisterAgain, Resolve, Remove, registry
  <2> QED BY <1>2, <2>1 DEF call, history
<1>5. ASSUME NEW g \in Guests, NEW n \in Names, NEW what \in {"enque", "deque"},
             LookUp(g, n, what)
      PROVE  QOK' /\ POK' /\ IOK' /\ DOK'
  <2>1. UNCHANGED <<registry, queue, tokens, history, item>> /\ tokens[g][n] # NoID
    BY <1>5 DEF LookUp, call
  <2>2. CASE m[tokens[g][n]] # NoQueue
    <3>1. nameOf[m[tokens[g][n]]] = n
      BY <2>1, <2>2, TokenNames
    <3>2. /\ busy' = [busy EXCEPT ![g] = what]
          /\ ptr' = [ptr EXCEPT ![g] = m[tokens[g][n]]]
          /\ for' = [for EXCEPT ![g] = n]
      BY <1>5, <2>2 DEF LookUp, Get
    <3>3. POK'
      BY <1>2, <2>1, <3>1, <3>2 DEF TypeOK, registry
    <3>4. IOK'
      BY <1>2, <2>1, <3>2 DEF TypeOK
    <3> QED BY <1>2, <2>1, <3>3, <3>4 DEF registry, history
  <2>3. CASE m[tokens[g][n]] = NoQueue
    BY <1>2, <1>5, <2>1, <2>3 DEF LookUp, Get, call, registry, history
  <2> QED BY <2>2, <2>3
<1>6. ASSUME NEW g \in Guests, Enque(g) PROVE QOK' /\ POK' /\ IOK' /\ DOK'
  <2> DEFINE v == [num |-> sent + 1, to |-> for[g]]
  <2>1. /\ UNCHANGED <<registry, item, inbox>>
        /\ queue' = [queue EXCEPT ![ptr[g]] = Append(@, v)]
        /\ busy' = [busy EXCEPT ![g] = "idle"]
        /\ ptr' = [ptr EXCEPT ![g] = NoQueue]
        /\ for' = [for EXCEPT ![g] = NoID]
    BY <1>6 DEF Enque, Return, Appended
  <2>2. ptr[g] \in 1..created /\ ptr[g] \in Queues /\ v.to = nameOf[ptr[g]]
    BY <1>2, <1>6 DEF Enque, Numbered, TypeOK
  <2>3. v \in Messages
    BY <1>6 DEF Enque, TypeOK, Messages
  <2>4. QOK'
    <3> SUFFICES ASSUME NEW q \in 1..created, NEW i \in 1..Len(queue'[q])
                 PROVE  queue'[q][i].to = nameOf[q]
      BY <2>1 DEF registry
    <3>1. q \in Queues /\ queue[q] \in Seq(Messages)
      BY <1>1 DEF TypeOK
    <3>2. CASE q = ptr[g]
      <4>1. queue'[q] = Append(queue[q], v)
        BY <2>1, <2>2, <3>2 DEF TypeOK
      <4> HIDE DEF v
      <4>2. CASE i = Len(queue[q]) + 1
        BY <2>2, <2>3, <3>1, <3>2, <4>1, <4>2
      <4>3. CASE i \in 1..Len(queue[q])
        BY <1>2, <2>3, <3>1, <4>1, <4>3
      <4>4. i \in 1..(Len(queue[q]) + 1)
        BY <2>3, <3>1, <4>1
      <4> QED BY <3>1, <4>2, <4>3, <4>4
    <3>3. CASE q # ptr[g]
      <4>1. queue'[q] = queue[q]
        BY <2>1, <3>1, <3>3 DEF TypeOK
      <4> QED BY <1>2, <4>1
    <3> QED BY <3>2, <3>3
  <2>5. POK'
    BY <1>2, <2>1 DEF TypeOK, registry
  <2>6. IOK'
    BY <1>2, <2>1 DEF TypeOK
  <2> QED BY <1>2, <2>1, <2>4, <2>5, <2>6
<1>7. ASSUME NEW g \in Guests, Deque(g) PROVE QOK' /\ POK' /\ IOK' /\ DOK'
  <2>1. /\ UNCHANGED <<registry, ptr, for, inbox>>
        /\ queue' = [queue EXCEPT ![ptr[g]] = Tail(@)]
        /\ item' = [item EXCEPT ![g] = <<Head(queue[ptr[g]])>>]
        /\ busy' = [busy EXCEPT ![g] = "copy"]
    BY <1>7 DEF Deque, Rest
  <2>2. /\ ptr[g] \in 1..created /\ ptr[g] \in Queues /\ nameOf[ptr[g]] = for[g]
        /\ queue[ptr[g]] \in Seq(Messages) /\ queue[ptr[g]] # <<>>
    BY <1>2, <1>7 DEF Deque, Numbered, TypeOK
  <2>3. 1 \in 1..Len(queue[ptr[g]]) /\ Head(queue[ptr[g]]) = queue[ptr[g]][1]
    BY <2>2
  <2>4. QOK'
    <3> SUFFICES ASSUME NEW q \in 1..created, NEW i \in 1..Len(queue'[q])
                 PROVE  queue'[q][i].to = nameOf[q]
      BY <2>1 DEF registry
    <3>1. q \in Queues /\ queue[q] \in Seq(Messages)
      BY <1>1 DEF TypeOK
    <3>2. CASE q = ptr[g]
      <4>1. queue'[q] = Tail(queue[q])
        BY <2>1, <2>2, <3>2 DEF TypeOK
      <4>2. i + 1 \in 1..Len(queue[q]) /\ queue'[q][i] = queue[q][i + 1]
        BY <2>2, <3>1, <3>2, <4>1
      <4> QED BY <1>2, <4>2
    <3>3. CASE q # ptr[g]
      <4>1. queue'[q] = queue[q]
        BY <2>1, <3>1, <3>3 DEF TypeOK
      <4> QED BY <1>2, <4>1
    <3> QED BY <3>2, <3>3
  <2>5. POK'
    BY <1>2, <2>1 DEF TypeOK, registry
  <2>6. IOK'
    <3> SUFFICES ASSUME NEW h \in Guests, busy'[h] = "copy"
                 PROVE  item'[h][1].to = for[h]
      BY <2>1
    <3>1. CASE h = g
      <4>1. item'[h] = <<Head(queue[ptr[g]])>>
        BY <2>1, <3>1 DEF TypeOK
      <4> QED BY <1>2, <2>2, <2>3, <3>1, <4>1
    <3>2. CASE h # g
      <4>1. item'[h] = item[h] /\ busy[h] = "copy"
        BY <2>1, <3>2 DEF TypeOK
      <4> QED BY <1>2, <4>1
    <3> QED BY <3>1, <3>2
  <2> QED BY <1>2, <2>1, <2>4, <2>5, <2>6
<1>8. ASSUME NEW g \in Guests, DequeEmpty(g) \/ CopyOut(g) \/ CopyFails(g)
      PROVE  QOK' /\ POK' /\ IOK' /\ DOK'
  <2>1. /\ UNCHANGED <<registry, queue>>
        /\ busy' = [busy EXCEPT ![g] = "idle"]
        /\ ptr' = [ptr EXCEPT ![g] = NoQueue]
        /\ for' = [for EXCEPT ![g] = NoID]
    BY <1>8 DEF DequeEmpty, CopyOut, CopyFails, Return
  <2>2. UNCHANGED item \/ item' = [item EXCEPT ![g] = <<>>]
    BY <1>8 DEF DequeEmpty, CopyOut, CopyFails
  <2>3. QOK' /\ POK'
    BY <1>2, <2>1 DEF TypeOK, registry
  <2>4. IOK'
    BY <1>2, <2>1, <2>2 DEF TypeOK
  <2>5. DOK'
    <3>1. CASE CopyOut(g)
      <4>1. /\ inbox' = [inbox EXCEPT ![g] = @ \cup {[msg |-> item[g][1], via |-> for[g]]}]
            /\ item[g][1].to = for[g]
        BY <1>2, <3>1 DEF CopyOut
      <4> QED BY <1>2, <4>1 DEF TypeOK
    <3>2. CASE UNCHANGED inbox
      BY <1>2, <3>2
    <3> QED BY <1>8, <3>1, <3>2 DEF DequeEmpty, CopyFails, history
  <2> QED BY <2>3, <2>4, <2>5
<1>9. CASE UNCHANGED vars
  BY <1>2, <1>9 DEF vars, registry, call, history
<1> QED BY <1>3, <1>4, <1>5, <1>6, <1>7, <1>8, <1>9 DEF Next, GuestStep
\* The messages of a queue are in order, newer than any taken, no newer than the
\* last that was sent.
Ordered(nums, q, last) ==
  /\ \A i, j \in 1..Len(nums) : i < j => nums[i].num < nums[j].num
  /\ \A i \in 1..Len(nums) : newest[q] < nums[i].num /\ nums[i].num <= last
  /\ newest[q] <= last

AllOrdered == \A q \in Queues : Ordered(queue[q], q, sent)

\* Putting a newer message at the end keeps a queue in order.
LEMMA AppendOrdered ==
  ASSUME NEW s \in Seq(Messages), NEW q, NEW x \in Nat, newest[q] \in Nat,
         Ordered(s, q, x), NEW v \in Messages, v.num = x + 1
  PROVE  Ordered(Append(s, v), q, x + 1)
<1> DEFINE t == Append(s, v)
<1>1. Len(t) = Len(s) + 1 /\ t[Len(s) + 1] = v /\ \A i \in 1..Len(s) : t[i] = s[i]
  OBVIOUS
<1>2. Len(s) \in Nat /\ \A i \in 1..Len(s) : s[i] \in Messages
  OBVIOUS
<1>3. \A i \in 1..Len(s) : s[i].num \in Nat
  BY <1>2 DEF Messages
<1> HIDE DEF t
<1>4. \A i \in 1..Len(t) : i \in 1..Len(s) \/ i = Len(s) + 1
  BY <1>1, <1>2
<1>5. ASSUME NEW i \in 1..Len(t), NEW j \in 1..Len(t), i < j PROVE t[i].num < t[j].num
  <2>1. i \in 1..Len(s) /\ t[i] = s[i]
    BY <1>1, <1>2, <1>5
  <2>2. CASE j \in 1..Len(s)
    BY <1>1, <1>5, <2>1, <2>2 DEF Ordered
  <2>3. CASE j = Len(s) + 1
    <3>1. t[j].num = x + 1 /\ s[i].num <= x /\ s[i].num \in Nat
      BY <1>1, <1>3, <2>1, <2>3 DEF Ordered
    <3> QED BY <2>1, <3>1
  <2> QED BY <1>4, <2>2, <2>3
<1>6. ASSUME NEW i \in 1..Len(t) PROVE newest[q] < t[i].num /\ t[i].num <= x + 1
  <2>1. CASE i \in 1..Len(s)
    <3>1. t[i].num = s[i].num /\ s[i].num \in Nat /\ newest[q] < s[i].num /\ s[i].num <= x
      BY <1>1, <1>3, <2>1 DEF Ordered
    <3> QED BY <3>1
  <2>2. CASE i = Len(s) + 1
    <3>1. t[i].num = x + 1 /\ newest[q] <= x
      BY <1>1, <2>2 DEF Ordered
    <3> QED BY <3>1
  <2> QED BY <1>4, <2>1, <2>2
<1>7. newest[q] <= x + 1
  BY DEF Ordered
<1> QED BY <1>5, <1>6, <1>7 DEF Ordered, t

LEMMA OrderStep ==
  ASSUME TypeOK, Numbered, AllOrdered, [Next]_vars
  PROVE  AllOrdered'
<1>1. sent \in Nat /\ newest \in [Queues -> Nat] /\ queue \in [Queues -> Seq(Messages)]
  BY DEF TypeOK
<1>2. ASSUME NEW g \in Guests, Enque(g) PROVE AllOrdered'
  <2> DEFINE v == [num |-> sent + 1, to |-> for[g]]
  <2>1. /\ queue' = [queue EXCEPT ![ptr[g]] = Append(@, v)]
        /\ sent' = sent + 1 /\ UNCHANGED newest
    BY <1>2 DEF Enque, Appended
  <2>2. v \in Messages /\ v.num = sent + 1
    BY <1>1, <1>2 DEF Enque, TypeOK, Messages
  <2> HIDE DEF v
  <2> SUFFICES ASSUME NEW q \in Queues PROVE Ordered(queue'[q], q, sent + 1)
    BY <2>1 DEF AllOrdered, Ordered
  <2>3. Ordered(queue[q], q, sent) /\ queue[q] \in Seq(Messages) /\ newest[q] \in Nat
    BY <1>1 DEF AllOrdered
  <2>4. CASE q = ptr[g]
    <3>1. queue'[q] = Append(queue[q], v)
      BY <1>1, <2>1, <2>4
    <3> QED BY <1>1, <2>2, <2>3, <3>1, AppendOrdered
  <2>5. CASE q # ptr[g]
    <3>1. queue'[q] = queue[q]
      BY <1>1, <2>1, <2>5
    <3>2. \A i \in 1..Len(queue[q]) : queue[q][i] \in Messages
      BY <2>3
    <3>3. \A i \in 1..Len(queue[q]) : queue[q][i].num \in Nat /\ queue[q][i].num <= sent
      BY <2>3, <3>2 DEF Messages, Ordered
    <3>4. \A i \in 1..Len(queue[q]) : queue[q][i].num <= sent + 1
      BY <1>1, <3>3
    <3>5. newest[q] <= sent + 1
      BY <1>1, <2>3 DEF Ordered
    <3> QED BY <2>3, <3>1, <3>4, <3>5 DEF Ordered
  <2> QED BY <2>4, <2>5
<1>3. ASSUME NEW g \in Guests, Deque(g) PROVE AllOrdered'
  <2>1. /\ queue' = [queue EXCEPT ![ptr[g]] = Tail(@)]
        /\ newest' = [newest EXCEPT ![ptr[g]] = Head(queue[ptr[g]]).num]
        /\ queue[ptr[g]] # <<>> /\ UNCHANGED sent
    BY <1>3 DEF Deque, Rest
  <2> SUFFICES ASSUME NEW q \in Queues PROVE Ordered(queue[q], q, sent)'
    BY <2>1 DEF AllOrdered
  <2>2. Ordered(queue[q], q, sent) /\ queue[q] \in Seq(Messages)
    BY <1>1 DEF AllOrdered
  <2>3. CASE q = ptr[g]
    <3>1. queue'[q] = Tail(queue[q]) /\ newest'[q] = Head(queue[q]).num /\ queue[q] # <<>>
      BY <1>1, <2>1, <2>3
    <3>2. /\ 1 \in 1..Len(queue[q]) /\ Head(queue[q]) = queue[q][1]
          /\ Len(Tail(queue[q])) = Len(queue[q]) - 1 /\ Len(queue[q]) \in Nat
          /\ \A i \in 1..Len(Tail(queue[q])) : Tail(queue[q])[i] = queue[q][i + 1]
      BY <2>2, <3>1
    <3>3. \A i \in 1..Len(Tail(queue[q])) : i + 1 \in 1..Len(queue[q]) /\ 1 < i + 1
      BY <3>2
    <3>4. ASSUME NEW i \in 1..Len(Tail(queue[q])), NEW j \in 1..Len(Tail(queue[q])), i < j
          PROVE  Tail(queue[q])[i].num < Tail(queue[q])[j].num
      <4>1. i + 1 < j + 1
        BY <3>2, <3>4
      <4> QED BY <2>2, <3>2, <3>3, <4>1 DEF Ordered
    <3>5. ASSUME NEW i \in 1..Len(Tail(queue[q]))
          PROVE  newest'[q] < Tail(queue[q])[i].num /\ Tail(queue[q])[i].num <= sent
      BY <2>2, <3>1, <3>2, <3>3 DEF Ordered
    <3>6. newest'[q] <= sent
      BY <2>2, <3>1, <3>2 DEF Ordered
    <3> QED BY <2>1, <3>1, <3>4, <3>5, <3>6 DEF Ordered
  <2>4. CASE q # ptr[g]
    <3>1. queue'[q] = queue[q] /\ newest'[q] = newest[q]
      BY <1>1, <2>1, <2>4
    <3> QED BY <2>1, <2>2, <3>1 DEF Ordered
  <2> QED BY <2>3, <2>4
<1>4. ASSUME UNCHANGED <<queue, newest, sent>> PROVE AllOrdered'
  BY <1>4 DEF AllOrdered, Ordered
<1> QED BY <1>2, <1>3, <1>4 DEF Next, GuestStep, RegisterAgain, RegisterNew, Resolve, Remove,
           LookUp, DequeEmpty, CopyOut, CopyFails, vars, history

-------------------------------------------------------------------------------
(* Where the messages are                                                        *)

\* Sequence s holds message number x.
Holds(s, x) == \E i \in 1..Len(s) : s[i].num = x

\* Place z is one of those of message x, by what the queues, the calls, the guests and
\* the copies that failed have.
IsPlace(z, x, queues, items, inboxes, losses) ==
  \/ \E q \in Queues : z = <<"queue", q>> /\ Holds(queues[q], x)
  \/ \E g \in Guests : z = <<"copy", g>> /\ Holds(items[g], x)
  \/ \E g \in Guests : z = <<"inbox", g>> /\ \E d \in inboxes[g] : d.msg.num = x
  \/ \E y \in losses : z = <<"lost", y>> /\ y.num = x

LEMMA PlacesAre ==
  \A x, z : /\ z \in Places(x) <=> IsPlace(z, x, queue, item, inbox, lost)
            /\ z \in Places(x)' <=> IsPlace(z, x, queue', item', inbox', lost')
BY DEF Places, IsPlace, Holds

\* Every message sent has one place, those to come have none, and only a guest that is
\* about to copy has a message on its way.
OnePlace ==
  /\ \A x \in 1..sent : \E z : Places(x) = {z}
  /\ \A x \in Nat : x > sent => Places(x) = {}
  /\ \A g \in Guests : busy[g] # "copy" => item[g] = <<>>

LEMMA HoldsAppend ==
  ASSUME NEW s \in Seq(Messages), NEW v \in Messages, NEW x
  PROVE  Holds(Append(s, v), x) <=> Holds(s, x) \/ v.num = x
<1> DEFINE t == Append(s, v)
<1>1. /\ Len(t) = Len(s) + 1 /\ t[Len(s) + 1] = v /\ Len(s) \in Nat
      /\ \A i \in 1..Len(s) : t[i] = s[i]
  OBVIOUS
<1> HIDE DEF t
<1>2. \A i \in 1..Len(t) : i \in 1..Len(s) \/ i = Len(s) + 1
  BY <1>1
<1>3. Len(s) + 1 \in 1..Len(t) /\ \A i \in 1..Len(s) : i \in 1..Len(t)
  BY <1>1
<1>4. Holds(t, x) <=> Holds(s, x) \/ v.num = x
  BY <1>1, <1>2, <1>3 DEF Holds
<1> QED BY <1>4 DEF t

\* What is taken from the front of a queue in order is not in the rest of it.
LEMMA HoldsTail ==
  ASSUME NEW s \in Seq(Messages), s # <<>>, NEW x,
         \A i, j \in 1..Len(s) : i < j => s[i].num < s[j].num
  PROVE  /\ Holds(Tail(s), x) <=> Holds(s, x) /\ x # Head(s).num
         /\ Holds(s, Head(s).num)
<1>1. /\ 1 \in 1..Len(s) /\ Head(s) = s[1] /\ Len(s) \in Nat
      /\ Len(Tail(s)) = Len(s) - 1
      /\ \A i \in 1..Len(Tail(s)) : Tail(s)[i] = s[i + 1]
  OBVIOUS
<1>2. \A i \in 1..Len(s) : s[i].num \in Nat
  <2>1. \A i \in 1..Len(s) : s[i] \in Messages
    OBVIOUS
  <2> QED BY <2>1 DEF Messages
<1>3. \A i \in 1..Len(Tail(s)) : i + 1 \in 1..Len(s) /\ 1 < i + 1
  BY <1>1
<1>4. \A i \in 1..Len(s) : i = 1 \/ (i - 1 \in 1..Len(Tail(s)) /\ s[i] = Tail(s)[i - 1])
  BY <1>1
<1>5. ASSUME NEW i \in 1..Len(Tail(s)), Tail(s)[i].num = x
      PROVE  Holds(s, x) /\ x # Head(s).num
  <2>1. s[i + 1].num = x /\ s[1].num < s[i + 1].num
    BY <1>1, <1>3, <1>5
  <2>2. s[1].num \in Nat /\ s[i + 1].num \in Nat
    BY <1>1, <1>2, <1>3
  <2>3. x # s[1].num
    BY <2>1, <2>2
  <2> QED BY <1>1, <1>3, <2>1, <2>3 DEF Holds
<1>6. ASSUME NEW i \in 1..Len(s), s[i].num = x, x # Head(s).num
      PROVE  Holds(Tail(s), x)
  <2>1. i # 1
    BY <1>1, <1>6
  <2> QED BY <1>4, <1>6, <2>1 DEF Holds
<1>7. Holds(s, Head(s).num)
  BY <1>1 DEF Holds
<1> QED BY <1>5, <1>6, <1>7 DEF Holds

LEMMA HoldsFew ==
  /\ \A x : ~Holds(<<>>, x)
  /\ \A v, x : Holds(<<v>>, x) <=> v.num = x
BY DEF Holds

\* A message that moves from its place to another is in one place, if all others stay.
LEMMA Moved ==
  ASSUME OnePlace, sent' = sent, NEW n \in Nat, NEW from, NEW to,
         from \in Places(n), to \in Places(n)', from \notin Places(n)',
         \A x, z : x # n \/ (z # from /\ z # to) => (z \in Places(x) <=> z \in Places(x)'),
         sent \in Nat
  PROVE  /\ \A x \in 1..sent' : \E z : Places(x)' = {z}
         /\ \A x \in Nat : x > sent' => Places(x)' = {}
<1>1. n \in 1..sent \/ n = 0 \/ n > sent
  OBVIOUS
<1>2. \A x : x # n => Places(x)' = Places(x)
  <2> SUFFICES ASSUME NEW x, x # n, NEW z PROVE z \in Places(x)' <=> z \in Places(x)
    BY DEF Places
  <2> QED OBVIOUS
<1>3. ~(n > sent)
  BY DEF OnePlace
<1>4. n \in 1..sent => Places(n)' = {to}
  <2> SUFFICES ASSUME n \in 1..sent, NEW z PROVE z \in Places(n)' <=> z = to
    BY DEF Places
  <2>1. PICK p : Places(n) = {p}
    BY DEF OnePlace
  <2>2. p = from
    BY <2>1
  <2> QED BY <2>1, <2>2
<1>5. ASSUME NEW x \in 1..sent PROVE \E z : Places(x)' = {z}
  BY <1>2, <1>4 DEF OnePlace
<1>6. ASSUME NEW x \in Nat, x > sent PROVE Places(x)' = {}
  BY <1>2, <1>3, <1>6 DEF OnePlace
<1> QED BY <1>5, <1>6

LEMMA PlaceStep ==
  ASSUME TypeOK, AllOrdered, OnePlace, [Next]_vars
  PROVE  OnePlace'
<1>0. /\ queue \in [Queues -> Seq(Messages)] /\ item \in [Guests -> Seq(Messages)]
      /\ inbox \in [Guests -> SUBSET [msg : Messages, via : Names]]
      /\ busy \in [Guests -> {"idle", "enque", "deque", "copy"}] /\ sent \in Nat
      /\ \A g \in Guests : /\ busy[g] # "copy" => item[g] = <<>>
                           /\ busy[g] \in {"enque", "deque"} => ptr[g] \in Queues
                           /\ busy[g] = "copy" => Len(item[g]) = 1
  BY DEF TypeOK, OnePlace
<1>1. ASSUME UNCHANGED <<queue, item, inbox, lost, sent>>,
             \A g \in Guests : busy[g] = "copy" => busy'[g] = "copy"
      PROVE  OnePlace'
  <2>1. \A x : Places(x)' = Places(x)
    BY <1>1 DEF Places
  <2> QED BY <1>1, <2>1 DEF OnePlace
<1>2. ASSUME NEW g \in Guests, Enque(g) PROVE OnePlace'
  <2> PICK n \in Nat : n = sent + 1
    BY <1>0
  <2> PICK p : p = <<"queue", ptr[g]>>
    OBVIOUS
  <2> DEFINE v == [num |-> n, to |-> for[g]]
  <2>1. /\ queue' = [queue EXCEPT ![ptr[g]] = Append(@, v)]
        /\ busy[g] = "enque" /\ busy' = [busy EXCEPT ![g] = "idle"]
        /\ sent' = n /\ UNCHANGED <<item, inbox, lost>> /\ ptr[g] \in Queues
    BY <1>0, <1>2 DEF Enque, Return, Appended
  <2>2. v \in Messages /\ v.num = n
    BY <1>0, <1>2 DEF Enque, TypeOK, Messages
  <2> HIDE DEF v
  <2>3. \A q \in Queues : \A x : Holds(queue'[q], x) <=> Holds(queue[q], x) \/ (q = ptr[g] /\ x = n)
    <3> SUFFICES ASSUME NEW q \in Queues, NEW x
                 PROVE  Holds(queue'[q], x) <=> Holds(queue[q], x) \/ (q = ptr[g] /\ x = n)
      OBVIOUS
    <3>1. CASE q = ptr[g]
      <4>1. queue'[q] = Append(queue[q], v) /\ queue[q] \in Seq(Messages)
        BY <1>0, <2>1, <3>1
      <4> QED BY <2>2, <3>1, <4>1, HoldsAppend
    <3>2. CASE q # ptr[g]
      <4>1. queue'[q] = queue[q]
        BY <1>0, <2>1, <3>2
      <4> QED BY <3>2, <4>1
    <3> QED BY <3>1, <3>2
  <2>4. \A x, z : z \in Places(x)' <=> z \in Places(x) \/ (z = p /\ x = n)
    BY <2>1, <2>3, PlacesAre DEF IsPlace
  <2>5. ASSUME NEW x \in Nat, x # n PROVE Places(x)' = Places(x)
    <3> SUFFICES ASSUME NEW z PROVE z \in Places(x)' <=> z \in Places(x)
      BY DEF Places
    <3> QED BY <2>4, <2>5
  <2>6. Places(n)' = {p}
    <3>1. Places(n) = {}
      <4>1. n > sent
        BY <1>0
      <4> QED BY <4>1 DEF OnePlace
    <3> SUFFICES ASSUME NEW z PROVE z \in Places(n)' <=> z = p
      BY DEF Places
    <3> QED BY <2>4, <3>1
  <2>7. ASSUME NEW x \in 1..sent' PROVE \E z : Places(x)' = {z}
    <3>1. CASE x = n
      BY <2>6, <3>1
    <3>2. CASE x # n
      <4>1. x \in 1..sent /\ x \in Nat
        BY <1>0, <2>1, <3>2
      <4> QED BY <2>5, <3>2, <4>1 DEF OnePlace
    <3> QED BY <3>1, <3>2
  <2>8. ASSUME NEW x \in Nat, x > sent' PROVE Places(x)' = {}
    <3>1. x > sent /\ x # n
      BY <1>0, <2>1, <2>8
    <3> QED BY <2>5, <3>1 DEF OnePlace
  <2>9. \A h \in Guests : busy'[h] # "copy" => item'[h] = <<>>
    BY <1>0, <2>1
  <2> QED BY <2>7, <2>8, <2>9 DEF OnePlace
<1>3. ASSUME NEW g \in Guests, Deque(g) PROVE OnePlace'
  <2> DEFINE s == queue[ptr[g]]
             to == <<"copy", g>>
  <2>1. /\ queue' = [queue EXCEPT ![ptr[g]] = Tail(@)]
        /\ item' = [item EXCEPT ![g] = <<Head(s)>>]
        /\ busy[g] = "deque" /\ busy' = [busy EXCEPT ![g] = "copy"]
        /\ UNCHANGED <<sent, inbox, lost>> /\ ptr[g] \in Queues /\ s # <<>>
    BY <1>0, <1>3 DEF Deque, Rest
  <2>2. s \in Seq(Messages) /\ \A i, j \in 1..Len(s) : i < j => s[i].num < s[j].num
    BY <1>0, <2>1 DEF AllOrdered, Ordered
  <2>3. Head(s).num \in Nat
    <3>1. Head(s) \in Messages
      BY <2>1, <2>2
    <3> QED BY <3>1 DEF Messages
  <2> PICK n \in Nat : n = Head(s).num
    BY <2>3
  <2> PICK from : from = <<"queue", ptr[g]>>
    OBVIOUS
  <2>4. \A q \in Queues : \A x : Holds(queue'[q], x) <=> Holds(queue[q], x) /\ ~(q = ptr[g] /\ x = n)
    <3> SUFFICES ASSUME NEW q \in Queues, NEW x
                 PROVE  Holds(queue'[q], x) <=> Holds(queue[q], x) /\ ~(q = ptr[g] /\ x = n)
      OBVIOUS
    <3>1. CASE q = ptr[g]
      <4>1. queue'[q] = Tail(s) /\ queue[q] = s
        BY <1>0, <2>1, <3>1
      <4>2. Head(s).num = n
        OBVIOUS
      <4> HIDE DEF s
      <4>3. Holds(Tail(s), x) <=> Holds(s, x) /\ x # n
        BY <2>1, <2>2, <4>2, HoldsTail
      <4> QED BY <3>1, <4>1, <4>3
    <3>2. CASE q # ptr[g]
      <4>1. queue'[q] = queue[q]
        BY <1>0, <2>1, <3>2
      <4> QED BY <3>2, <4>1
    <3> QED BY <3>1, <3>2
  <2>5. Holds(s, n)
    BY <2>1, <2>2, HoldsTail
  <2>6. \A h \in Guests : \A x : Holds(item'[h], x) <=> Holds(item[h], x) \/ (h = g /\ x = n)
    <3> SUFFICES ASSUME NEW h \in Guests, NEW x
                 PROVE  Holds(item'[h], x) <=> Holds(item[h], x) \/ (h = g /\ x = n)
      OBVIOUS
    <3>1. CASE h = g
      <4>1. item'[h] = <<Head(s)>> /\ item[h] = <<>>
        BY <1>0, <2>1, <3>1
      <4> QED BY <3>1, <4>1, HoldsFew
    <3>2. CASE h # g
      <4>1. item'[h] = item[h]
        BY <1>0, <2>1, <3>2
      <4> QED BY <3>2, <4>1
    <3> QED BY <3>1, <3>2
  <2> HIDE DEF s
  <2>7. \A x, z : z \in Places(x)' <=>
                    (z \in Places(x) /\ ~(x = n /\ z = from)) \/ (x = n /\ z = to)
    <3> SUFFICES ASSUME NEW x, NEW z
                 PROVE  IsPlace(z, x, queue', item', inbox, lost)
                        <=> \/ IsPlace(z, x, queue, item, inbox, lost)
                               /\ ~(x = n /\ z = from)
                            \/ x = n /\ z = to
      BY <2>1, PlacesAre
    <3>1. (\E q \in Queues : z = <<"queue", q>> /\ Holds(queue'[q], x))
          <=> /\ \E q \in Queues : z = <<"queue", q>> /\ Holds(queue[q], x)
              /\ ~(x = n /\ z = from)
      BY <2>4
    <3>2. (\E h \in Guests : z = <<"copy", h>> /\ Holds(item'[h], x))
          <=> \/ \E h \in Guests : z = <<"copy", h>> /\ Holds(item[h], x)
              \/ x = n /\ z = to
      BY <2>6
    <3>3. \A h : z = <<"copy", h>> \/ z = <<"inbox", h>> \/ z = <<"lost", h>> => z # from
      OBVIOUS
    <3> HIDE DEF to
    <3> QED BY <3>1, <3>2, <3>3 DEF IsPlace
  <2>8. from \in Places(n)
    BY <2>1, <2>5, PlacesAre DEF IsPlace, s
  <2>9. from # to
    OBVIOUS
  <2>10. /\ \A x \in 1..sent' : \E z : Places(x)' = {z}
         /\ \A x \in Nat : x > sent' => Places(x)' = {}
    <3>1. to \in Places(n)' /\ from \notin Places(n)'
      BY <2>7, <2>9
    <3>2. \A x, z : x # n \/ (z # from /\ z # to) => (z \in Places(x) <=> z \in Places(x)')
      BY <2>7
    <3> QED BY <1>0, <2>1, <2>8, <3>1, <3>2, Moved
  <2>11. \A h \in Guests : busy'[h] # "copy" => item'[h] = <<>>
    BY <1>0, <2>1
  <2> QED BY <2>10, <2>11 DEF OnePlace
<1>4. ASSUME NEW g \in Guests, CopyOut(g) \/ CopyFails(g) PROVE OnePlace'
  <2> DEFINE from == <<"copy", g>>
  <2> PICK y : y = item[g][1]
    OBVIOUS
  <2>1. /\ item' = [item EXCEPT ![g] = <<>>]
        /\ busy[g] = "copy" /\ busy' = [busy EXCEPT ![g] = "idle"]
        /\ UNCHANGED <<sent, queue>>
    BY <1>4 DEF CopyOut, CopyFails, Return
  <2>2. item[g] = <<y>> /\ y \in Messages
    BY <1>0, <2>1
  <2> PICK n \in Nat : n = y.num
    BY <2>2 DEF Messages
  <2>4. Holds(item[g], n)
    BY <2>2, HoldsFew
  <2>5. \A h \in Guests : \A x : Holds(item'[h], x) <=> Holds(item[h], x) /\ ~(h = g /\ x = n)
    <3> SUFFICES ASSUME NEW h \in Guests, NEW x
                 PROVE  Holds(item'[h], x) <=> Holds(item[h], x) /\ ~(h = g /\ x = n)
      OBVIOUS
    <3>1. CASE h = g
      <4>1. item'[h] = <<>> /\ item[h] = <<y>>
        BY <1>0, <2>1, <2>2, <3>1
      <4> QED BY <3>1, <4>1, HoldsFew
    <3>2. CASE h # g
      <4>1. item'[h] = item[h]
        BY <1>0, <2>1, <3>2
      <4> QED BY <3>2, <4>1
    <3> QED BY <3>1, <3>2
  <2>6. from \in Places(n)
    BY <2>4, PlacesAre DEF IsPlace
  <2>7. ASSUME NEW to, to # from,
               \A x, z : z \in Places(x)' <=>
                           (z \in Places(x) /\ ~(x = n /\ z = from)) \/ (x = n /\ z = to)
        PROVE  OnePlace'
    <3> HIDE DEF from
    <3>1. to \in Places(n)' /\ from \notin Places(n)'
      BY <2>7
    <3>2. ASSUME NEW x, NEW z, x # n \/ (z # from /\ z # to)
          PROVE  z \in Places(x) <=> z \in Places(x)'
      BY <2>7, <3>2
    <3>3. /\ \A x \in 1..sent' : \E z : Places(x)' = {z}
          /\ \A x \in Nat : x > sent' => Places(x)' = {}
      BY <1>0, <2>1, <2>6, <3>1, <3>2, Moved
    <3>4. \A h \in Guests : busy'[h] # "copy" => item'[h] = <<>>
      BY <1>0, <2>1
    <3> QED BY <3>3, <3>4 DEF OnePlace
  <2>8. \A x, z : (\E h \in Guests : z = <<"copy", h>> /\ Holds(item'[h], x))
                   <=> /\ \E h \in Guests : z = <<"copy", h>> /\ Holds(item[h], x)
                       /\ ~(x = n /\ z = from)
    BY <2>5
  <2>9. CASE CopyOut(g)
    <3> DEFINE to == <<"inbox", g>>
               d == [msg |-> y, via |-> for[g]]
    <3>1. inbox' = [inbox EXCEPT ![g] = @ \cup {d}] /\ lost' = lost /\ d.msg.num = n
      BY <2>9 DEF CopyOut
    <3> HIDE DEF d
    <3>2. \A h \in Guests : \A x : (\E e \in inbox'[h] : e.msg.num = x)
                               <=> (\E e \in inbox[h] : e.msg.num = x) \/ (h = g /\ x = n)
      <4> SUFFICES ASSUME NEW h \in Guests, NEW x
                   PROVE  (\E e \in inbox'[h] : e.msg.num = x)
                          <=> (\E e \in inbox[h] : e.msg.num = x) \/ (h = g /\ x = n)
        OBVIOUS
      <4>1. CASE h = g
        <5>1. inbox'[h] = inbox[h] \cup {d}
          BY <1>0, <3>1, <4>1
        <5> QED BY <3>1, <4>1, <5>1
      <4>2. CASE h # g
        <5>1. inbox'[h] = inbox[h]
          BY <1>0, <3>1, <4>2
        <5> QED BY <4>2, <5>1
      <4> QED BY <4>1, <4>2
    <3>3. ASSUME NEW x, NEW z
          PROVE  z \in Places(x)' <=>
                   (z \in Places(x) /\ ~(x = n /\ z = from)) \/ (x = n /\ z = to)
      <4>1. (\E h \in Guests : z = <<"inbox", h>> /\ \E e \in inbox'[h] : e.msg.num = x)
            <=> \/ \E h \in Guests : z = <<"inbox", h>> /\ \E e \in inbox[h] : e.msg.num = x
                \/ x = n /\ z = to
        BY <3>2
      <4>2. \A h : z = <<"queue", h>> \/ z = <<"inbox", h>> \/ z = <<"lost", h>> => z # from
        OBVIOUS
      <4> HIDE DEF from, to
      <4>3. /\ z \in Places(x) <=> IsPlace(z, x, queue, item, inbox, lost)
            /\ z \in Places(x)' <=> IsPlace(z, x, queue, item', inbox', lost)
        BY <2>1, <3>1, PlacesAre
      <4>4. (\E h \in Guests : z = <<"copy", h>> /\ Holds(item'[h], x))
            <=> /\ \E h \in Guests : z = <<"copy", h>> /\ Holds(item[h], x)
                /\ ~(x = n /\ z = from)
        BY <2>8
      <4> QED BY <4>1, <4>2, <4>3, <4>4 DEF IsPlace
    <3>4. to # from
      OBVIOUS
    <3> HIDE DEF from, to
    <3> QED BY <2>7, <3>3, <3>4
  <2>10. CASE CopyFails(g)
    <3> DEFINE to == <<"lost", y>>
    <3>1. lost' = lost \cup {y} /\ inbox' = inbox
      BY <2>10 DEF CopyFails
    <3>2. ASSUME NEW x, NEW z
          PROVE  z \in Places(x)' <=>
                   (z \in Places(x) /\ ~(x = n /\ z = from)) \/ (x = n /\ z = to)
      <4>1. (\E l \in lost' : z = <<"lost", l>> /\ l.num = x)
            <=> \/ \E l \in lost : z = <<"lost", l>> /\ l.num = x
                \/ x = n /\ z = to
        BY <3>1
      <4>2. \A h : z = <<"queue", h>> \/ z = <<"inbox", h>> \/ z = <<"lost", h>> => z # from
        OBVIOUS
      <4> HIDE DEF from, to
      <4>3. /\ z \in Places(x) <=> IsPlace(z, x, queue, item, inbox, lost)
            /\ z \in Places(x)' <=> IsPlace(z, x, queue, item', inbox, lost')
        BY <2>1, <3>1, PlacesAre
      <4>4. (\E h \in Guests : z = <<"copy", h>> /\ Holds(item'[h], x))
            <=> /\ \E h \in Guests : z = <<"copy", h>> /\ Holds(item[h], x)
                /\ ~(x = n /\ z = from)
        BY <2>8
      <4> QED BY <4>1, <4>2, <4>3, <4>4 DEF IsPlace
    <3>3. to # from
      OBVIOUS
    <3> HIDE DEF from, to
    <3> QED BY <2>7, <3>2, <3>3
  <2> QED BY <1>4, <2>9, <2>10
<1>5. ASSUME NEW g \in Guests, NEW n \in Names,
             RegisterAgain(g, n) \/ RegisterNew(g, n) \/ Resolve(g, n) \/ Remove(g, n)
      PROVE  OnePlace'
  <2>1. UNCHANGED <<queue, call, history>>
    BY <1>5 DEF RegisterAgain, RegisterNew, Resolve, Remove
  <2> QED BY <1>1, <2>1 DEF call, history
<1>6. ASSUME NEW g \in Guests, NEW n \in Names, NEW what \in {"enque", "deque"},
             LookUp(g, n, what)
      PROVE  OnePlace'
  <2>1. UNCHANGED <<queue, item, history>> /\ busy[g] = "idle"
    BY <1>6 DEF LookUp, call, Idle
  <2>2. busy' = busy \/ busy' = [busy EXCEPT ![g] = what]
    BY <1>6 DEF LookUp, call
  <2>3. \A h \in Guests : busy[h] = "copy" => busy'[h] = "copy"
    BY <1>0, <2>1, <2>2
  <2> QED BY <1>1, <2>1, <2>3 DEF history
<1>7. ASSUME NEW g \in Guests, DequeEmpty(g) PROVE OnePlace'
  <2>1. /\ UNCHANGED <<queue, item, history>>
        /\ busy[g] = "deque" /\ busy' = [busy EXCEPT ![g] = "idle"]
    BY <1>7 DEF DequeEmpty, Return
  <2>2. \A h \in Guests : busy[h] = "copy" => busy'[h] = "copy"
    BY <1>0, <2>1
  <2> QED BY <1>1, <2>1, <2>2 DEF history
<1>8. CASE UNCHANGED vars
  BY <1>1, <1>8 DEF vars, call, history
<1>9. ASSUME NEW g \in Guests, GuestStep(g) PROVE OnePlace'
  BY <1>2, <1>3, <1>4, <1>5, <1>6, <1>7, <1>9 DEF GuestStep
<1> QED BY <1>8, <1>9 DEF Next

-------------------------------------------------------------------------------
(* Theorems                                                                      *)

LEMMA InitInv == Init => Numbered /\ Identified /\ Addressed /\ AllOrdered
<1> SUFFICES ASSUME Init PROVE Numbered /\ Identified /\ Addressed /\ AllOrdered
  OBVIOUS
<1>1. Modulus \in Nat \ {0} /\ 0 \in IDs /\ 0 % Modulus = 0
  BY ModulusAssumption DEF ModulusAssumption, IDs
<1>2. Numbered
  BY <1>1 DEF Init, Numbered, NoQueue
<1>3. Identified
  BY DEF Init, Identified, NoQueue
<1>4. Addressed
  BY DEF Init, Addressed, NoQueue
<1>5. AllOrdered
  BY DEF Init, AllOrdered, Ordered
<1> QED BY <1>2, <1>3, <1>4, <1>5

\* The inductive invariant behind the others: numbers, ids, addresses and order.
THEOREM QueueCorrect == Spec => []QueueInv
<1>1. AllOrdered /\ TypeOK => Recent
  <2> SUFFICES ASSUME AllOrdered, TypeOK, NEW q \in Queues
               PROVE  newest[q] <= sent /\ \A i \in 1..Len(queue[q]) : queue[q][i].num <= sent
    BY DEF Recent
  <2> QED BY DEF AllOrdered, Ordered
<1> QED BY <1>1, TypeCorrect, InitInv, NumberedStep, IdentifiedStep, AddressedStep,
           OrderStep, PTL DEF Spec, QueueInv

\* The two maps of the registry agree, whatever is registered and removed.
THEOREM MapsAgree == Spec => []RegistryAgrees
<1>1. QueueInv => RegistryAgrees
  BY DEF QueueInv, Identified, RegistryAgrees
<1> QED BY <1>1, QueueCorrect, PTL

\* A token never comes to mean a queue of another name.
THEOREM TokensTrueForever == Spec => []TokensStayTrue
<1>1. TypeOK /\ QueueInv => TokensStayTrue
  BY TokenNames DEF QueueInv, TokensStayTrue
<1> QED BY <1>1, TypeCorrect, QueueCorrect, PTL

\* What a guest receives under a name was sent under that name.
THEOREM DeliveredWhereSent == Spec => []NoCrossDelivery
<1>1. QueueInv => NoCrossDelivery
  BY DEF QueueInv, Addressed, NoCrossDelivery
<1> QED BY <1>1, QueueCorrect, PTL

\* Every queue is first in, first out, even while it is being removed.
THEOREM FirstInFirstOut == Spec => []InOrder
<1>1. AllOrdered /\ TypeOK => InOrder
  <2> SUFFICES ASSUME AllOrdered, TypeOK, NEW q \in 1..created
               PROVE  Ordered(queue[q], q, sent)
    BY DEF InOrder, Ordered
  <2>1. q \in Queues
    BY BoundsAssumption DEF TypeOK, Queues, BoundsAssumption
  <2> QED BY <2>1 DEF AllOrdered
<1> QED BY <1>1, TypeCorrect, InitInv, NumberedStep, OrderStep, PTL DEF Spec

\* Every message that was accepted is in one place, however many guests and queues there
\* are and however long it goes on: none is duplicated, and none vanishes in the host.
THEOREM EachInOnePlace == Spec => []InOnePlace
<1>1. Init => OnePlace
  <2> SUFFICES ASSUME Init PROVE OnePlace
    OBVIOUS
  <2>1. \A x : Places(x) = {}
    BY DEF Init, Places
  <2>2. \A x \in 1..sent : FALSE
    BY DEF Init
  <2> QED BY <2>1, <2>2 DEF Init, OnePlace
<1>2. OnePlace => InOnePlace
  BY FS_Singleton DEF OnePlace, InOnePlace
<1> QED BY <1>1, <1>2, TypeCorrect, InitInv, NumberedStep, OrderStep, PlaceStep, PTL DEF Spec
===============================================================================
