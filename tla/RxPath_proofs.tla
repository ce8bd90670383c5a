---------------------------- MODULE RxPath_proofs ----------------------------
(***************************************************************************)
(* Proofs about RxPath, for rings of any size, any threshold of the pool   *)
(* and any set of situations.                                              *)
(***************************************************************************)
EXTENDS RxPath, FiniteSetTheorems, SequenceTheorems, TLAPS

-----------------------------------------------------------------------------
(***************************************************************************)
(* The inductive invariant.                                                *)
(***************************************************************************)
Situation == [spare: Nat, data: Nat, mgmt: Nat, imps: Nat, noMem: Nat]

Types ==
  /\ desc \in [Channel -> [Place -> Filled \cup {"valid", "empty"}]]
  /\ dma \in [Channel -> Place] /\ head \in [Channel -> Place]
  /\ tail \in [Channel -> Place]
  /\ numFreeDesc \in [Channel -> 0 .. NumDesc]
  /\ numFragmentCurrentChain \in [Channel -> Nat]
  /\ intSrc \subseteq Channel
  /\ irqDepth \in 0 .. 1
  /\ rxQ \in Seq({"isr", "avail", "power"})
  /\ rx \in {"idle", "source", "clean", "pull", "refill", "register", "check",
             "enable", "control", "flag"}
  /\ rxFor \in {"none", "isr", "avail"}
  /\ todo \in {<<>>, <<"hi">>, <<"lo">>, Channels}
  /\ frameCount \in Nat /\ freeList \in Nat /\ replenishList \in Nat
  /\ upstairs \in Nat
  /\ rxIntDisabledByIMPS \in BOOLEAN /\ driverReloadInProcessing \in BOOLEAN
  /\ rxImps \in BOOLEAN /\ lowResource \in BOOLEAN /\ wpalCB \in BOOLEAN
  /\ freeRXPacket \in BOOLEAN /\ rxPalPacketUnavailable \in BOOLEAN
  /\ txAck \in BOOLEAN /\ setPowerStateEvent \in BOOLEAN
  /\ hostPowerState \in {"FULL", "IMPS"}
  /\ riva \in {"on", "collapsed"}
  /\ psm \in {"full", "entering", "asleep", "answered"}
  /\ mc \in {"idle", "call", "put", "replenish", "wait", "setFull", "crashed"}
  /\ setup \in Situation /\ left \in Situation /\ setup \in Setups

\* What the RX thread is doing, and for whom.
Handling ==
  /\ rx \in {"clean", "pull", "check", "refill", "register"} => todo # <<>>
  /\ rx \in {"source", "clean", "pull", "check", "enable", "control"} =>
       rxFor = "isr"
  /\ rx \in {"source", "clean", "enable", "control"} => ~rxImps
  /\ rx \in {"refill", "register"} => rxFor # "none"
  /\ rx = "idle" => rxFor = "none" /\ ~rxImps
  /\ rx = "flag" => rxFor = "avail" \/ (rxFor = "isr" /\ rxImps)
  /\ rxFor = "avail" => ~rxImps
  /\ rx = "register" => numFreeDesc[Head(todo)] > 0

\* Where the k-th descriptor from the tail t on is, and which one is at i.
At(t, k)   == IF t + k < NumDesc THEN t + k ELSE t + k - NumDesc
Dist(t, i) == IF i >= t THEN i - t ELSE i - t + NumDesc

\* From the tail on: free descriptors without a packet, n filled ones, up to
\* where the device is, and then the valid ones.
RingHas(ring, d, t, free, n) ==
  /\ free + n <= NumDesc
  /\ d = At(t, free + n)
  /\ \A i \in Place : /\ ring[i] = "empty" <=> Dist(t, i) < free
                      /\ ring[i] = "valid" <=> Dist(t, i) >= free + n

\* The head is on the oldest frame, or on the descriptor just taken.
Taken(c) == rx \in {"refill", "register"} /\ rxFor = "isr" /\ c = Head(todo)
Ring(c)  ==
  /\ \E n \in Nat : RingHas(desc[c], dma[c], tail[c], numFreeDesc[c], n)
  /\ At(tail[c], numFreeDesc[c]) = IF Taken(c) THEN Next1(head[c]) ELSE head[c]
Rings == \A c \in Channel : Ring(c)

\* IMPS is entered with the RX thread out of the handler that saw full power:
\* of the message of a request there is one, on its way through the threads.
Pending(i)  == i \in 1 .. Len(rxQ) /\ rxQ[i] = "power"
NonePending == \A i \in Nat : ~Pending(i)
OnePending  == \A i, j \in Nat : Pending(i) /\ Pending(j) => i = j
Power ==
  /\ hostPowerState = "FULL" => psm = "full" /\ mc \notin {"wait", "setFull"}
  /\ mc = "wait" => psm = "full"
  /\ mc = "setFull" => psm = "answered"
  /\ riva = "collapsed" <=> psm = "asleep"
  /\ mc # "wait" => ~txAck /\ NonePending
  /\ mc = "wait" =>
       /\ txAck => ~setPowerStateEvent
       /\ txAck \/ setPowerStateEvent => NonePending
       /\ OnePending
  /\ rxFor = "isr" /\ ~rxImps =>
       psm = "full" /\ ~txAck /\ (mc = "wait" => ~setPowerStateEvent)

\* A status that is set stands for a frame, for one just pulled or for one
\* pulled when the ring was last served; and a frame has its status set
\* unless its ring is being served.
Serving(c) == /\ rx \in {"pull", "refill", "register", "check"}
              /\ rxFor = "isr" /\ c = Head(todo)
Accounted(c) ==
  /\ c \in intSrc =>
       HasFrame(c) \/ (IF Serving(c) THEN frameCount > 0
                                     ELSE numFragmentCurrentChain[c] > 0)
  /\ Serving(c) =>
       frameCount > 0 \/ numFragmentCurrentChain[c] > 0 \/ HasFrame(c)
  /\ HasFrame(c) => c \in intSrc \/ (Serving(c) /\ rx # "check")
Service ==
  /\ hostPowerState = "FULL" /\ left.imps = 0 /\ ~rxImps /\ rx # "flag"
  /\ ~rxIntDisabledByIMPS /\ ~driverReloadInProcessing
  /\ \A c \in Channel : Accounted(c)
  /\ rx = "clean" => Head(todo) \in intSrc
  /\ rxFor = "isr" /\ todo = Channels => "lo" \in intSrc

\* Packets outside the rings, and the holes of the rings.
InCall == mc \in {"call", "put"}
Outside == freeList + replenishList + upstairs
           + (IF freeRXPacket THEN 1 ELSE 0) + (IF InCall THEN 1 ELSE 0)
Holes   == numFreeDesc["hi"] + numFreeDesc["lo"]
Mgmt(c) == {i \in Place : desc[c][i] = "mgmt"}
InRings == Cardinality(Mgmt("hi")) + Cardinality(Mgmt("lo"))
\* Management frames received and still to come
MgmtFrames == upstairs + (IF InCall THEN 1 ELSE 0) + left.mgmt + InRings

Returning == mc \in {"call", "put", "replenish", "crashed"}
Counted ==
  /\ Outside <= setup.spare + Holes
  /\ Ample => Outside = setup.spare + Holes
  /\ left.noMem <= setup.noMem
  /\ MgmtFrames <= setup.mgmt
  /\ Returning => setup.mgmt > 0

\* Without management frames the RX thread is alone with the pool.
Alone ==
  /\ freeRXPacket => rxPalPacketUnavailable /\ ~lowResource
  /\ lowResource =>
       rx = "register" \/ (wpalCB /\ rxPalPacketUnavailable /\ ~freeRXPacket)
  /\ rx = "register" => lowResource /\ ~rxPalPacketUnavailable /\ freeList = 0
  /\ rxPalPacketUnavailable => Holes > 0
  /\ rxFor = "avail" => todo # <<"hi">>
  /\ rxFor = "avail" /\ todo = <<"lo">> => numFreeDesc["hi"] = 0
  /\ rxFor = "avail" /\ rx = "flag" => ~freeRXPacket

\* With a packet for every management frame the pool is never exhausted.
Enough == /\ ~lowResource /\ ~rxPalPacketUnavailable /\ ~freeRXPacket
          /\ rx # "register" /\ mc \notin {"call", "crashed"}

RxIInv ==
  /\ Types /\ Handling /\ Rings /\ Power /\ InterruptAccounted
  /\ setup.imps = 0 => Service
  /\ Counted
  /\ setup.mgmt = 0 => Alone /\ RefillComes
  /\ setup.noMem = 0 /\ setup.mgmt <= setup.spare => Enough

-----------------------------------------------------------------------------
(***************************************************************************)
(* The ring.                                                               *)
(***************************************************************************)

\* Of the positions on a ring: what the remainders of the model are.
LEMMA Positions ==
  /\ \A i \in Place : /\ Next1(i) \in Place
                      /\ Next1(i) = IF i + 1 < NumDesc THEN i + 1 ELSE 0
  /\ \A t \in Place, k \in Place : (t + k) % NumDesc = At(t, k)
  /\ \A t \in Place, k \in 0 .. NumDesc : At(t, k) \in Place
<1>1. NumDesc \in Nat \ {0}
  BY SizeAssumption
<1>2. \A a \in 0 .. NumDesc - 1 : a % NumDesc = a
  BY <1>1
<1>3. \A a \in NumDesc .. 2 * NumDesc - 1 : a % NumDesc = a - NumDesc
  BY <1>1
<1>4. ASSUME NEW i \in Place
      PROVE  Next1(i) \in Place /\ Next1(i) = IF i + 1 < NumDesc THEN i + 1 ELSE 0
  BY <1>1, <1>2, <1>3 DEF Place, Next1
<1>5. ASSUME NEW t \in Place, NEW k \in Place
      PROVE  (t + k) % NumDesc = At(t, k)
  BY <1>1, <1>2, <1>3 DEF Place, At
<1>6. ASSUME NEW t \in Place, NEW k \in 0 .. NumDesc
      PROVE  At(t, k) \in Place
  BY <1>1 DEF Place, At
<1> QED BY <1>4, <1>5, <1>6

\* The three things that happen to a ring: a frame is received, taken, and a
\* packet fills the descriptor at the tail.
LEMMA RingReceives ==
  ASSUME NEW ring \in [Place -> Filled \cup {"valid", "empty"}],
         NEW d \in Place, NEW t \in Place, NEW free \in 0 .. NumDesc,
         NEW n \in Nat, NEW kind \in Filled,
         RingHas(ring, d, t, free, n), ring[d] = "valid"
  PROVE  RingHas([ring EXCEPT ![d] = kind], Next1(d), t, free, n + 1)
<1>1. NumDesc \in Nat \ {0}
  BY SizeAssumption
<1>2. Next1(d) = IF d + 1 < NumDesc THEN d + 1 ELSE 0
  BY Positions
<1>3. free + n <= NumDesc /\ d = At(t, free + n) /\ Dist(t, d) >= free + n
  BY DEF RingHas
<1>4. free + n < NumDesc /\ Dist(t, d) = free + n
  BY <1>1, <1>3 DEF At, Dist, Place
<1>5. Next1(d) = At(t, free + (n + 1))
  BY <1>1, <1>2, <1>3, <1>4 DEF At, Place
<1>6. \A i \in Place : Dist(t, i) = free + n <=> i = d
  BY <1>1, <1>3, <1>4 DEF At, Dist, Place
<1>7. ASSUME NEW i \in Place
      PROVE  /\ [ring EXCEPT ![d] = kind][i] = "empty" <=> Dist(t, i) < free
             /\ [ring EXCEPT ![d] = kind][i] = "valid" <=> Dist(t, i) >= free + (n + 1)
  <2>1. Dist(t, i) \in Nat
    BY <1>1 DEF Dist, Place
  <2>2. CASE i = d
    BY <2>2, <1>4, <1>1 DEF Filled
  <2>3. CASE i # d
    <3>1. [ring EXCEPT ![d] = kind][i] = ring[i]
      BY <2>3
    <3>2. Dist(t, i) # free + n
      BY <2>3, <1>6
    <3> QED BY <3>1, <3>2, <2>1, <1>1 DEF RingHas
  <2> QED BY <2>2, <2>3
<1> QED BY <1>1, <1>4, <1>5, <1>7 DEF RingHas

LEMMA RingTaken ==
  ASSUME NEW ring \in [Place -> Filled \cup {"valid", "empty"}],
         NEW d \in Place, NEW t \in Place, NEW free \in 0 .. NumDesc,
         NEW n \in Nat, NEW h \in Place, h = At(t, free),
         RingHas(ring, d, t, free, n), ring[h] \in Filled
  PROVE  /\ n > 0 /\ free < NumDesc
         /\ RingHas([ring EXCEPT ![h] = "empty"], d, t, free + 1, n - 1)
         /\ At(t, free + 1) = Next1(h)
<1>1. NumDesc \in Nat \ {0}
  BY SizeAssumption
<1>2. Next1(h) = IF h + 1 < NumDesc THEN h + 1 ELSE 0
  BY Positions
<1>3. /\ free + n <= NumDesc /\ d = At(t, free + n)
      /\ ~(Dist(t, h) < free) /\ ~(Dist(t, h) >= free + n)
  BY DEF RingHas, Filled
<1>4. free < NumDesc /\ Dist(t, h) = free /\ n > 0
  BY <1>1, <1>3 DEF At, Dist, Place
<1>5. At(t, free + 1) = Next1(h)
  BY <1>1, <1>2, <1>4 DEF At, Place
<1>6. \A i \in Place : Dist(t, i) = free <=> i = h
  BY <1>1, <1>3, <1>4 DEF At, Dist, Place
<1>7. ASSUME NEW i \in Place
      PROVE  /\ [ring EXCEPT ![h] = "empty"][i] = "empty" <=> Dist(t, i) < free + 1
             /\ [ring EXCEPT ![h] = "empty"][i] = "valid"
                  <=> Dist(t, i) >= (free + 1) + (n - 1)
  <2>1. Dist(t, i) \in Nat
    BY <1>1 DEF Dist, Place
  <2>2. CASE i = h
    BY <2>2, <1>4, <1>1
  <2>3. CASE i # h
    <3>1. [ring EXCEPT ![h] = "empty"][i] = ring[i]
      BY <2>3
    <3>2. Dist(t, i) # free
      BY <2>3, <1>6
    <3> QED BY <3>1, <3>2, <2>1, <1>1 DEF RingHas
  <2> QED BY <2>2, <2>3
<1> QED BY <1>1, <1>3, <1>4, <1>5, <1>7 DEF RingHas

LEMMA RingFilled ==
  ASSUME NEW ring \in [Place -> Filled \cup {"valid", "empty"}],
         NEW d \in Place, NEW t \in Place, NEW free \in 1 .. NumDesc,
         NEW n \in Nat, RingHas(ring, d, t, free, n)
  PROVE  /\ RingHas([ring EXCEPT ![t] = "valid"], d, Next1(t), free - 1, n)
         /\ At(Next1(t), free - 1) = At(t, free)
         /\ ring[t] = "empty"
<1>1. NumDesc \in Nat \ {0}
  BY SizeAssumption
<1>2. Next1(t) = IF t + 1 < NumDesc THEN t + 1 ELSE 0
  BY Positions
<1>3. /\ free + n <= NumDesc /\ d = At(t, free + n)
  BY DEF RingHas
<1>4. ring[t] = "empty"
  BY <1>1 DEF RingHas, Dist, Place
<1>5. /\ At(Next1(t), free - 1) = At(t, free)
      /\ At(Next1(t), free - 1 + n) = At(t, free + n)
  BY <1>1, <1>2, <1>3 DEF At, Place
<1>6. ASSUME NEW i \in Place
      PROVE  Dist(Next1(t), i) = IF i = t THEN NumDesc - 1 ELSE Dist(t, i) - 1
  BY <1>1, <1>2 DEF Dist, Place
<1>7. ASSUME NEW i \in Place
      PROVE  /\ [ring EXCEPT ![t] = "valid"][i] = "empty"
                  <=> Dist(Next1(t), i) < free - 1
             /\ [ring EXCEPT ![t] = "valid"][i] = "valid"
                  <=> Dist(Next1(t), i) >= free - 1 + n
  <2>1. Dist(t, i) \in Nat
    BY <1>1 DEF Dist, Place
  <2>2. CASE i = t
    BY <2>2, <1>1, <1>3, <1>6
  <2>3. CASE i # t
    <3>1. [ring EXCEPT ![t] = "valid"][i] = ring[i]
      BY <2>3
    <3>2. Dist(Next1(t), i) = Dist(t, i) - 1
      BY <2>3, <1>6
    <3> QED BY <3>1, <3>2, <2>1, <1>1 DEF RingHas
  <2> QED BY <2>2, <2>3
<1> QED BY <1>1, <1>3, <1>4, <1>5, <1>7 DEF RingHas

\* The holes are where numFreeDesc and the tail say, and as many.
LEMMA RingHoles ==
  ASSUME NEW ring \in [Place -> Filled \cup {"valid", "empty"}],
         NEW d \in Place, NEW t \in Place, NEW free \in 0 .. NumDesc,
         NEW n \in Nat, RingHas(ring, d, t, free, n)
  PROVE  /\ {i \in Place : ring[i] = "empty"}
              = {(t + k) % NumDesc : k \in 0 .. free - 1}
         /\ Cardinality({i \in Place : ring[i] = "empty"}) = free
<1> DEFINE holes == {i \in Place : ring[i] = "empty"}
<1>1. NumDesc \in Nat \ {0}
  BY SizeAssumption
<1>2. \A i \in Place : i \in holes <=> Dist(t, i) < free
  BY DEF RingHas
<1>3. \A k \in 0 .. free - 1 : /\ k \in Place /\ (t + k) % NumDesc = At(t, k)
                               /\ At(t, k) \in Place /\ Dist(t, At(t, k)) = k
  <2>1. \A k \in 0 .. free - 1 : k \in Place /\ k \in 0 .. NumDesc
    BY <1>1 DEF Place
  <2>2. \A k \in 0 .. free - 1 : Dist(t, At(t, k)) = k
    BY <1>1 DEF Place, Dist, At
  <2> QED BY <2>1, <2>2, Positions
<1>4. \A i \in Place : /\ Dist(t, i) \in Nat /\ Dist(t, i) < NumDesc
                       /\ At(t, Dist(t, i)) = i
  BY <1>1 DEF Place, Dist, At
<1>5. holes = {(t + k) % NumDesc : k \in 0 .. free - 1}
  <2>1. ASSUME NEW i \in holes
        PROVE  \E k \in 0 .. free - 1 : i = (t + k) % NumDesc
    <3>1. Dist(t, i) \in 0 .. free - 1
      BY <1>2, <1>4
    <3> QED BY <3>1, <1>3, <1>4
  <2>2. ASSUME NEW k \in 0 .. free - 1
        PROVE  (t + k) % NumDesc \in holes
    BY <1>2, <1>3
  <2> QED BY <2>1, <2>2
<1>6. Cardinality(holes) = free
  <2> DEFINE f == [j \in 1 .. free |-> At(t, j - 1)]
  <2>1. \A j \in 1 .. free : j - 1 \in 0 .. free - 1
    OBVIOUS
  <2>2. \A j \in 1 .. free : f[j] \in holes
    BY <2>1, <1>2, <1>3
  <2>3. \A i, j \in 1 .. free : f[i] = f[j] => i = j
    <3>1. \A j \in 1 .. free : Dist(t, f[j]) = j - 1
      BY <2>1, <1>3
    <3> QED BY <3>1
  <2>4. \A i \in holes : \E j \in 1 .. free : f[j] = i
    <3> TAKE i \in holes
    <3>1. Dist(t, i) + 1 \in 1 .. free
      BY <1>2, <1>4
    <3>2. f[Dist(t, i) + 1] = i
      BY <3>1, <1>4
    <3> QED BY <3>1, <3>2
  <2>5. f \in Bijection(1 .. free, holes)
    BY <2>2, <2>3, <2>4 DEF Bijection, Injection, Surjection, IsInjective
  <2>6. ExistsBijection(1 .. free, holes)
    BY <2>5 DEF ExistsBijection
  <2> QED BY <2>6, FS_CountingElements
<1> QED BY <1>5, <1>6

-----------------------------------------------------------------------------
(***************************************************************************)
(* The pool.                                                               *)
(***************************************************************************)
PoolType == [free: Nat, replenish: Nat, low: BOOLEAN, wpal: BOOLEAN,
             dxe: BOOLEAN, avail: BOOLEAN, noMem: Nat]

\* The packets of a pool, with the one DXE has been given.
InPool(p) == p.free + p.replenish + (IF p.dxe THEN 1 ELSE 0)

\* A callback costs the pool its packet, that DXE gets if it waits for one.
LEMMA CallbackFacts ==
  ASSUME NEW p \in PoolType
  PROVE  LET q == CalledBack(p)
         IN  /\ q \in PoolType /\ ~q.low
             /\ q.free = p.free /\ q.replenish = p.replenish
             /\ q.wpal = p.wpal /\ q.noMem = p.noMem
             /\ q.dxe = (p.dxe \/ p.wpal) /\ q.avail = (p.avail \/ p.wpal)
BY DEF CalledBack, PoolType

\* What a replenishing leaves.
LEMMA ReplenishFacts ==
  ASSUME NEW p \in PoolType, NEW q \in Replenished(p)
  PROVE  /\ q \in PoolType
         /\ q.wpal = p.wpal /\ q.noMem <= p.noMem
         /\ InPool(q) <= InPool(p)
         /\ ~p.low \/ (p.wpal /\ ~p.dxe) => InPool(q) = InPool(p)
         /\ \/ /\ q.low = p.low /\ q.dxe = p.dxe /\ q.avail = p.avail
               /\ q.free >= p.free /\ (p.low => q.free = p.free)
            \/ /\ p.low /\ ~q.low /\ q.dxe = (p.dxe \/ p.wpal)
               /\ q.avail = (p.avail \/ p.wpal)
         /\ ~p.low /\ p.noMem = 0 /\ p.free + p.replenish > 0 => q.free > 0
<1>1. CASE ~Due(p)
  <2>1. q = p
    BY <1>1 DEF Replenished
  <2>2. p.free > 0 \/ p.replenish = 0
    BY <1>1 DEF Due, PoolType
  <2> QED BY <2>1, <2>2 DEF InPool, PoolType
<1>2. CASE Due(p)
  <2> DEFINE some(n) == [p EXCEPT !.free = @ + n, !.replenish = @ - n,
                              !.noMem = @ - IF n < p.replenish THEN 1 ELSE 0]
  <2>1. PICK n \in {k \in 0 .. p.replenish : k = p.replenish \/ p.noMem > 0} :
          q = IF n > 0 /\ p.low THEN CalledBack([some(n) EXCEPT !.free = @ - 1])
                                ELSE some(n)
    BY <1>2 DEF Replenished
  <2>2. /\ n \in Nat /\ n <= p.replenish /\ (n = p.replenish \/ p.noMem > 0)
        /\ p.free \in Nat /\ p.replenish \in Nat /\ p.noMem \in Nat
    BY DEF PoolType
  <2>3. p.replenish > 0
    BY <1>2 DEF Due
  <2>4. /\ p.noMem - (IF n < p.replenish THEN 1 ELSE 0) \in Nat
        /\ p.noMem - (IF n < p.replenish THEN 1 ELSE 0) <= p.noMem
        /\ p.replenish - n \in Nat
    BY <2>2
  <2>5. /\ some(n) \in PoolType /\ some(n).free = p.free + n
        /\ some(n).replenish = p.replenish - n /\ some(n).noMem <= p.noMem
        /\ some(n).low = p.low /\ some(n).wpal = p.wpal
        /\ some(n).dxe = p.dxe /\ some(n).avail = p.avail
    <3> DEFINE a == p.free + n
               b == p.replenish - n
               m == p.noMem - (IF n < p.replenish THEN 1 ELSE 0)
    <3>1. a \in Nat /\ b \in Nat /\ m \in Nat /\ m <= p.noMem
      BY <2>2, <2>4
    <3>2. some(n) = [p EXCEPT !.free = a, !.replenish = b, !.noMem = m]
      OBVIOUS
    <3> HIDE DEF a, b, m, some
    <3>3. /\ some(n) \in PoolType /\ some(n).free = a
          /\ some(n).replenish = b /\ some(n).noMem = m
          /\ some(n).low = p.low /\ some(n).wpal = p.wpal
          /\ some(n).dxe = p.dxe /\ some(n).avail = p.avail
      BY <3>1, <3>2 DEF PoolType
    <3> QED BY <3>1, <3>3 DEF a, b
  <2> HIDE DEF some
  <2>6. CASE n > 0 /\ p.low
    <3> DEFINE less == [some(n) EXCEPT !.free = @ - 1]
    <3>1. p.free + n - 1 \in Nat
      BY <2>6, <2>2
    <3>2. /\ less \in PoolType /\ less.free = p.free + n - 1
          /\ less.replenish = p.replenish - n /\ less.noMem <= p.noMem
          /\ less.low = p.low /\ less.wpal = p.wpal
          /\ less.dxe = p.dxe /\ less.avail = p.avail
      BY <2>5, <3>1 DEF PoolType
    <3>3. q = CalledBack(less)
      BY <2>1, <2>6
    <3> HIDE DEF less
    <3>4. /\ q \in PoolType /\ ~q.low
          /\ q.free = p.free + n - 1 /\ q.replenish = p.replenish - n
          /\ q.wpal = p.wpal /\ q.noMem <= p.noMem
          /\ q.dxe = (p.dxe \/ p.wpal) /\ q.avail = (p.avail \/ p.wpal)
      BY <3>2, <3>3, CallbackFacts
    <3>5. InPool(q) <= InPool(p)
      BY <3>4, <2>2, <2>6 DEF InPool, PoolType
    <3>6. p.wpal /\ ~p.dxe => InPool(q) = InPool(p)
      BY <3>4, <2>2, <2>6 DEF InPool, PoolType
    <3> QED BY <3>4, <3>5, <3>6, <2>6
  <2>7. CASE ~(n > 0 /\ p.low)
    <3>1. q = some(n)
      BY <2>1, <2>7
    <3>2. InPool(q) = InPool(p)
      BY <3>1, <2>5, <2>2 DEF InPool, PoolType
    <3>3. p.low => q.free = p.free
      BY <3>1, <2>5, <2>2, <2>7
    <3>4. p.noMem = 0 => q.free > 0
      BY <3>1, <2>5, <2>2, <2>3
    <3>5. q.low = p.low /\ q.dxe = p.dxe /\ q.avail = p.avail
      BY <3>1, <2>5
    <3>6. q \in PoolType /\ q.wpal = p.wpal /\ q.noMem <= p.noMem /\ q.free >= p.free
      BY <3>1, <2>5, <2>2
    <3>7. InPool(q) \in Nat /\ InPool(q) <= InPool(p)
      BY <3>2, <3>6 DEF InPool, PoolType
    <3> QED BY <3>2, <3>3, <3>4, <3>5, <3>6, <3>7
  <2> QED BY <2>6, <2>7
<1> QED BY <1>1, <1>2

\* The pool of the model is one, and what its actions leave is its next state.
LEMMA PoolIsPool ==
  ASSUME Types
  PROVE  Pool \in PoolType
BY DEF Types, Pool, PoolType, Situation

LEMMA PoolBecomes ==
  ASSUME Types, NEW p \in PoolType, PoolIs(p)
  PROVE  /\ freeList' = p.free /\ replenishList' = p.replenish
         /\ lowResource' = p.low /\ wpalCB' = p.wpal /\ freeRXPacket' = p.dxe
         /\ freeList' \in Nat /\ replenishList' \in Nat
         /\ lowResource' \in BOOLEAN /\ wpalCB' \in BOOLEAN
         /\ freeRXPacket' \in BOOLEAN
         /\ left' \in Situation /\ left'.noMem = p.noMem
         /\ left'.mgmt = left.mgmt /\ left'.imps = left.imps
         /\ rxQ' = IF p.avail THEN Append(rxQ, "avail") ELSE rxQ
         /\ rxQ' \in Seq({"isr", "avail", "power"})
<1>1. /\ freeList' = p.free /\ replenishList' = p.replenish
      /\ lowResource' = p.low /\ wpalCB' = p.wpal /\ freeRXPacket' = p.dxe
      /\ left' = [left EXCEPT !.noMem = p.noMem]
      /\ rxQ' = IF p.avail THEN Append(rxQ, "avail") ELSE rxQ
  BY DEF PoolIs
<1>2. /\ freeList' \in Nat /\ replenishList' \in Nat
      /\ lowResource' \in BOOLEAN /\ wpalCB' \in BOOLEAN
      /\ freeRXPacket' \in BOOLEAN
  BY <1>1 DEF PoolType
<1>3. /\ left' \in Situation /\ left'.noMem = p.noMem
      /\ left'.mgmt = left.mgmt /\ left'.imps = left.imps
  BY <1>1 DEF Types, PoolType, Situation
<1>4. rxQ' \in Seq({"isr", "avail", "power"})
  BY <1>1 DEF Types
<1> QED BY <1>1, <1>2, <1>3, <1>4

-----------------------------------------------------------------------------
(***************************************************************************)
(* Types.                                                                  *)
(***************************************************************************)
LEMMA TodoFacts ==
  ASSUME Types
  PROVE  /\ todo # <<>> => Head(todo) \in Channel
         /\ todo # <<>> => Tail(todo) \in {<<>>, <<"lo">>}
         /\ todo # <<>> => (Tail(todo) = <<>> <=> todo # Channels)
         /\ todo # <<>> => (Len(todo) > 1 <=> todo = Channels)
         /\ Head(Channels) = "hi" /\ Tail(Channels) = <<"lo">>
         /\ Head(<<"hi">>) = "hi" /\ Head(<<"lo">>) = "lo"
         /\ Channels # <<>> /\ <<"hi">> # <<>> /\ <<"lo">> # <<>>
         /\ Channels # <<"hi">> /\ Channels # <<"lo">> /\ <<"hi">> # <<"lo">>
<1>1. /\ Head(Channels) = "hi" /\ Tail(Channels) = <<"lo">>
      /\ Head(<<"hi">>) = "hi" /\ Head(<<"lo">>) = "lo"
      /\ Tail(<<"hi">>) = <<>> /\ Tail(<<"lo">>) = <<>>
      /\ Len(Channels) = 2 /\ Len(<<"hi">>) = 1 /\ Len(<<"lo">>) = 1
  BY DEF Channels
<1>2. /\ Channels # <<>> /\ <<"hi">> # <<>> /\ <<"lo">> # <<>>
      /\ Channels # <<"hi">> /\ Channels # <<"lo">> /\ <<"hi">> # <<"lo">>
  BY DEF Channels
<1>3. todo \in {<<>>, <<"hi">>, <<"lo">>, Channels}
  BY DEF Types
<1>4. CASE todo = <<>>
  BY <1>1, <1>2, <1>4
<1>5. CASE todo = <<"hi">>
  <2>1. Head(todo) \in Channel /\ Tail(todo) = <<>> /\ ~(Len(todo) > 1)
    BY <1>1, <1>5 DEF Channel
  <2> QED BY <2>1, <1>1, <1>2, <1>5
<1>6. CASE todo = <<"lo">>
  <2>1. Head(todo) \in Channel /\ Tail(todo) = <<>> /\ ~(Len(todo) > 1)
    BY <1>1, <1>6 DEF Channel
  <2> QED BY <2>1, <1>1, <1>2, <1>6
<1>7. CASE todo = Channels
  <2>1. Head(todo) \in Channel /\ Tail(todo) = <<"lo">> /\ Len(todo) > 1
    BY <1>1, <1>7 DEF Channel
  <2> QED BY <2>1, <1>1, <1>2, <1>7
<1> QED BY <1>3, <1>4, <1>5, <1>6, <1>7

\* What the status tells the RX thread to serve.
LEMMA SourceRead ==
  ASSUME Types, ReadSource
  PROVE  /\ todo' \in {<<>>, <<"hi">>, <<"lo">>, Channels}
         /\ todo' # <<>> => Head(todo') \in intSrc
         /\ todo' = Channels => "lo" \in intSrc
         /\ todo' = <<>> <=> intSrc = {}
         /\ rx' = IF todo' = <<>> THEN "enable" ELSE "clean"
<1>1. /\ todo' = (IF "hi" \in intSrc THEN <<"hi">> ELSE <<>>)
                 \o (IF "lo" \in intSrc THEN <<"lo">> ELSE <<>>)
      /\ rx' = IF todo' = <<>> THEN "enable" ELSE "clean"
      /\ intSrc \subseteq {"hi", "lo"}
  BY DEF ReadSource, Types, Channel
<1>2. /\ <<"hi">> \o <<>> = <<"hi">> /\ <<>> \o <<"lo">> = <<"lo">>
      /\ <<>> \o <<>> = <<>>
  OBVIOUS
<1>7. <<"hi">> \o <<"lo">> = Channels
  <2> DEFINE both == <<"hi">> \o <<"lo">>
  <2>1. /\ both \in Seq({"hi", "lo"}) /\ Channels \in Seq({"hi", "lo"})
        /\ Len(both) = 2 /\ both[1] = "hi" /\ both[2] = "lo"
        /\ Len(Channels) = 2 /\ Channels[1] = "hi" /\ Channels[2] = "lo"
    BY DEF Channels
  <2> HIDE DEF both
  <2>2. \A i \in 1 .. Len(both) : both[i] = Channels[i]
    <3>1. \A i \in 1 .. Len(both) : i = 1 \/ i = 2
      BY <2>1
    <3> QED BY <2>1, <3>1
  <2>3. both = Channels
    BY <2>1, <2>2, SeqEqual
  <2> QED BY <2>3 DEF both
<1>3. CASE "hi" \in intSrc /\ "lo" \in intSrc
  BY <1>1, <1>7, <1>3, TodoFacts
<1>4. CASE "hi" \in intSrc /\ "lo" \notin intSrc
  BY <1>1, <1>2, <1>4, TodoFacts
<1>5. CASE "hi" \notin intSrc /\ "lo" \in intSrc
  BY <1>1, <1>2, <1>5, TodoFacts
<1>6. CASE "hi" \notin intSrc /\ "lo" \notin intSrc
  BY <1>1, <1>2, <1>6, TodoFacts
<1> QED BY <1>3, <1>4, <1>5, <1>6

\* Nothing is taken from a ring without a frame.
LEMMA PullFacts ==
  ASSUME Types, Handling, Rings, Pull
  PROVE  /\ Head(todo) \in Channel
         /\ rx = "pull" /\ rxFor = "isr" /\ todo # <<>>
         /\ numFreeDesc[Head(todo)] < NumDesc
         /\ desc[Head(todo)][head[Head(todo)]] \in Filled
         /\ desc' = [desc EXCEPT ![Head(todo)] =
                       [desc[Head(todo)] EXCEPT ![head[Head(todo)]] = "empty"]]
         /\ numFreeDesc' = [numFreeDesc EXCEPT ![Head(todo)] =
                              numFreeDesc[Head(todo)] + 1]
         /\ \E n \in Nat :
              /\ RingHas(desc'[Head(todo)], dma[Head(todo)], tail[Head(todo)],
                         numFreeDesc[Head(todo)] + 1, n)
              /\ At(tail[Head(todo)], numFreeDesc[Head(todo)] + 1)
                   = Next1(head[Head(todo)])
<1> DEFINE c == Head(todo)
<1>1. /\ rx = "pull" /\ rxFor = "isr" /\ todo # <<>> /\ c \in Channel
      /\ desc[c][head[c]] \in Filled
      /\ numFreeDesc' = [numFreeDesc EXCEPT ![c] = numFreeDesc[c] + 1]
      /\ desc' = [desc EXCEPT ![c] = [desc[c] EXCEPT ![head[c]] = "empty"]]
  BY TodoFacts DEF Pull, Handling
<1>2. /\ desc[c] \in [Place -> Filled \cup {"valid", "empty"}]
      /\ dma[c] \in Place /\ tail[c] \in Place /\ head[c] \in Place
      /\ numFreeDesc[c] \in 0 .. NumDesc
  BY <1>1 DEF Types
<1>3. head[c] = At(tail[c], numFreeDesc[c])
  BY <1>1 DEF Rings, Ring, Taken
<1>4. PICK n \in Nat : RingHas(desc[c], dma[c], tail[c], numFreeDesc[c], n)
  BY <1>1 DEF Rings, Ring
<1>5. /\ n > 0 /\ numFreeDesc[c] < NumDesc
      /\ RingHas([desc[c] EXCEPT ![head[c]] = "empty"], dma[c], tail[c],
                 numFreeDesc[c] + 1, n - 1)
      /\ At(tail[c], numFreeDesc[c] + 1) = Next1(head[c])
  BY <1>1, <1>2, <1>3, <1>4, RingTaken
<1>6. desc'[c] = [desc[c] EXCEPT ![head[c]] = "empty"]
  BY <1>1 DEF Types
<1>7. n - 1 \in Nat
  BY <1>5
<1> QED BY <1>1, <1>5, <1>6, <1>7

\* What the pool loses or gains by the packet of the frame.
LEMMA PullPool ==
  ASSUME Types, Handling, Rings, Pull
  PROVE  \/ /\ desc[Head(todo)][head[Head(todo)]] = "data"
            /\ \E p \in PoolType : \E q \in Replenished(p) :
                 /\ p = [Pool EXCEPT !.replenish = @ + 1]
                 /\ q \in PoolType /\ PoolIs(q)
            /\ upstairs' = upstairs
         \/ /\ desc[Head(todo)][head[Head(todo)]] = "mgmt"
            /\ upstairs' = upstairs + 1 /\ UNCHANGED <<poolVars, rxQ, left>>
<1>1. desc[Head(todo)][head[Head(todo)]] \in Filled
  BY PullFacts
<1>2. CASE desc[Head(todo)][head[Head(todo)]] = "data"
  <2>1. PICK q \in Replenished([Pool EXCEPT !.replenish = @ + 1]) : PoolIs(q)
    BY <1>2 DEF Pull
  <2>2. [Pool EXCEPT !.replenish = @ + 1] \in PoolType
    BY PoolIsPool DEF PoolType
  <2>3. upstairs' = upstairs
    BY <1>2 DEF Pull
  <2> QED BY <1>2, <2>1, <2>2, <2>3, ReplenishFacts
<1>3. CASE desc[Head(todo)][head[Head(todo)]] # "data"
  BY <1>1, <1>3 DEF Pull, Filled
<1> QED BY <1>2, <1>3

\* What dxeRXFrameRefillRing does to the places of the RX thread.
LEMMA EndRefillFacts ==
  ASSUME Types, Handling, NEW ok \in BOOLEAN, EndRefill(ok),
         rx \in {"refill", "register"}
  PROVE  /\ todo # <<>> /\ Head(todo) \in Channel
         /\ rxImps' = rxImps /\ frameCount' = frameCount
         /\ rxFor = "isr" =>
              /\ rx' = "pull" /\ rxFor' = "isr" /\ todo' = todo
              /\ head' = [head EXCEPT ![Head(todo)] = Next1(head[Head(todo)])]
         /\ rxFor # "isr" =>
              /\ rxFor = "avail" /\ ~rxImps /\ head' = head
              /\ \/ /\ ok /\ todo = Channels /\ todo' = <<"lo">>
                    /\ rx' = rx /\ rxFor' = rxFor
                 \/ /\ ~ok \/ todo # Channels
                    /\ todo' = <<>> /\ rx' = "flag" /\ rxFor' = "avail"
                    /\ hostPowerState = "IMPS"
                 \/ /\ ~ok \/ todo # Channels
                    /\ todo' = <<>> /\ rx' = "idle" /\ rxFor' = "none"
                    /\ hostPowerState = "FULL"
<1>1. /\ todo # <<>> /\ Head(todo) \in Channel /\ rxFor \in {"isr", "avail"}
      /\ Len(todo) > 1 <=> todo = Channels
      /\ Tail(Channels) = <<"lo">>
      /\ rxFor # "isr" => ~rxImps
  BY TodoFacts DEF Handling, Types
<1>2. rxImps' = rxImps /\ frameCount' = frameCount
  BY DEF EndRefill
<1>3. CASE rxFor = "isr"
  BY <1>1, <1>2, <1>3 DEF EndRefill
<1>4. CASE rxFor # "isr"
  <2>1. hostPowerState \in {"FULL", "IMPS"}
    BY DEF Types
  <2>2. head' = head
    BY <1>4 DEF EndRefill
  <2>3. CASE ok /\ todo = Channels
    BY <1>1, <1>2, <1>4, <2>2, <2>3 DEF EndRefill
  <2>4. CASE ~(ok /\ todo = Channels)
    BY <1>1, <1>2, <1>4, <2>1, <2>2, <2>4 DEF EndRefill
  <2> QED BY <2>3, <2>4
<1> QED BY <1>3, <1>4

LEMMA HeadMoves ==
  ASSUME Types, NEW c \in Channel,
         \/ head' = head
         \/ head' = [head EXCEPT ![c] = Next1(head[c])]
  PROVE  head' \in [Channel -> Place]
<1>1. head \in [Channel -> Place] /\ head[c] \in Place
  BY DEF Types
<1>2. Next1(head[c]) \in Place
  BY <1>1, Positions
<1> QED BY <1>1, <1>2

LEMMA EndRefillTypes ==
  ASSUME Types, Handling, NEW ok \in BOOLEAN, EndRefill(ok),
         rx \in {"refill", "register"}
  PROVE  /\ head' \in [Channel -> Place]
         /\ todo' \in {<<>>, <<"hi">>, <<"lo">>, Channels}
         /\ rx' \in {"pull", "refill", "register", "flag", "idle"}
         /\ rxFor' \in {"none", "isr", "avail"}
         /\ rxImps' = rxImps /\ frameCount' = frameCount
<1>1. todo \in {<<>>, <<"hi">>, <<"lo">>, Channels} /\ Head(todo) \in Channel
  BY EndRefillFacts DEF Types
<1>2. rxImps' = rxImps /\ frameCount' = frameCount
  BY EndRefillFacts
<1>3. CASE rxFor = "isr"
  <2>1. head' = [head EXCEPT ![Head(todo)] = Next1(head[Head(todo)])]
    BY <1>3, EndRefillFacts
  <2>2. head' \in [Channel -> Place]
    BY <1>1, <2>1, HeadMoves
  <2>3. rx' = "pull" /\ rxFor' = "isr" /\ todo' = todo
    BY <1>3, EndRefillFacts
  <2> QED BY <1>1, <1>2, <2>2, <2>3
<1>4. CASE rxFor # "isr"
  <2>1. head' = head
    BY <1>4, EndRefillFacts
  <2>2. head' \in [Channel -> Place]
    BY <1>1, <2>1, HeadMoves
  <2>3. /\ todo' \in {<<>>, <<"hi">>, <<"lo">>, Channels}
        /\ rx' \in {"pull", "refill", "register", "flag", "idle"}
        /\ rxFor' \in {"none", "isr", "avail"}
    BY <1>4, EndRefillFacts
  <2> QED BY <1>2, <2>2, <2>3
<1> QED BY <1>3, <1>4

LEMMA FillFacts ==
  ASSUME Types, NEW c \in Channel, Fill(c), numFreeDesc[c] > 0
  PROVE  /\ desc' = [desc EXCEPT ![c] = [desc[c] EXCEPT ![tail[c]] = "valid"]]
         /\ tail' = [tail EXCEPT ![c] = Next1(tail[c])]
         /\ numFreeDesc' = [numFreeDesc EXCEPT ![c] = numFreeDesc[c] - 1]
         /\ desc' \in [Channel -> [Place -> Filled \cup {"valid", "empty"}]]
         /\ tail' \in [Channel -> Place]
         /\ numFreeDesc' \in [Channel -> 0 .. NumDesc]
<1>1. /\ desc' = [desc EXCEPT ![c] = [desc[c] EXCEPT ![tail[c]] = "valid"]]
      /\ tail' = [tail EXCEPT ![c] = Next1(tail[c])]
      /\ numFreeDesc' = [numFreeDesc EXCEPT ![c] = numFreeDesc[c] - 1]
  BY DEF Fill
<1>2. /\ desc[c] \in [Place -> Filled \cup {"valid", "empty"}]
      /\ tail[c] \in Place /\ numFreeDesc[c] \in 0 .. NumDesc
  BY DEF Types
<1>3. numFreeDesc[c] - 1 \in 0 .. NumDesc /\ Next1(tail[c]) \in Place
  BY <1>2, Positions, SizeAssumption
<1> QED BY <1>1, <1>2, <1>3 DEF Types

\* A packet is taken from the pool, or the call that looked for one is
\* registered in it.
LEMMA AllocFacts ==
  ASSUME Types, Handling, RefillAlloc
  PROVE  /\ rx = "refill" /\ todo # <<>> /\ Head(todo) \in Channel
         /\ numFreeDesc[Head(todo)] > 0 /\ ~rxPalPacketUnavailable
         /\ UNCHANGED <<dma, head, numFragmentCurrentChain, intVars, rxFor,
              rxImps, todo, frameCount, rxIntDisabledByIMPS,
              driverReloadInProcessing, rxPalPacketUnavailable, upstairs,
              powerVars, mc, setup>>
         /\ \E p \in PoolType : \E q \in Replenished(p) : \E r \in PoolType :
              /\ p = [Pool EXCEPT !.wpal = FALSE] /\ q \in PoolType
              /\ PoolIs(r)
              /\ \/ /\ q.low \/ q.free = 0
                    /\ r = [q EXCEPT !.low = TRUE]
                    /\ rx' = "register" /\ UNCHANGED <<desc, tail, numFreeDesc>>
                 \/ /\ ~q.low /\ q.free > 0
                    /\ r = [q EXCEPT !.free = @ - 1]
                    /\ Fill(Head(todo)) /\ rx' = "refill"
<1>1. /\ rx = "refill" /\ todo # <<>> /\ Head(todo) \in Channel
      /\ numFreeDesc[Head(todo)] > 0 /\ ~rxPalPacketUnavailable
  BY TodoFacts DEF RefillAlloc, Handling
<1>2. UNCHANGED <<dma, head, numFragmentCurrentChain, intVars, rxFor,
        rxImps, todo, frameCount, rxIntDisabledByIMPS,
        driverReloadInProcessing, rxPalPacketUnavailable, upstairs,
        powerVars, mc, setup>>
  BY DEF RefillAlloc, RxThreadOnly
<1> DEFINE p == [Pool EXCEPT !.wpal = FALSE]
<1>3. p \in PoolType
  BY PoolIsPool DEF PoolType
<1>4. PICK q \in Replenished(p) :
        IF q.low \/ q.free = 0
        THEN /\ PoolIs([q EXCEPT !.low = TRUE])
             /\ rx' = "register" /\ UNCHANGED <<desc, tail, numFreeDesc>>
        ELSE /\ PoolIs([q EXCEPT !.free = @ - 1])
             /\ Fill(Head(todo)) /\ UNCHANGED rx
  BY DEF RefillAlloc
<1> HIDE DEF p
<1>5. q \in PoolType
  BY <1>3, <1>4, ReplenishFacts
<1>6. CASE q.low \/ q.free = 0
  <2> DEFINE r == [q EXCEPT !.low = TRUE]
  <2>1. r \in PoolType
    BY <1>5 DEF PoolType
  <2> QED BY <1>1, <1>2, <1>3, <1>4, <1>5, <1>6, <2>1 DEF p
<1>7. CASE ~(q.low \/ q.free = 0)
  <2> DEFINE r == [q EXCEPT !.free = @ - 1]
  <2>1. r \in PoolType /\ q.free > 0
    <3>1. q.free \in Nat /\ q.free - 1 \in Nat
      BY <1>5, <1>7 DEF PoolType
    <3> QED BY <1>5, <1>7, <3>1 DEF PoolType
  <2> QED BY <1>1, <1>2, <1>3, <1>4, <1>5, <1>7, <2>1 DEF p
<1> QED BY <1>6, <1>7

\* Every step keeps the types.
LEMMA TypesStep ==
  ASSUME Types, Handling, Rings, [Next]_vars
  PROVE  Types'
<1> USE DEF ringVars, intVars, poolVars, powerVars, rxVars
<1>1. ASSUME NEW c \in Channel, NEW kind \in Filled, Receive(c, kind)
      PROVE  Types'
  <2>1. /\ desc[c] \in [Place -> Filled \cup {"valid", "empty"}]
        /\ dma[c] \in Place /\ left[kind] - 1 \in Nat
    BY <1>1 DEF Receive, Types, Filled, Situation
  <2>2. desc' \in [Channel -> [Place -> Filled \cup {"valid", "empty"}]]
    BY <1>1, <2>1 DEF Receive, Types
  <2>3. dma' \in [Channel -> Place]
    BY <1>1, <2>1, Positions DEF Receive, Types
  <2>4. left' \in Situation
    BY <1>1, <2>1 DEF Receive, Types, Filled, Situation
  <2> QED BY <1>1, <2>2, <2>3, <2>4 DEF Receive, Types
<1>2. CASE RxIsr
  BY <1>2 DEF RxIsr, Types
<1>3. CASE TakeIsr
  <2>1. /\ rx' \in {"idle", "pull", "source"} /\ rxFor' \in {"none", "isr", "avail"}
        /\ rxImps' \in BOOLEAN /\ todo' \in {<<>>, <<"hi">>, <<"lo">>, Channels}
        /\ rxQ' \in Seq({"isr", "avail", "power"})
    <3>1. CASE driverReloadInProcessing
      BY <1>3, <3>1 DEF TakeIsr, Types
    <3>2. CASE ~driverReloadInProcessing
      <4>1. rxFor' = "isr" /\ rxImps' \in BOOLEAN
        BY <1>3, <3>2 DEF TakeIsr
      <4>2. rxQ' \in Seq({"isr", "avail", "power"})
        BY <1>3 DEF TakeIsr, Types
      <4>3. rx' \in {"pull", "source"} /\ todo' \in {<<>>, Channels}
        BY <1>3, <3>2, <4>1 DEF TakeIsr
      <4> QED BY <4>1, <4>2, <4>3
    <3> QED BY <3>1, <3>2
  <2>2. UNCHANGED <<ringVars, numFragmentCurrentChain, intVars, frameCount,
          rxIntDisabledByIMPS, driverReloadInProcessing, poolVars,
          rxPalPacketUnavailable, upstairs, powerVars, mc, setup, left>>
    BY <1>3 DEF TakeIsr
  <2> QED BY <2>1, <2>2 DEF Types
<1>4. CASE TakeAvail
  BY <1>4 DEF TakeAvail, Types
<1>5. CASE TakePower
  BY <1>5 DEF TakePower, Types
<1>6. CASE ReadSource
  <2>1. todo' \in {<<>>, <<"hi">>, <<"lo">>, Channels} /\ rx' \in {"enable", "clean"}
    BY <1>6, SourceRead
  <2>2. UNCHANGED <<ringVars, numFragmentCurrentChain, intVars, rxFor, rxImps,
          frameCount, rxIntDisabledByIMPS, driverReloadInProcessing, rxQ,
          poolVars, rxPalPacketUnavailable, upstairs, powerVars, mc, setup, left>>
    BY <1>6 DEF ReadSource, RxThreadOnly
  <2> QED BY <2>1, <2>2 DEF Types
<1>7. CASE CleanInt
  BY <1>7 DEF CleanInt, RxThreadOnly, Types
<1>8. CASE Pull
  <2> DEFINE c == Head(todo)
  <2>1. /\ c \in Channel /\ numFreeDesc[c] < NumDesc
        /\ desc' = [desc EXCEPT ![c] = [desc[c] EXCEPT ![head[c]] = "empty"]]
        /\ numFreeDesc' = [numFreeDesc EXCEPT ![c] = numFreeDesc[c] + 1]
    BY <1>8, PullFacts
  <2>2. /\ desc[c] \in [Place -> Filled \cup {"valid", "empty"}]
        /\ head[c] \in Place /\ numFreeDesc[c] + 1 \in 0 .. NumDesc
    BY <2>1, SizeAssumption DEF Types
  <2>3. /\ desc' \in [Channel -> [Place -> Filled \cup {"valid", "empty"}]]
        /\ numFreeDesc' \in [Channel -> 0 .. NumDesc]
    BY <2>1, <2>2 DEF Types
  <2>4. /\ upstairs' \in Nat /\ freeList' \in Nat /\ replenishList' \in Nat
        /\ lowResource' \in BOOLEAN /\ wpalCB' \in BOOLEAN
        /\ freeRXPacket' \in BOOLEAN /\ left' \in Situation
        /\ rxQ' \in Seq({"isr", "avail", "power"})
    <3>1. CASE \E q \in PoolType : PoolIs(q) /\ upstairs' = upstairs
      BY <3>1, PoolBecomes DEF Types
    <3>2. CASE upstairs' = upstairs + 1 /\ UNCHANGED <<poolVars, rxQ, left>>
      BY <3>2 DEF Types
    <3> QED BY <1>8, <3>1, <3>2, PullPool
  <2>5. frameCount' \in Nat /\ rx' = "refill"
    BY <1>8 DEF Pull, Types
  <2>6. UNCHANGED <<dma, head, tail, numFragmentCurrentChain, intVars, rxFor,
          rxImps, todo, rxIntDisabledByIMPS, driverReloadInProcessing,
          rxPalPacketUnavailable, powerVars, mc, setup>>
    BY <1>8 DEF Pull
  <2> QED BY <2>3, <2>4, <2>5, <2>6 DEF Types
<1>9. CASE RefillFull
  <2>1. EndRefill(TRUE) /\ rx = "refill"
    BY <1>9 DEF RefillFull
  <2>2. /\ head' \in [Channel -> Place]
        /\ todo' \in {<<>>, <<"hi">>, <<"lo">>, Channels}
        /\ rx' \in {"pull", "refill", "register", "flag", "idle"}
        /\ rxFor' \in {"none", "isr", "avail"}
        /\ rxImps' = rxImps /\ frameCount' = frameCount
    BY <2>1, EndRefillTypes
  <2>3. UNCHANGED <<desc, dma, tail, numFreeDesc, numFragmentCurrentChain,
          intVars, rxIntDisabledByIMPS, driverReloadInProcessing, rxQ,
          poolVars, rxPalPacketUnavailable, upstairs, powerVars, mc, setup, left>>
    BY <1>9 DEF RefillFull, RxThreadOnly
  <2> QED BY <2>2, <2>3 DEF Types
<1>10. CASE RefillWaiting
  <2>1. /\ rx = "refill" /\ numFreeDesc[Head(todo)] > 0
        /\ Head(todo) \in Channel
    BY <1>10, TodoFacts DEF RefillWaiting, Handling
  <2>2. CASE freeRXPacket
    <3>1. Fill(Head(todo))
      BY <1>10, <2>2 DEF RefillWaiting
    <3>2. /\ desc' \in [Channel -> [Place -> Filled \cup {"valid", "empty"}]]
          /\ tail' \in [Channel -> Place]
          /\ numFreeDesc' \in [Channel -> 0 .. NumDesc]
      BY <2>1, <3>1, FillFacts
    <3>3. /\ freeRXPacket' = FALSE /\ rxPalPacketUnavailable' = FALSE
          /\ UNCHANGED <<dma, head, rxVars, numFragmentCurrentChain, intVars,
               rxIntDisabledByIMPS, driverReloadInProcessing, rxQ, freeList,
               replenishList, lowResource, wpalCB, left, upstairs, powerVars,
               mc, setup>>
      BY <1>10, <2>2 DEF RefillWaiting, RxThreadOnly
    <3>4. freeRXPacket' \in BOOLEAN /\ rxPalPacketUnavailable' \in BOOLEAN
      BY <3>3
    <3> QED BY <3>2, <3>3, <3>4 DEF Types
  <2>3. CASE ~freeRXPacket
    <3>1. EndRefill(FALSE)
      BY <1>10, <2>3 DEF RefillWaiting
    <3>2. /\ head' \in [Channel -> Place]
          /\ todo' \in {<<>>, <<"hi">>, <<"lo">>, Channels}
          /\ rx' \in {"pull", "refill", "register", "flag", "idle"}
          /\ rxFor' \in {"none", "isr", "avail"}
          /\ rxImps' = rxImps /\ frameCount' = frameCount
      BY <2>1, <3>1, EndRefillTypes
    <3>3. UNCHANGED <<desc, dma, tail, numFreeDesc, numFragmentCurrentChain,
            intVars, rxIntDisabledByIMPS, driverReloadInProcessing, rxQ,
            poolVars, rxPalPacketUnavailable, upstairs, powerVars, mc, setup, left>>
      BY <1>10, <2>3 DEF RefillWaiting, RxThreadOnly
    <3> QED BY <3>2, <3>3 DEF Types
  <2> QED BY <2>2, <2>3
<1>11. CASE RefillAlloc
  <2>1. PICK r \in PoolType :
          /\ PoolIs(r)
          /\ \/ rx' = "register" /\ UNCHANGED <<desc, tail, numFreeDesc>>
             \/ Fill(Head(todo)) /\ rx' = "refill"
    BY <1>11, AllocFacts
  <2>2. Head(todo) \in Channel /\ numFreeDesc[Head(todo)] > 0
    BY <1>11, AllocFacts
  <2>3. /\ desc' \in [Channel -> [Place -> Filled \cup {"valid", "empty"}]]
        /\ tail' \in [Channel -> Place]
        /\ numFreeDesc' \in [Channel -> 0 .. NumDesc]
    BY <2>1, <2>2, FillFacts DEF Types
  <2>4. UNCHANGED <<dma, head, numFragmentCurrentChain, intVars, rxFor,
          rxImps, todo, frameCount, rxIntDisabledByIMPS,
          driverReloadInProcessing, rxPalPacketUnavailable, upstairs,
          powerVars, mc, setup>>
    BY <1>11, AllocFacts
  <2> QED BY <2>1, <2>3, <2>4, PoolBecomes, SMTT(30) DEF Types
<1>12. CASE Register
  <2>1. EndRefill(FALSE) /\ rx = "register"
    BY <1>12 DEF Register
  <2>2. /\ head' \in [Channel -> Place]
        /\ todo' \in {<<>>, <<"hi">>, <<"lo">>, Channels}
        /\ rx' \in {"pull", "refill", "register", "flag", "idle"}
        /\ rxFor' \in {"none", "isr", "avail"}
        /\ rxImps' = rxImps /\ frameCount' = frameCount
    BY <2>1, EndRefillTypes
  <2>3. /\ wpalCB' = TRUE /\ rxPalPacketUnavailable' = TRUE
        /\ UNCHANGED <<desc, dma, tail, numFreeDesc, numFragmentCurrentChain,
             intVars, rxIntDisabledByIMPS, driverReloadInProcessing, rxQ,
             freeList, replenishList, lowResource, freeRXPacket, left,
             upstairs, powerVars, mc, setup>>
    BY <1>12 DEF Register, RxThreadOnly
  <2> QED BY <2>2, <2>3 DEF Types
<1>13. CASE EndPull
  BY <1>13 DEF EndPull, RxThreadOnly, Types
<1>14. CASE EndChannel
  <2>1. Head(todo) \in Channel /\ Tail(todo) \in {<<>>, <<"hi">>, <<"lo">>, Channels}
    BY <1>14, TodoFacts DEF EndChannel, Handling
  <2> QED BY <1>14, <2>1 DEF EndChannel, RxThreadOnly, Types
<1>15. CASE Enable
  BY <1>15 DEF Enable, Enabled, RxThreadOnly, Types
<1>16. CASE Control \/ Flag
  <2>1. /\ rx' = "idle" /\ rxFor' = "none" /\ rxImps' = FALSE /\ todo' = <<>>
        /\ rxIntDisabledByIMPS' \in {rxIntDisabledByIMPS, TRUE}
    BY <1>16 DEF Control, Flag, Idle
  <2>2. UNCHANGED <<ringVars, numFragmentCurrentChain, intVars, frameCount,
          driverReloadInProcessing, rxQ, poolVars, rxPalPacketUnavailable,
          upstairs, powerVars, mc, setup, left>>
    BY <1>16 DEF Control, Flag, RxThreadOnly
  <2>3. rxIntDisabledByIMPS' \in BOOLEAN /\ rxImps' \in BOOLEAN
    BY <2>1 DEF Types
  <2> QED BY <2>1, <2>2, <2>3 DEF Types
<1>17. CASE McReturn
  <2>1. upstairs' \in Nat
    BY <1>17 DEF McReturn, Types
  <2> QED BY <1>17, <2>1 DEF McReturn, McThreadOnly, PowerSame, Types
<1>18. CASE McCall
  <2>1. CalledBack(Pool) \in PoolType
    BY PoolIsPool, CallbackFacts
  <2>2. CASE lowResource
    <3>1. PoolIs(CalledBack(Pool))
      BY <1>18, <2>2 DEF McCall
    <3> QED BY <1>18, <2>1, <2>2, <3>1, PoolBecomes
            DEF McCall, McThreadOnly, PowerSame, Types
  <2>3. CASE ~lowResource
    BY <1>18, <2>3 DEF McCall, McThreadOnly, PowerSame, Types
  <2> QED BY <2>2, <2>3
<1>19. CASE McPut
  <2> DEFINE p == [Pool EXCEPT !.free = @ + 1]
  <2>1. p \in PoolType
    BY PoolIsPool DEF PoolType
  <2>2. PoolIs(p)
    BY <1>19 DEF McPut
  <2> QED BY <1>19, <2>1, <2>2, PoolBecomes DEF McPut, McThreadOnly, PowerSame, Types
<1>20. CASE McReplenish
  <2>1. PICK p \in Replenished(Pool) : PoolIs(p)
    BY <1>20 DEF McReplenish
  <2>2. p \in PoolType
    BY PoolIsPool, ReplenishFacts
  <2> QED BY <1>20, <2>1, <2>2, PoolBecomes
          DEF McReplenish, McThreadOnly, PowerSame, Types
<1>21. CASE EnterImps
  <2>1. left' \in Situation
    <3>1. left.imps - 1 \in Nat /\ left \in Situation
      BY <1>21, SMTT(30) DEF EnterImps, Types, Situation
    <3>2. left' = [left EXCEPT !.imps = left.imps - 1]
      BY <1>21 DEF EnterImps
    <3> QED BY <3>1, <3>2 DEF Situation
  <2>2. rxQ' \in Seq({"isr", "avail", "power"})
    BY <1>21 DEF EnterImps, Types
  <2>3. /\ setPowerStateEvent' = FALSE /\ hostPowerState' = "IMPS" /\ mc' = "wait"
        /\ UNCHANGED <<ringVars, numFragmentCurrentChain, intVars, rxVars,
             rxIntDisabledByIMPS, driverReloadInProcessing, poolVars, upstairs,
             rxPalPacketUnavailable, riva, txAck, psm, setup>>
    BY <1>21 DEF EnterImps, McThreadOnly
  <2>4. setPowerStateEvent' \in BOOLEAN
    BY <2>3
  <2> QED BY <2>1, <2>2, <2>3, <2>4 DEF Types
<1>22. CASE SendEnter \/ TxAcks \/ LeaveImps \/ SetFull
  <2>1. UNCHANGED <<ringVars, numFragmentCurrentChain, intSrc, rxVars,
          driverReloadInProcessing, rxQ, poolVars, upstairs,
          rxPalPacketUnavailable, riva, setup, left>>
    BY <1>22 DEF SendEnter, TxAcks, LeaveImps, SetFull, McThreadOnly
  <2>2. /\ irqDepth' \in 0 .. 1 /\ rxIntDisabledByIMPS' \in BOOLEAN
        /\ txAck' \in BOOLEAN /\ setPowerStateEvent' \in BOOLEAN
        /\ hostPowerState' \in {"FULL", "IMPS"}
        /\ psm' \in {"full", "entering", "asleep", "answered"}
        /\ mc' \in {"idle", "call", "put", "replenish", "wait", "setFull", "crashed"}
    <3>1. CASE SendEnter
      BY <3>1 DEF SendEnter, Types
    <3>2. CASE TxAcks
      BY <3>2 DEF TxAcks, Types
    <3>3. CASE LeaveImps
      <4>1. irqDepth' \in 0 .. 1
        BY <3>3 DEF LeaveImps, Enabled, Types
      <4>2. rxIntDisabledByIMPS' \in BOOLEAN
        BY <3>3 DEF LeaveImps
      <4> QED BY <3>3, <4>1, <4>2 DEF LeaveImps, Types
    <3>4. CASE SetFull
      BY <3>4 DEF SetFull, Types
    <3> QED BY <1>22, <3>1, <3>2, <3>3, <3>4
  <2> QED BY <2>1, <2>2 DEF Types
<1>24. CASE Riva
  BY <1>24 DEF Riva, RivaRefuses, RivaCollapses, RivaWakes, RivaSame, Types
<1>25. CASE UNCHANGED vars
  BY <1>25 DEF vars, Types
<1> QED BY <1>1, <1>2, <1>3, <1>4, <1>5, <1>6, <1>7, <1>8, <1>9, <1>10, <1>11,
           <1>12, <1>13, <1>14, <1>15, <1>16, <1>17, <1>18, <1>19, <1>20,
           <1>21, <1>22, <1>24, <1>25 DEF Next, RxThread, McThread

-----------------------------------------------------------------------------
(***************************************************************************)
(* What the RX thread is doing.                                            *)
(***************************************************************************)
LEMMA HandlingStep ==
  ASSUME Types, Handling, Rings, [Next]_vars
  PROVE  Handling'
<1> USE DEF ringVars, rxVars
<1>1. CASE UNCHANGED <<rxVars, numFreeDesc>>
  BY <1>1 DEF Handling
<1>2. ASSUME \/ \E c \in Channel, kind \in Filled : Receive(c, kind)
             \/ RxIsr \/ TakePower \/ McThread \/ TxAcks \/ Riva
             \/ UNCHANGED vars
      PROVE  Handling'
  <2>1. UNCHANGED <<rxVars, numFreeDesc>>
    BY <1>2 DEF Receive, RxIsr, TakePower, McThread, McReturn, McCall, McPut,
         McReplenish, EnterImps, SendEnter, LeaveImps, SetFull, TxAcks,
         McThreadOnly, Riva, RivaRefuses, RivaCollapses, RivaWakes, RivaSame, vars
  <2> QED BY <1>1, <2>1
<1>3. CASE TakeIsr
  <2>1. CASE driverReloadInProcessing
    BY <1>3, <2>1 DEF TakeIsr, Handling
  <2>2. CASE ~driverReloadInProcessing
    <3>1. /\ rxFor' = "isr"
          /\ \/ rxImps' /\ rx' = "pull" /\ todo' = Channels
             \/ ~rxImps' /\ rx' = "source"
      BY <1>3, <2>2 DEF TakeIsr
    <3> QED BY <3>1, TodoFacts DEF Handling
  <2> QED BY <2>1, <2>2
<1>4. CASE TakeAvail
  <2>1. rx' = "refill" /\ rxFor' = "avail" /\ todo' = Channels /\ ~rxImps'
    BY <1>4 DEF TakeAvail, Handling
  <2> QED BY <2>1, TodoFacts DEF Handling
<1>5. CASE ReadSource
  <2>1. /\ rxFor' = "isr" /\ ~rxImps'
        /\ rx' = IF todo' = <<>> THEN "enable" ELSE "clean"
    BY <1>5, SourceRead DEF ReadSource, Handling
  <2> QED BY <2>1 DEF Handling
<1>6. CASE CleanInt
  <2>1. rx' = "pull" /\ todo # <<>> /\ rxFor = "isr" /\ UNCHANGED <<rxFor, todo, rxImps>>
    BY <1>6 DEF CleanInt, Handling
  <2> QED BY <2>1 DEF Handling
<1>7. CASE Pull
  <2>1. rx' = "refill" /\ todo # <<>> /\ rxFor = "isr" /\ UNCHANGED <<rxFor, todo, rxImps>>
    BY <1>7, PullFacts DEF Pull
  <2> QED BY <2>1 DEF Handling
<1>8. ASSUME NEW ok \in BOOLEAN, EndRefill(ok), rx \in {"refill", "register"},
             rx = "register" => ok = FALSE
      PROVE  Handling'
  <2>1. CASE rxFor = "isr"
    <3>1. /\ todo # <<>> /\ rx' = "pull" /\ rxFor' = "isr"
          /\ UNCHANGED <<todo, rxImps>>
      BY <1>8, <2>1, EndRefillFacts
    <3> QED BY <3>1 DEF Handling
  <2>2. CASE rxFor # "isr"
    <3>1. /\ ~rxImps'
          /\ \/ todo' = <<"lo">> /\ rx' = "refill" /\ rxFor' = "avail"
             \/ todo' = <<>> /\ rx' = "flag" /\ rxFor' = "avail"
             \/ todo' = <<>> /\ rx' = "idle" /\ rxFor' = "none"
      BY <1>8, <2>2, EndRefillFacts
    <3> QED BY <3>1, TodoFacts DEF Handling
  <2> QED BY <2>1, <2>2
<1>9. CASE RefillFull
  BY <1>8, <1>9 DEF RefillFull
<1>10. CASE RefillWaiting
  <2>1. CASE freeRXPacket
    <3>1. rx = "refill" /\ UNCHANGED rxVars
      BY <1>10, <2>1 DEF RefillWaiting
    <3> QED BY <3>1 DEF Handling
  <2>2. CASE ~freeRXPacket
    BY <1>8, <1>10, <2>2 DEF RefillWaiting
  <2> QED BY <2>1, <2>2
<1>11. CASE RefillAlloc
  <2>1. /\ todo # <<>> /\ rx = "refill" /\ numFreeDesc[Head(todo)] > 0
        /\ UNCHANGED <<rxFor, todo, rxImps>>
        /\ rx' = "refill" \/ (rx' = "register" /\ numFreeDesc' = numFreeDesc)
    BY <1>11, AllocFacts
  <2> QED BY <2>1 DEF Handling
<1>12. CASE Register
  BY <1>8, <1>12 DEF Register
<1>13. CASE EndPull
  <2>1. rx = "pull" /\ rx' = "check" /\ UNCHANGED <<rxFor, todo, rxImps>>
    BY <1>13 DEF EndPull
  <2> QED BY <2>1 DEF Handling
<1>14. CASE EndChannel
  <2>1. /\ rxFor' = "isr" /\ rxImps' = rxImps
        /\ rx' = IF todo' = <<>> THEN IF rxImps THEN "flag" ELSE "enable"
                                 ELSE IF rxImps THEN "pull" ELSE "clean"
    BY <1>14 DEF EndChannel, Handling
  <2> QED BY <2>1 DEF Handling, Types
<1>15. CASE Enable
  <2>1. rx' = "control" /\ rx = "enable" /\ UNCHANGED <<rxFor, rxImps>>
    BY <1>15 DEF Enable
  <2> QED BY <2>1 DEF Handling
<1>16. CASE Control \/ Flag
  <2>1. rx' = "idle" /\ rxFor' = "none" /\ ~rxImps'
    BY <1>16 DEF Control, Flag, Idle
  <2> QED BY <2>1 DEF Handling
<1> QED BY <1>2, <1>3, <1>4, <1>5, <1>6, <1>7, <1>9, <1>10, <1>11, <1>12, <1>13,
           <1>14, <1>15, <1>16 DEF Next, RxThread

-----------------------------------------------------------------------------
(***************************************************************************)
(* The rings.                                                              *)
(***************************************************************************)

\* A ring that is left alone stays one.
LEMMA RingKept ==
  ASSUME NEW c \in Channel, Ring(c), desc'[c] = desc[c], dma'[c] = dma[c],
         head'[c] = head[c], tail'[c] = tail[c],
         numFreeDesc'[c] = numFreeDesc[c], Taken(c)' <=> Taken(c)
  PROVE  Ring(c)'
<1>1. PICK n \in Nat : RingHas(desc[c], dma[c], tail[c], numFreeDesc[c], n)
  BY DEF Ring
<1>2. RingHas(desc[c], dma[c], tail[c], numFreeDesc[c], n)'
  BY <1>1 DEF RingHas, At, Dist
<1>3. At(tail[c], numFreeDesc[c])' = At(tail[c], numFreeDesc[c])
  BY DEF At
<1> QED BY <1>2, <1>3 DEF Ring

\* A packet fills the descriptor at the tail.
LEMMA FillKeepsRings ==
  ASSUME Types, Rings, NEW c \in Channel, Fill(c), numFreeDesc[c] > 0,
         UNCHANGED <<dma, head, rx, rxFor, todo>>
  PROVE  Rings'
<1>1. /\ desc' = [desc EXCEPT ![c] = [desc[c] EXCEPT ![tail[c]] = "valid"]]
      /\ tail' = [tail EXCEPT ![c] = Next1(tail[c])]
      /\ numFreeDesc' = [numFreeDesc EXCEPT ![c] = numFreeDesc[c] - 1]
  BY FillFacts
<1>2. /\ desc[c] \in [Place -> Filled \cup {"valid", "empty"}]
      /\ dma[c] \in Place /\ tail[c] \in Place
      /\ numFreeDesc[c] \in 1 .. NumDesc
  BY DEF Types
<1>3. PICK n \in Nat : RingHas(desc[c], dma[c], tail[c], numFreeDesc[c], n)
  BY DEF Rings, Ring
<1>4. /\ RingHas([desc[c] EXCEPT ![tail[c]] = "valid"], dma[c], Next1(tail[c]),
                 numFreeDesc[c] - 1, n)
      /\ At(Next1(tail[c]), numFreeDesc[c] - 1) = At(tail[c], numFreeDesc[c])
  BY <1>2, <1>3, RingFilled
<1>5. /\ desc'[c] = [desc[c] EXCEPT ![tail[c]] = "valid"]
      /\ tail'[c] = Next1(tail[c]) /\ numFreeDesc'[c] = numFreeDesc[c] - 1
      /\ \A d \in Channel \ {c} : /\ desc'[d] = desc[d] /\ tail'[d] = tail[d]
                                  /\ numFreeDesc'[d] = numFreeDesc[d]
  BY <1>1 DEF Types
<1>6. \A d \in Channel : Taken(d)' <=> Taken(d)
  BY DEF Taken
<1>7. Ring(c)'
  <2>1. RingHas(desc[c], dma[c], tail[c], numFreeDesc[c], n)'
    BY <1>4, <1>5
  <2>2. At(tail[c], numFreeDesc[c])' = At(tail[c], numFreeDesc[c])
    BY <1>4, <1>5
  <2>3. At(tail[c], numFreeDesc[c]) = IF Taken(c) THEN Next1(head[c]) ELSE head[c]
    BY DEF Rings, Ring
  <2> QED BY <2>1, <2>2, <2>3, <1>6 DEF Ring
<1>8. \A d \in Channel \ {c} : Ring(d)'
  <2> TAKE d \in Channel \ {c}
  <2> QED BY <1>5, <1>6, RingKept DEF Rings
<1>9. \A d \in Channel : Ring(d)'
  BY <1>7, <1>8
<1> QED BY <1>9 DEF Rings

\* Neither ring moves, and the RX thread goes nowhere near the head.
LEMMA NoRingMoves ==
  ASSUME Rings, UNCHANGED <<ringVars>>, \A c \in Channel : ~Taken(c) /\ ~Taken(c)'
  PROVE  Rings'
<1>1. \A c \in Channel : Ring(c)'
  BY RingKept DEF Rings, ringVars
<1> QED BY <1>1 DEF Rings

\* The head goes on.
LEMMA EndRefillKeepsRings ==
  ASSUME Types, Handling, Rings, NEW ok \in BOOLEAN, EndRefill(ok),
         rx \in {"refill", "register"}, UNCHANGED <<desc, dma, tail, numFreeDesc>>
  PROVE  Rings'
<1>1. CASE rxFor = "isr"
  <2>1. PICK c \in Channel :
          /\ c = Head(todo) /\ rx' = "pull"
          /\ head' = [head EXCEPT ![c] = Next1(head[c])]
    BY <1>1, EndRefillFacts
  <2>2. /\ head'[c] = Next1(head[c])
        /\ \A d \in Channel \ {c} : head'[d] = head[d]
    BY <2>1 DEF Types
  <2>3. Taken(c) /\ \A d \in Channel : ~Taken(d)' /\ (d # c => ~Taken(d))
    BY <1>1, <2>1 DEF Taken
  <2>4. Ring(c)'
    <3>1. \E n \in Nat : RingHas(desc[c], dma[c], tail[c], numFreeDesc[c], n)'
      BY <2>1 DEF Rings, Ring
    <3>2. At(tail[c], numFreeDesc[c])' = Next1(head[c])
      BY <2>1, <2>3 DEF Rings, Ring
    <3> QED BY <2>1, <2>2, <2>3, <3>1, <3>2 DEF Ring
  <2>5. \A d \in Channel \ {c} : Ring(d)'
    BY <2>2, <2>3, RingKept DEF Rings
  <2> QED BY <2>4, <2>5 DEF Rings
<1>2. CASE rxFor # "isr"
  <2>1. head' = head /\ rxFor' # "isr"
    BY <1>2, EndRefillFacts
  <2> QED BY <1>2, <2>1, NoRingMoves DEF Taken, ringVars
<1> QED BY <1>1, <1>2

LEMMA RingsStep ==
  ASSUME Types, Handling, Rings, [Next]_vars
  PROVE  Rings'
<1>1. ASSUME NEW c \in Channel, NEW kind \in Filled, Receive(c, kind)
      PROVE  Rings'
  <2>1. /\ desc[c] \in [Place -> Filled \cup {"valid", "empty"}]
        /\ dma[c] \in Place /\ tail[c] \in Place
        /\ numFreeDesc[c] \in 0 .. NumDesc /\ desc[c][dma[c]] = "valid"
    BY <1>1 DEF Receive, Types
  <2>2. PICK n \in Nat : RingHas(desc[c], dma[c], tail[c], numFreeDesc[c], n)
    BY DEF Rings, Ring
  <2>3. RingHas([desc[c] EXCEPT ![dma[c]] = kind], Next1(dma[c]), tail[c],
                numFreeDesc[c], n + 1)
    BY <2>1, <2>2, RingReceives
  <2>4. /\ desc'[c] = [desc[c] EXCEPT ![dma[c]] = kind]
        /\ dma'[c] = Next1(dma[c])
        /\ \A d \in Channel \ {c} : desc'[d] = desc[d] /\ dma'[d] = dma[d]
    BY <1>1 DEF Receive, Types
  <2>5. /\ UNCHANGED <<head, tail, numFreeDesc>>
        /\ \A d \in Channel : Taken(d)' <=> Taken(d)
    BY <1>1 DEF Receive, rxVars, Taken
  <2>6. Ring(c)'
    <3>1. RingHas(desc'[c], dma'[c], tail'[c], numFreeDesc'[c], n + 1) /\ n + 1 \in Nat
      BY <2>3, <2>4, <2>5
    <3>2. At(tail[c], numFreeDesc[c])' = IF Taken(c) THEN Next1(head[c]) ELSE head[c]
      BY <2>5 DEF Rings, Ring
    <3> QED BY <2>5, <3>1, <3>2 DEF Ring
  <2>7. \A d \in Channel \ {c} : Ring(d)'
    BY <2>4, <2>5, RingKept DEF Rings
  <2> QED BY <2>6, <2>7 DEF Rings
<1>2. CASE UNCHANGED <<ringVars, rxVars>>
  <2>1. \A c \in Channel : Taken(c)' <=> Taken(c)
    BY <1>2 DEF rxVars, Taken
  <2>2. \A c \in Channel : Ring(c)'
    BY <1>2, <2>1, RingKept DEF Rings, ringVars
  <2> QED BY <2>2 DEF Rings
<1>3. CASE RxIsr \/ TakePower \/ McThread \/ TxAcks \/ Riva \/ UNCHANGED vars
  <2>1. UNCHANGED <<ringVars, rxVars>>
    BY <1>3 DEF RxIsr, TakePower, McThread, McReturn, McCall, McPut,
         McReplenish, EnterImps, SendEnter, LeaveImps, SetFull, TxAcks,
         McThreadOnly, Riva, RivaRefuses, RivaCollapses, RivaWakes, RivaSame, vars
  <2> QED BY <1>2, <2>1
<1>4. CASE \/ TakeIsr \/ TakeAvail \/ ReadSource \/ CleanInt \/ EndPull
           \/ EndChannel \/ Enable \/ Control \/ Flag
  <2>1. UNCHANGED ringVars
    BY <1>4 DEF TakeIsr, TakeAvail, ReadSource, CleanInt, EndPull, EndChannel,
         Enable, Control, Flag
  <2>2. /\ rx \notin {"refill", "register"}
        /\ rx' \notin {"refill", "register"} \/ rxFor' # "isr"
    BY <1>4 DEF TakeIsr, TakeAvail, ReadSource, CleanInt, EndPull, EndChannel,
         Enable, Control, Flag, Idle
  <2> QED BY <2>1, <2>2, NoRingMoves DEF Taken
<1>5. CASE Pull
  <2>1. PICK c \in Channel :
          /\ c = Head(todo) /\ rx = "pull" /\ rxFor = "isr"
          /\ desc' = [desc EXCEPT ![c] = [desc[c] EXCEPT ![head[c]] = "empty"]]
          /\ numFreeDesc' = [numFreeDesc EXCEPT ![c] = numFreeDesc[c] + 1]
    BY <1>5, PullFacts
  <2>2. /\ rx' = "refill" /\ UNCHANGED <<dma, head, tail, rxFor, todo>>
    BY <1>5 DEF Pull
  <2>3. PICK n \in Nat :
          /\ RingHas(desc'[c], dma[c], tail[c], numFreeDesc[c] + 1, n)
          /\ At(tail[c], numFreeDesc[c] + 1) = Next1(head[c])
    BY <1>5, <2>1, PullFacts
  <2>4. /\ numFreeDesc'[c] = numFreeDesc[c] + 1
        /\ \A d \in Channel \ {c} : /\ desc'[d] = desc[d]
                                    /\ numFreeDesc'[d] = numFreeDesc[d]
    BY <2>1 DEF Types
  <2>5. /\ Taken(c)'
        /\ \A d \in Channel \ {c} : ~Taken(d) /\ ~Taken(d)'
    BY <2>1, <2>2 DEF Taken
  <2>6. Ring(c)'
    BY <2>2, <2>3, <2>4, <2>5 DEF Ring
  <2>7. \A d \in Channel \ {c} : Ring(d)'
    BY <2>2, <2>4, <2>5, RingKept DEF Rings
  <2> QED BY <2>6, <2>7 DEF Rings
<1>6. CASE RefillFull \/ Register
  <2>1. \E ok \in BOOLEAN : EndRefill(ok)
    BY <1>6 DEF RefillFull, Register
  <2>2. /\ rx \in {"refill", "register"} /\ UNCHANGED <<desc, dma, tail, numFreeDesc>>
    BY <1>6 DEF RefillFull, Register
  <2> QED BY <2>1, <2>2, EndRefillKeepsRings
<1>7. CASE RefillWaiting
  <2>1. /\ rx = "refill" /\ numFreeDesc[Head(todo)] > 0 /\ Head(todo) \in Channel
    BY <1>7, TodoFacts DEF RefillWaiting, Handling
  <2>2. CASE freeRXPacket
    BY <1>7, <2>1, <2>2, FillKeepsRings DEF RefillWaiting, rxVars
  <2>3. CASE ~freeRXPacket
    BY <1>7, <2>1, <2>3, EndRefillKeepsRings DEF RefillWaiting
  <2> QED BY <2>2, <2>3
<1>8. CASE RefillAlloc
  <2>1. /\ rx = "refill" /\ numFreeDesc[Head(todo)] > 0 /\ Head(todo) \in Channel
        /\ UNCHANGED <<dma, head, rxFor, todo>>
    BY <1>8, AllocFacts
  <2>2. CASE rx' = "register" /\ UNCHANGED <<desc, tail, numFreeDesc>>
    <3>1. \A c \in Channel : Taken(c)' <=> Taken(c)
      BY <2>1, <2>2 DEF Taken
    <3>2. \A c \in Channel : Ring(c)'
      BY <2>1, <2>2, <3>1, RingKept DEF Rings
    <3> QED BY <3>2 DEF Rings
  <2>3. CASE Fill(Head(todo)) /\ rx' = "refill"
    BY <2>1, <2>3, FillKeepsRings
  <2> QED BY <1>8, <2>2, <2>3, AllocFacts
<1> QED BY <1>1, <1>3, <1>4, <1>5, <1>6, <1>7, <1>8 DEF Next, RxThread

-----------------------------------------------------------------------------
(***************************************************************************)
(* The power state.                                                        *)
(***************************************************************************)

\* The message of the power state among the others
LEMMA OthersQueued ==
  ASSUME Types, \/ rxQ' = rxQ \/ rxQ' = Append(rxQ, "isr")
                \/ rxQ' = Append(rxQ, "avail")
  PROVE  /\ NonePending => NonePending'
         /\ OnePending => OnePending'
<1>1. \A i \in Nat : Pending(i)' => Pending(i)
  <2>1. ASSUME NEW m \in {"isr", "avail"}, rxQ' = Append(rxQ, m), NEW i \in Nat,
               Pending(i)'
        PROVE  Pending(i)
    <3>1. /\ Len(rxQ) \in Nat /\ Len(rxQ') = Len(rxQ) + 1
          /\ \A k \in 1 .. Len(rxQ) : rxQ'[k] = rxQ[k]
          /\ rxQ'[Len(rxQ) + 1] = m
      BY <2>1 DEF Types
    <3>2. i \in 1 .. Len(rxQ) + 1 /\ rxQ'[i] = "power"
      BY <2>1, <3>1 DEF Pending
    <3>3. i # Len(rxQ) + 1
      BY <3>1, <3>2
    <3> QED BY <3>1, <3>2, <3>3 DEF Pending
  <2> QED BY <2>1 DEF Pending
<1> QED BY <1>1 DEF NonePending, OnePending

LEMMA HeadTaken ==
  ASSUME Types, rxQ # <<>>, rxQ' = Tail(rxQ)
  PROVE  /\ NonePending => NonePending'
         /\ OnePending => OnePending'
         /\ OnePending /\ Head(rxQ) = "power" => NonePending'
<1>1. \A i \in Nat : Pending(i)' => i + 1 \in Nat /\ Pending(i + 1) /\ i > 0
  <2>1. rxQ \in Seq({"isr", "avail", "power"}) /\ rxQ # <<>>
    BY DEF Types
  <2>2. /\ Len(rxQ') = Len(rxQ) - 1 /\ Len(rxQ) \in Nat
        /\ \A i \in 1 .. Len(rxQ) - 1 : rxQ'[i] = rxQ[i + 1]
    BY <2>1
  <2> QED BY <2>2 DEF Pending
<1>2. Head(rxQ) = "power" => Pending(1)
  BY DEF Pending, Types
<1>3. NonePending => NonePending'
  BY <1>1 DEF NonePending
<1>4. OnePending => OnePending'
  BY <1>1 DEF OnePending
<1>5. OnePending /\ Head(rxQ) = "power" => NonePending'
  <2> SUFFICES ASSUME OnePending, Head(rxQ) = "power", NEW i \in Nat
               PROVE  ~Pending(i)'
    BY DEF NonePending
  <2>1. Pending(i)' => i + 1 = 1 /\ i > 0
    BY <1>1, <1>2 DEF OnePending
  <2> QED BY <2>1
<1> QED BY <1>3, <1>4, <1>5

LEMMA PowerQueued ==
  ASSUME Types, NonePending, rxQ' = Append(rxQ, "power")
  PROVE  OnePending'
<1>1. \A i \in Nat : Pending(i)' => i = Len(rxQ) + 1
  BY DEF Pending, Types, NonePending
<1> QED BY <1>1 DEF OnePending

\* A step that leaves the power state alone
LEMMA PowerKept ==
  ASSUME Types, Power, UNCHANGED powerVars,
         NonePending => NonePending', OnePending => OnePending',
         \/ mc' = mc
         \/ /\ mc \notin {"wait", "setFull"} /\ mc' \notin {"wait", "setFull"},
         \/ UNCHANGED <<rxFor, rxImps>>
         \/ ~(rxFor' = "isr" /\ ~rxImps')
         \/ hostPowerState = "FULL"
  PROVE  Power'
<1>1. UNCHANGED <<hostPowerState, riva, txAck, setPowerStateEvent, psm>>
  BY DEF powerVars
<1>2. hostPowerState = "FULL" =>
        psm = "full" /\ ~txAck /\ (mc = "wait" => ~setPowerStateEvent)
  BY DEF Power
<1>3. rxFor' = "isr" /\ ~rxImps' =>
        psm = "full" /\ ~txAck /\ (mc = "wait" => ~setPowerStateEvent)
  BY <1>2 DEF Power
<1>4. mc' = "wait" <=> mc = "wait"
  OBVIOUS
<1>5. mc' = "setFull" <=> mc = "setFull"
  OBVIOUS
<1> QED BY <1>1, <1>3, <1>4, <1>5 DEF Power

LEMMA PowerStep ==
  ASSUME Types, Handling, Rings, Power, [Next]_vars
  PROVE  Power'
<1>1. CASE UNCHANGED <<powerVars, rxQ, mc, rxFor, rxImps>>
  <2>1. (NonePending => NonePending') /\ (OnePending => OnePending')
    BY <1>1, OthersQueued
  <2> QED BY <1>1, <2>1, PowerKept
<1>2. ASSUME \/ \E c \in Channel, kind \in Filled : Receive(c, kind)
             \/ ReadSource \/ CleanInt \/ EndPull \/ EndChannel \/ Enable
             \/ UNCHANGED vars
      PROVE  Power'
  <2>1. UNCHANGED <<powerVars, rxQ, mc, rxFor, rxImps>>
    BY <1>2 DEF Receive, ReadSource, CleanInt, EndPull, EndChannel, Enable,
         RxThreadOnly, vars, rxVars
  <2> QED BY <1>1, <2>1
<1>3. CASE RxIsr
  <2>1. UNCHANGED <<powerVars, mc, rxFor, rxImps>> /\ rxQ' = Append(rxQ, "isr")
    BY <1>3 DEF RxIsr, rxVars
  <2> QED BY <2>1, OthersQueued, PowerKept
<1>4. CASE TakeIsr
  <2>1. /\ UNCHANGED <<powerVars, mc>> /\ rxQ' = Tail(rxQ) /\ rxQ # <<>>
        /\ \/ UNCHANGED <<rxFor, rxImps>>
           \/ rxImps' <=> hostPowerState = "IMPS"
    BY <1>4 DEF TakeIsr
  <2>2. hostPowerState # "IMPS" => hostPowerState = "FULL"
    BY DEF Types
  <2> QED BY <2>1, <2>2, HeadTaken, PowerKept
<1>5. CASE TakeAvail
  <2>1. /\ UNCHANGED <<powerVars, mc>> /\ rxQ' = Tail(rxQ) /\ rxQ # <<>>
        /\ rxFor' # "isr"
    BY <1>5 DEF TakeAvail
  <2> QED BY <2>1, HeadTaken, PowerKept
<1>6. CASE TakePower
  <2>1. /\ UNCHANGED <<mc, rxFor, rxImps, hostPowerState, riva,
                       setPowerStateEvent, psm>>
        /\ rxQ' = Tail(rxQ) /\ rxQ # <<>> /\ Head(rxQ) = "power" /\ txAck' = TRUE
        /\ rxFor = "none"
    BY <1>6 DEF TakePower, rxVars, Handling
  <2>2. ~NonePending
    BY <2>1 DEF NonePending, Pending, Types
  <2>3. mc = "wait" /\ OnePending /\ ~setPowerStateEvent /\ psm = "full"
    BY <2>2 DEF Power
  <2>4. NonePending' /\ OnePending'
    BY <2>1, <2>3, HeadTaken
  <2> QED BY <2>1, <2>3, <2>4 DEF Power
<1>7. CASE Pull
  <2>1. UNCHANGED <<powerVars, mc, rxFor, rxImps>>
    BY <1>7 DEF Pull
  <2>2. rxQ' = rxQ \/ rxQ' = Append(rxQ, "avail")
    BY <1>7, PullPool, PoolBecomes
  <2> QED BY <2>1, <2>2, OthersQueued, PowerKept
<1>8. CASE RefillFull \/ Register
  <2>1. /\ \E ok \in BOOLEAN : EndRefill(ok)
        /\ rx \in {"refill", "register"} /\ UNCHANGED <<powerVars, mc, rxQ>>
    BY <1>8 DEF RefillFull, Register, RxThreadOnly
  <2>2. UNCHANGED <<rxFor, rxImps>> \/ rxFor' # "isr"
    BY <2>1, EndRefillFacts
  <2> QED BY <2>1, <2>2, OthersQueued, PowerKept
<1>9. CASE RefillWaiting
  <2>1. rx = "refill" /\ UNCHANGED <<powerVars, mc, rxQ>>
    BY <1>9 DEF RefillWaiting, RxThreadOnly
  <2>2. UNCHANGED <<rxFor, rxImps>> \/ rxFor' # "isr"
    BY <1>9, <2>1, EndRefillFacts DEF RefillWaiting, rxVars
  <2> QED BY <2>1, <2>2, OthersQueued, PowerKept
<1>10. CASE RefillAlloc
  <2>1. UNCHANGED <<powerVars, mc, rxFor, rxImps>>
    BY <1>10, AllocFacts
  <2>2. rxQ' = rxQ \/ rxQ' = Append(rxQ, "avail")
    BY <1>10, AllocFacts, PoolBecomes
  <2> QED BY <2>1, <2>2, OthersQueued, PowerKept
<1>11. CASE Control \/ Flag
  <2>1. /\ UNCHANGED <<powerVars, mc, rxQ>> /\ rxFor' = "none"
    BY <1>11 DEF Control, Flag, Idle, RxThreadOnly
  <2> QED BY <2>1, OthersQueued, PowerKept
<1>12. CASE McReturn \/ McCall \/ McPut \/ McReplenish
  <2>1. /\ UNCHANGED <<powerVars, rxFor, rxImps>>
        /\ mc \notin {"wait", "setFull"} /\ mc' \notin {"wait", "setFull"}
    BY <1>12 DEF McReturn, McCall, McPut, McReplenish, McThreadOnly, PowerSame, rxVars
  <2>2. rxQ' = rxQ \/ rxQ' = Append(rxQ, "avail")
    BY <1>12 DEF McReturn, McCall, McPut, McReplenish, PoolIs
  <2> QED BY <2>1, <2>2, OthersQueued, PowerKept
<1>13. CASE EnterImps
  <2>1. /\ mc = "idle" /\ psm = "full" /\ mc' = "wait" /\ hostPowerState' = "IMPS"
        /\ setPowerStateEvent' = FALSE /\ rxQ' = Append(rxQ, "power")
        /\ UNCHANGED <<txAck, psm, riva, rxFor, rxImps>>
    BY <1>13 DEF EnterImps, McThreadOnly, rxVars
  <2>2. ~txAck /\ NonePending
    BY <2>1 DEF Power
  <2>3. OnePending'
    BY <2>1, <2>2, PowerQueued
  <2> QED BY <2>1, <2>2, <2>3 DEF Power
<1>14. CASE TxAcks
  <2>1. /\ txAck /\ txAck' = FALSE /\ setPowerStateEvent' = TRUE
        /\ UNCHANGED <<rxQ, hostPowerState, psm, mc, riva, rxFor, rxImps>>
    BY <1>14 DEF TxAcks, McThreadOnly, rxVars
  <2>2. mc = "wait" /\ NonePending /\ OnePending /\ ~(rxFor = "isr" /\ ~rxImps)
    BY <2>1 DEF Power
  <2>3. NonePending' /\ OnePending'
    BY <2>1, <2>2, OthersQueued
  <2> QED BY <2>1, <2>2, <2>3 DEF Power
<1>15. CASE SendEnter
  <2>1. /\ mc = "wait" /\ setPowerStateEvent /\ mc' = "idle" /\ psm' = "entering"
        /\ UNCHANGED <<rxQ, hostPowerState, txAck, setPowerStateEvent, riva,
                       rxFor, rxImps>>
    BY <1>15 DEF SendEnter, Acked, McThreadOnly, rxVars
  <2>2. /\ NonePending /\ ~txAck /\ hostPowerState # "FULL" /\ psm = "full"
        /\ ~(rxFor = "isr" /\ ~rxImps)
    BY <2>1 DEF Power
  <2>3. NonePending'
    BY <2>1, <2>2, OthersQueued
  <2> QED BY <2>1, <2>2, <2>3 DEF Power
<1>16. CASE LeaveImps
  <2>1. /\ mc = "idle" /\ psm = "answered" /\ mc' = "setFull"
        /\ UNCHANGED <<rxQ, hostPowerState, txAck, setPowerStateEvent, psm,
                       riva, rxFor, rxImps>>
    BY <1>16 DEF LeaveImps, McThreadOnly, rxVars
  <2>2. NonePending /\ ~txAck /\ hostPowerState # "FULL"
    BY <2>1 DEF Power
  <2>3. NonePending'
    BY <2>1, <2>2, OthersQueued
  <2> QED BY <2>1, <2>2, <2>3 DEF Power
<1>17. CASE SetFull
  <2>1. /\ mc = "setFull" /\ mc' = "idle" /\ hostPowerState' = "FULL"
        /\ psm' = "full"
        /\ UNCHANGED <<rxQ, txAck, setPowerStateEvent, riva, rxFor, rxImps>>
    BY <1>17 DEF SetFull, McThreadOnly, rxVars
  <2>2. NonePending /\ ~txAck /\ psm = "answered"
    BY <2>1 DEF Power
  <2>3. NonePending'
    BY <2>1, <2>2, OthersQueued
  <2> QED BY <2>1, <2>2, <2>3 DEF Power
<1>18. CASE Riva
  <2>1. /\ UNCHANGED <<rxQ, hostPowerState, txAck, setPowerStateEvent, mc,
                       rxFor, rxImps>>
        /\ \/ psm = "entering" /\ psm' = "answered" /\ riva' = riva
           \/ psm = "entering" /\ psm' = "asleep" /\ riva' = "collapsed"
           \/ psm = "asleep" /\ psm' = "answered" /\ riva' = "on"
    BY <1>18 DEF Riva, RivaRefuses, RivaCollapses, RivaWakes, RivaSame, rxVars
  <2>2. (NonePending => NonePending') /\ (OnePending => OnePending')
    BY <2>1, OthersQueued
  <2> QED BY <2>1, <2>2 DEF Power
<1> QED BY <1>2, <1>3, <1>4, <1>5, <1>6, <1>7, <1>8, <1>9, <1>10, <1>11, <1>12,
           <1>13, <1>14, <1>15, <1>16, <1>17, <1>18 DEF Next, RxThread, McThread

-----------------------------------------------------------------------------
(***************************************************************************)
(* The interrupt.                                                          *)
(***************************************************************************)

\* A message stays queued until it is taken.
LEMMA QueuedStays ==
  ASSUME Types, NEW msg \in {"isr", "avail", "power"},
         NEW m \in {"isr", "avail", "power"},
         \/ rxQ' = rxQ \/ rxQ' = Append(rxQ, m)
         \/ rxQ # <<>> /\ rxQ' = Tail(rxQ) /\ Head(rxQ) # msg
  PROVE  /\ InQueue(msg) => InQueue(msg)'
         /\ rxQ' = Append(rxQ, msg) => InQueue(msg)'
<1>1. rxQ \in Seq({"isr", "avail", "power"}) /\ Len(rxQ) \in Nat
  BY DEF Types
<1>2. CASE rxQ' = rxQ
  <2>1. rxQ # Append(rxQ, msg)
    BY <1>1
  <2> QED BY <1>2, <2>1 DEF InQueue
<1>3. ASSUME NEW k \in {"isr", "avail", "power"}, rxQ' = Append(rxQ, k)
      PROVE  (InQueue(msg) => InQueue(msg)') /\ (k = msg => InQueue(msg)')
  <2>1. /\ Len(rxQ') = Len(rxQ) + 1 /\ rxQ'[Len(rxQ) + 1] = k
        /\ \A i \in 1 .. Len(rxQ) : rxQ'[i] = rxQ[i]
    BY <1>1, <1>3
  <2>2. \A i \in 1 .. Len(rxQ) : i \in 1 .. Len(rxQ) + 1
    BY <1>1
  <2>3. Len(rxQ) + 1 \in 1 .. Len(rxQ) + 1
    BY <1>1
  <2> QED BY <2>1, <2>2, <2>3 DEF InQueue
<1>4. CASE rxQ # <<>> /\ rxQ' = Tail(rxQ) /\ Head(rxQ) # msg
  <2>1. /\ Len(rxQ') = Len(rxQ) - 1 /\ Head(rxQ) = rxQ[1]
        /\ \A i \in 1 .. Len(rxQ) - 1 : rxQ'[i] = rxQ[i + 1]
    BY <1>1, <1>4
  <2>2. ASSUME NEW i \in 1 .. Len(rxQ), rxQ[i] = msg
        PROVE  InQueue(msg)'
    <3>1. i # 1
      BY <1>4, <2>1, <2>2
    <3>2. i - 1 \in 1 .. Len(rxQ) - 1 /\ i - 1 + 1 = i
      BY <1>1, <3>1
    <3>3. rxQ'[i - 1] = msg
      BY <2>1, <2>2, <3>2
    <3> QED BY <2>1, <3>2, <3>3 DEF InQueue
  <2>3. rxQ' # Append(rxQ, msg)
    BY <1>1, <2>1
  <2> QED BY <2>2, <2>3 DEF InQueue
<1> QED BY <1>2, <1>3, <1>4

LEMMA InterruptKept ==
  ASSUME InterruptAccounted, irqDepth' = irqDepth,
         InQueue("isr") => InQueue("isr")',
         rxFor = "isr" /\ rx # "control" => rxFor' = "isr" /\ rx' # "control",
         rxIntDisabledByIMPS => rxIntDisabledByIMPS',
         driverReloadInProcessing => driverReloadInProcessing'
  PROVE  InterruptAccounted'
BY DEF InterruptAccounted

LEMMA InterruptStep ==
  ASSUME Types, Handling, Rings, InterruptAccounted, [Next]_vars
  PROVE  InterruptAccounted'
<1> USE DEF intVars, rxVars
<1>1. ASSUME \/ \E c \in Channel, kind \in Filled : Receive(c, kind)
             \/ CleanInt \/ EndPull \/ TxAcks \/ SendEnter \/ SetFull
             \/ Riva \/ UNCHANGED vars
      PROVE  InterruptAccounted'
  <2>1. /\ UNCHANGED <<irqDepth, rxQ, rxFor, rxIntDisabledByIMPS,
                       driverReloadInProcessing>>
        /\ rx' = rx \/ rx' \in {"pull", "check"}
    BY <1>1 DEF Receive, CleanInt, EndPull, TxAcks, SendEnter, SetFull, Riva,
         RivaRefuses, RivaCollapses, RivaWakes, RivaSame, McThreadOnly, vars
  <2> QED BY <2>1, QueuedStays, InterruptKept
<1>2. CASE RxIsr
  <2>1. rxQ' = Append(rxQ, "isr")
    BY <1>2 DEF RxIsr
  <2> QED BY <2>1, QueuedStays DEF InterruptAccounted
<1>3. CASE TakeIsr
  <2>1. UNCHANGED <<irqDepth, rxIntDisabledByIMPS, driverReloadInProcessing>>
    BY <1>3 DEF TakeIsr
  <2>2. \/ driverReloadInProcessing
        \/ rxFor' = "isr" /\ rx' # "control"
    BY <1>3 DEF TakeIsr
  <2> QED BY <2>1, <2>2 DEF InterruptAccounted
<1>4. CASE TakeAvail \/ TakePower
  <2>1. /\ UNCHANGED <<irqDepth, rxIntDisabledByIMPS, driverReloadInProcessing>>
        /\ rxQ # <<>> /\ rxQ' = Tail(rxQ) /\ Head(rxQ) # "isr" /\ rx = "idle"
    BY <1>4 DEF TakeAvail, TakePower
  <2>2. InQueue("isr") => InQueue("isr")'
    BY <2>1, QueuedStays
  <2>3. rxFor # "isr"
    BY <2>1 DEF Handling
  <2> QED BY <2>1, <2>2, <2>3, InterruptKept
<1>5. CASE ReadSource
  <2>1. /\ UNCHANGED <<irqDepth, rxQ, rxFor, rxIntDisabledByIMPS,
                       driverReloadInProcessing>>
        /\ rx' # "control"
    BY <1>5 DEF ReadSource
  <2> QED BY <2>1, QueuedStays, InterruptKept
<1>6. CASE Pull
  <2>1. /\ UNCHANGED <<irqDepth, rxFor, rxIntDisabledByIMPS,
                       driverReloadInProcessing>>
        /\ rx' # "control"
    BY <1>6 DEF Pull
  <2>2. rxQ' = rxQ \/ rxQ' = Append(rxQ, "avail")
    BY <1>6, PullPool, PoolBecomes
  <2> QED BY <2>1, <2>2, QueuedStays, InterruptKept
<1>7. CASE RefillFull \/ Register
  <2>1. /\ \E ok \in BOOLEAN : EndRefill(ok)
        /\ rx \in {"refill", "register"}
        /\ UNCHANGED <<irqDepth, rxQ, rxIntDisabledByIMPS, driverReloadInProcessing>>
    BY <1>7 DEF RefillFull, Register
  <2>2. rxFor = "isr" => rxFor' = "isr" /\ rx' # "control"
    BY <2>1, EndRefillFacts
  <2> QED BY <2>1, <2>2, QueuedStays, InterruptKept
<1>8. CASE RefillWaiting
  <2>1. /\ rx = "refill"
        /\ UNCHANGED <<irqDepth, rxQ, rxIntDisabledByIMPS, driverReloadInProcessing>>
    BY <1>8 DEF RefillWaiting
  <2>2. rxFor = "isr" => rxFor' = "isr" /\ rx' # "control"
    BY <1>8, <2>1, EndRefillFacts DEF RefillWaiting
  <2> QED BY <2>1, <2>2, QueuedStays, InterruptKept
<1>9. CASE RefillAlloc
  <2>1. /\ UNCHANGED <<irqDepth, rxFor, rxIntDisabledByIMPS,
                       driverReloadInProcessing>>
        /\ rx' # "control"
    BY <1>9, AllocFacts
  <2>2. rxQ' = rxQ \/ rxQ' = Append(rxQ, "avail")
    BY <1>9, AllocFacts, PoolBecomes
  <2> QED BY <2>1, <2>2, QueuedStays, InterruptKept
<1>10. CASE EndChannel
  <2>1. /\ UNCHANGED <<irqDepth, rxQ, rxFor, rxIntDisabledByIMPS>>
        /\ driverReloadInProcessing => driverReloadInProcessing'
        /\ rx' # "control"
    BY <1>10 DEF EndChannel
  <2> QED BY <2>1, QueuedStays, InterruptKept
<1>11. CASE Enable \/ LeaveImps
  <2>1. irqDepth' = 0 \/ ~rxIntDisabledByIMPS
    BY <1>11 DEF Enable, LeaveImps, Enabled, Types
  <2>2. CASE irqDepth' = 0
    BY <2>2 DEF InterruptAccounted
  <2>3. CASE irqDepth' # 0
    <3>1. /\ ~rxIntDisabledByIMPS /\ LeaveImps
          /\ UNCHANGED <<irqDepth, rxQ, rxFor, rx, driverReloadInProcessing>>
      BY <1>11, <2>1, <2>3 DEF Enable, LeaveImps, Enabled, McThreadOnly, Types
    <3> QED BY <3>1, QueuedStays, InterruptKept
  <2> QED BY <2>2, <2>3
<1>12. CASE Control
  <2>1. /\ UNCHANGED <<irqDepth, rxQ, rxIntDisabledByIMPS, driverReloadInProcessing>>
        /\ rx = "control"
    BY <1>12 DEF Control
  <2> QED BY <2>1, QueuedStays, InterruptKept
<1>13. CASE Flag
  BY <1>13 DEF Flag, InterruptAccounted
<1>14. CASE McReturn \/ McCall \/ McPut \/ McReplenish
  <2>1. UNCHANGED <<irqDepth, rxFor, rx, rxIntDisabledByIMPS,
                    driverReloadInProcessing>>
    BY <1>14 DEF McReturn, McCall, McPut, McReplenish, McThreadOnly, PowerSame
  <2>2. rxQ' = rxQ \/ rxQ' = Append(rxQ, "avail")
    BY <1>14 DEF McReturn, McCall, McPut, McReplenish, PoolIs
  <2> QED BY <2>1, <2>2, QueuedStays, InterruptKept
<1>15. CASE EnterImps
  <2>1. /\ UNCHANGED <<irqDepth, rxFor, rx, rxIntDisabledByIMPS,
                       driverReloadInProcessing>>
        /\ rxQ' = Append(rxQ, "power")
    BY <1>15 DEF EnterImps, McThreadOnly
  <2> QED BY <2>1, QueuedStays, InterruptKept
<1> QED BY <1>1, <1>2, <1>3, <1>4, <1>5, <1>6, <1>7, <1>8, <1>9, <1>10, <1>11,
           <1>12, <1>13, <1>14, <1>15 DEF Next, RxThread, McThread

-----------------------------------------------------------------------------
(***************************************************************************)
(* Frames and their interrupt status, without IMPS.                        *)
(***************************************************************************)

\* The search for a lost position never finds another one: see HeadInSync.
LEMMA HeadIsInSync ==
  ASSUME Types, Rings, NEW c \in Channel, ~Taken(c), HasFrame(c)
  PROVE  desc[c][head[c]] \in Filled
<1>1. NumDesc \in Nat \ {0}
  BY SizeAssumption
<1>2. /\ desc[c] \in [Place -> Filled \cup {"valid", "empty"}]
      /\ head[c] \in Place /\ tail[c] \in Place
      /\ numFreeDesc[c] \in 0 .. NumDesc
      /\ head[c] = At(tail[c], numFreeDesc[c])
  BY DEF Types, Rings, Ring
<1>3. PICK n \in Nat : RingHas(desc[c], dma[c], tail[c], numFreeDesc[c], n)
  BY DEF Rings, Ring
<1>4. PICK i \in Place : desc[c][i] \in Filled
  BY DEF HasFrame
<1>5. /\ ~(Dist(tail[c], i) < numFreeDesc[c])
      /\ ~(Dist(tail[c], i) >= numFreeDesc[c] + n)
  BY <1>3, <1>4 DEF RingHas, Filled
<1>6. Dist(tail[c], i) \in Nat /\ Dist(tail[c], i) < NumDesc
  BY <1>1, <1>2 DEF Dist, Place
<1>7. n > 0 /\ numFreeDesc[c] < NumDesc
  BY <1>1, <1>2, <1>5, <1>6
<1>8. Dist(tail[c], head[c]) = numFreeDesc[c]
  BY <1>1, <1>2, <1>7 DEF Dist, At, Place
<1>9. desc[c][head[c]] # "empty" /\ desc[c][head[c]] # "valid"
  BY <1>2, <1>3, <1>7, <1>8 DEF RingHas
<1> QED BY <1>2, <1>9

\* A packet that goes into a ring is no frame.
LEMMA FillKeepsFrames ==
  ASSUME Types, Rings, NEW c \in Channel, Fill(c), numFreeDesc[c] > 0
  PROVE  \A d \in Channel : HasFrame(d)' <=> HasFrame(d)
<1>1. /\ desc[c] \in [Place -> Filled \cup {"valid", "empty"}]
      /\ dma[c] \in Place /\ tail[c] \in Place
      /\ numFreeDesc[c] \in 1 .. NumDesc
  BY DEF Types
<1>2. PICK n \in Nat : RingHas(desc[c], dma[c], tail[c], numFreeDesc[c], n)
  BY DEF Rings, Ring
<1>3. desc[c][tail[c]] = "empty"
  BY <1>1, <1>2, RingFilled
<1>4. /\ desc'[c] = [desc[c] EXCEPT ![tail[c]] = "valid"]
      /\ \A d \in Channel \ {c} : desc'[d] = desc[d]
  <2>1. desc' = [desc EXCEPT ![c] = [desc[c] EXCEPT ![tail[c]] = "valid"]]
    BY FillFacts
  <2> QED BY <2>1 DEF Types
<1>5. \A i \in Place : desc'[c][i] \in Filled <=> desc[c][i] \in Filled
  BY <1>1, <1>3, <1>4 DEF Filled
<1> QED BY <1>4, <1>5 DEF HasFrame

LEMMA AccountedKept ==
  ASSUME NEW c \in Channel, Accounted(c), HasFrame(c)' <=> HasFrame(c),
         c \in intSrc' <=> c \in intSrc, Serving(c)' <=> Serving(c),
         Serving(c) /\ rx # "check" => rx' # "check",
         frameCount' = frameCount \/ ~Serving(c),
         numFragmentCurrentChain'[c] = numFragmentCurrentChain[c]
  PROVE  Accounted(c)'
BY DEF Accounted

\* Where rings and statuses stay and nobody begins or ends serving
LEMMA ServiceKept ==
  ASSUME Service, UNCHANGED <<hostPowerState, rxImps, intSrc,
           driverReloadInProcessing, numFragmentCurrentChain, frameCount>>,
         left'.imps = left.imps, ~rxIntDisabledByIMPS',
         rx' \notin {"flag", "clean", "check"} \/ rx' = rx,
         \A c \in Channel : HasFrame(c)' <=> HasFrame(c),
         \A c \in Channel : Serving(c)' <=> Serving(c),
         rx' = "clean" \/ rxFor' = "isr" => todo' = todo /\ rxFor' = rxFor
  PROVE  Service'
<1>1. \A c \in Channel : Accounted(c)'
  <2> TAKE c \in Channel
  <2>1. Serving(c) /\ rx # "check" => rx' # "check"
    BY DEF Serving
  <2> QED BY <2>1, AccountedKept DEF Service
<1> QED BY <1>1 DEF Service

LEMMA ServiceStep ==
  ASSUME Types, Handling, Rings, Power, Service, [Next]_vars
  PROVE  Service'
<1> USE DEF ringVars, intVars, rxVars, powerVars
<1>1. ASSUME NEW k \in Channel, NEW kind \in Filled, Receive(k, kind)
      PROVE  Service'
  <2>1. /\ UNCHANGED <<hostPowerState, rxImps, rx, rxFor, todo, frameCount,
             numFragmentCurrentChain, rxIntDisabledByIMPS,
             driverReloadInProcessing>>
        /\ intSrc' = intSrc \cup {k} /\ left'.imps = left.imps
    BY <1>1 DEF Receive, Types, Situation, Filled
  <2>2. HasFrame(k)' /\ \A d \in Channel \ {k} : HasFrame(d)' <=> HasFrame(d)
    <3>1. /\ desc' = [desc EXCEPT ![k] = [desc[k] EXCEPT ![dma[k]] = kind]]
          /\ dma[k] \in Place
      BY <1>1 DEF Receive, Types
    <3>2. desc'[k][dma[k]] = kind
      BY <3>1 DEF Types
    <3>3. \A d \in Channel \ {k} : desc'[d] = desc[d]
      BY <3>1 DEF Types
    <3> QED BY <3>1, <3>2, <3>3 DEF HasFrame
  <2>3. Accounted(k)'
    BY <2>1, <2>2 DEF Accounted
  <2>4. \A c \in Channel \ {k} : Accounted(c)'
    <3> TAKE c \in Channel \ {k}
    <3>1. Serving(c)' <=> Serving(c)
      BY <2>1 DEF Serving
    <3> QED BY <2>1, <2>2, <3>1, AccountedKept DEF Service
  <2> QED BY <2>1, <2>3, <2>4 DEF Service
<1>2. ASSUME RxIsr \/ TakePower \/ TxAcks \/ Riva \/ SendEnter \/ LeaveImps
             \/ SetFull \/ McReturn \/ UNCHANGED vars
      PROVE  Service'
  <2>1. UNCHANGED <<ringVars, rxVars, intSrc, left, numFragmentCurrentChain,
                    driverReloadInProcessing>>
    BY <1>2 DEF RxIsr, TakePower, TxAcks, Riva, RivaRefuses, RivaCollapses,
         RivaWakes, RivaSame, SendEnter, LeaveImps, SetFull, McReturn,
         McThreadOnly, PowerSame, vars
  <2>2. hostPowerState' = "FULL" /\ ~rxIntDisabledByIMPS'
    BY <1>2 DEF RxIsr, TakePower, TxAcks, Riva, RivaRefuses, RivaCollapses,
         RivaWakes, RivaSame, SendEnter, LeaveImps, SetFull, McReturn,
         McThreadOnly, PowerSame, vars, Service
  <2>3. \A c \in Channel : /\ HasFrame(c)' <=> HasFrame(c)
                           /\ Serving(c)' <=> Serving(c)
    BY <2>1 DEF HasFrame, Serving
  <2> QED BY <2>1, <2>2, <2>3, ServiceKept DEF Service
<1>3. CASE McCall \/ McPut \/ McReplenish
  <2>1. UNCHANGED <<ringVars, rxVars, intSrc, numFragmentCurrentChain,
                    driverReloadInProcessing, rxIntDisabledByIMPS, hostPowerState>>
    BY <1>3 DEF McCall, McPut, McReplenish, McThreadOnly, PowerSame
  <2>2. left'.imps = left.imps
    BY <1>3 DEF McCall, McPut, McReplenish, PoolIs, Types, Situation
  <2>3. \A c \in Channel : /\ HasFrame(c)' <=> HasFrame(c)
                           /\ Serving(c)' <=> Serving(c)
    BY <2>1 DEF HasFrame, Serving
  <2> QED BY <2>1, <2>2, <2>3, ServiceKept DEF Service
<1>4. CASE EnterImps
  BY <1>4 DEF EnterImps, Service
<1>5. CASE TakeIsr
  <2>1. /\ UNCHANGED <<desc, intSrc, left, numFragmentCurrentChain, frameCount,
             driverReloadInProcessing, rxIntDisabledByIMPS, hostPowerState>>
        /\ rx = "idle" /\ rx' = "source" /\ ~rxImps' /\ todo' = <<>>
    BY <1>5 DEF TakeIsr, Service
  <2>2. \A c \in Channel : ~Serving(c) /\ ~Serving(c)'
                           /\ (HasFrame(c)' <=> HasFrame(c))
    BY <2>1 DEF HasFrame, Serving
  <2>3. \A c \in Channel : Accounted(c)'
    BY <2>1, <2>2, AccountedKept DEF Service
  <2>4. todo' # Channels
    BY <2>1, TodoFacts
  <2> QED BY <2>1, <2>3, <2>4 DEF Service
<1>6. CASE TakeAvail
  <2>1. /\ UNCHANGED <<desc, intSrc, left, numFragmentCurrentChain, frameCount,
             driverReloadInProcessing, rxIntDisabledByIMPS, hostPowerState, rxImps>>
        /\ rx = "idle" /\ rx' = "refill" /\ rxFor' = "avail"
    BY <1>6 DEF TakeAvail
  <2>2. \A c \in Channel : /\ HasFrame(c)' <=> HasFrame(c)
                           /\ Serving(c)' <=> Serving(c)
    BY <2>1 DEF HasFrame, Serving
  <2> QED BY <2>1, <2>2, ServiceKept DEF Service
<1>7. CASE ReadSource
  <2>1. /\ UNCHANGED <<desc, intSrc, left, numFragmentCurrentChain, frameCount,
             driverReloadInProcessing, rxIntDisabledByIMPS, hostPowerState, rxImps>>
        /\ rx = "source"
    BY <1>7 DEF ReadSource, RxThreadOnly
  <2>2. /\ rx' = IF todo' = <<>> THEN "enable" ELSE "clean"
        /\ todo' # <<>> => Head(todo') \in intSrc
        /\ todo' = Channels => "lo" \in intSrc
    BY <1>7, SourceRead
  <2>3. \A c \in Channel : ~Serving(c) /\ ~Serving(c)'
                           /\ (HasFrame(c)' <=> HasFrame(c))
    BY <2>1, <2>2 DEF HasFrame, Serving
  <2>4. \A c \in Channel : Accounted(c)'
    BY <2>1, <2>3, AccountedKept DEF Service
  <2> QED BY <2>1, <2>2, <2>4 DEF Service
<1>8. CASE CleanInt
  <2>1. PICK k \in Channel : k = Head(todo)
    BY <1>8, TodoFacts DEF CleanInt, Handling
  <2>2. /\ UNCHANGED <<desc, left, numFragmentCurrentChain, frameCount, rxFor, todo,
             driverReloadInProcessing, rxIntDisabledByIMPS, hostPowerState, rxImps>>
        /\ rx = "clean" /\ rx' = "pull" /\ rxFor = "isr"
        /\ intSrc' = intSrc \ {k}
    BY <1>8, <2>1 DEF CleanInt, RxThreadOnly, Handling
  <2>3. \A c \in Channel : /\ ~Serving(c) /\ (Serving(c)' <=> c = k)
                           /\ HasFrame(c)' <=> HasFrame(c)
    BY <2>1, <2>2 DEF HasFrame, Serving
  <2>4. Accounted(k)'
    <3>1. HasFrame(k) \/ numFragmentCurrentChain[k] > 0
      BY <2>1, <2>2, <2>3 DEF Service, Accounted
    <3> QED BY <2>2, <2>3, <3>1 DEF Accounted
  <2>5. \A c \in Channel \ {k} : Accounted(c)'
    BY <2>2, <2>3, AccountedKept DEF Service
  <2>6. todo = Channels => k # "lo"
    BY <2>1, TodoFacts
  <2> QED BY <2>2, <2>4, <2>5, <2>6 DEF Service
<1>9. CASE Pull
  <2>1. PICK k \in Channel : k = Head(todo)
    BY <1>9, PullFacts
  <2>2. /\ UNCHANGED <<head, intSrc, numFragmentCurrentChain, rxFor, todo,
             driverReloadInProcessing, rxIntDisabledByIMPS, hostPowerState, rxImps>>
        /\ rx = "pull" /\ rx' = "refill" /\ rxFor = "isr"
        /\ frameCount' = frameCount + 1
    BY <1>9, PullFacts DEF Pull
  <2>3. left'.imps = left.imps
    BY <1>9, PullPool, PoolBecomes
  <2>4. /\ HasFrame(k)
        /\ \A d \in Channel \ {k} : HasFrame(d)' <=> HasFrame(d)
    <3>1. /\ desc[k][head[k]] \in Filled /\ head[k] \in Place
          /\ desc' = [desc EXCEPT ![k] = [desc[k] EXCEPT ![head[k]] = "empty"]]
      BY <1>9, <2>1, PullFacts DEF Types
    <3>2. \A d \in Channel \ {k} : desc'[d] = desc[d]
      BY <3>1 DEF Types
    <3> QED BY <3>1, <3>2 DEF HasFrame
  <2>5. \A c \in Channel : (Serving(c) <=> c = k) /\ (Serving(c)' <=> c = k)
    BY <2>1, <2>2 DEF Serving
  <2>6. Accounted(k)'
    <3>1. frameCount' > 0
      BY <2>2 DEF Types
    <3> QED BY <2>2, <2>5, <3>1 DEF Accounted
  <2>7. \A c \in Channel \ {k} : Accounted(c)'
    BY <2>2, <2>4, <2>5, AccountedKept DEF Service
  <2> QED BY <2>2, <2>3, <2>6, <2>7 DEF Service
<1>10. ASSUME NEW ok \in BOOLEAN, EndRefill(ok), rx \in {"refill", "register"},
              UNCHANGED <<desc, intSrc, left, numFragmentCurrentChain,
                hostPowerState, driverReloadInProcessing, rxIntDisabledByIMPS>>
       PROVE  Service'
  <2>1. rxImps' = rxImps /\ frameCount' = frameCount
    BY <1>10, EndRefillFacts
  <2>2. CASE rxFor = "isr"
    <3>1. rx' = "pull" /\ rxFor' = "isr" /\ todo' = todo
      BY <1>10, <2>2, EndRefillFacts
    <3>2. \A c \in Channel : /\ HasFrame(c)' <=> HasFrame(c)
                             /\ Serving(c)' <=> Serving(c)
      BY <1>10, <2>2, <3>1 DEF HasFrame, Serving
    <3> QED BY <1>10, <2>1, <2>2, <3>1, <3>2, ServiceKept DEF Service
  <2>3. CASE rxFor # "isr"
    <3>1. rxFor' # "isr" /\ rx' \notin {"flag", "clean", "check"}
      BY <1>10, <2>3, EndRefillFacts DEF Service
    <3>2. \A c \in Channel : /\ HasFrame(c)' <=> HasFrame(c)
                             /\ Serving(c)' <=> Serving(c)
      BY <1>10, <2>3, <3>1 DEF HasFrame, Serving
    <3> QED BY <1>10, <2>1, <3>1, <3>2, ServiceKept DEF Service
  <2> QED BY <2>2, <2>3
<1>11. CASE RefillFull \/ Register
  <2>1. /\ rx \in {"refill", "register"} /\ \E ok \in BOOLEAN : EndRefill(ok)
        /\ UNCHANGED <<desc, intSrc, left, numFragmentCurrentChain,
             hostPowerState, driverReloadInProcessing, rxIntDisabledByIMPS>>
    BY <1>11 DEF RefillFull, Register, RxThreadOnly
  <2> QED BY <2>1, <1>10
<1>12. ASSUME Fill(Head(todo)), numFreeDesc[Head(todo)] > 0, rx = "refill",
              rx' = "refill", Head(todo) \in Channel, left'.imps = left.imps,
              UNCHANGED <<rxFor, rxImps, todo, frameCount, intSrc,
                numFragmentCurrentChain, hostPowerState,
                driverReloadInProcessing, rxIntDisabledByIMPS>>
       PROVE  Service'
  <2>1. \A c \in Channel : /\ HasFrame(c)' <=> HasFrame(c)
                           /\ Serving(c)' <=> Serving(c)
    BY <1>12, FillKeepsFrames DEF Serving
  <2> QED BY <1>12, <2>1, ServiceKept DEF Service
<1>13. CASE RefillWaiting
  <2>1. /\ rx = "refill" /\ numFreeDesc[Head(todo)] > 0 /\ Head(todo) \in Channel
        /\ UNCHANGED <<intSrc, left, numFragmentCurrentChain,
             hostPowerState, driverReloadInProcessing, rxIntDisabledByIMPS>>
    BY <1>13, TodoFacts DEF RefillWaiting, RxThreadOnly, Handling
  <2>2. CASE freeRXPacket
    BY <1>13, <2>1, <2>2, <1>12 DEF RefillWaiting
  <2>3. CASE ~freeRXPacket
    BY <1>13, <2>1, <2>3, <1>10 DEF RefillWaiting
  <2> QED BY <2>2, <2>3
<1>14. CASE RefillAlloc
  <2>1. /\ rx = "refill" /\ numFreeDesc[Head(todo)] > 0 /\ Head(todo) \in Channel
        /\ UNCHANGED <<rxFor, rxImps, todo, frameCount, intSrc,
             numFragmentCurrentChain, hostPowerState, driverReloadInProcessing,
             rxIntDisabledByIMPS>>
    BY <1>14, AllocFacts
  <2>2. left'.imps = left.imps
    BY <1>14, AllocFacts, PoolBecomes
  <2>3. CASE rx' = "register" /\ UNCHANGED desc
    <3>1. \A c \in Channel : /\ HasFrame(c)' <=> HasFrame(c)
                             /\ Serving(c)' <=> Serving(c)
      BY <2>1, <2>3 DEF HasFrame, Serving
    <3> QED BY <2>1, <2>2, <2>3, <3>1, ServiceKept DEF Service
  <2>4. CASE Fill(Head(todo)) /\ rx' = "refill"
    BY <2>1, <2>2, <2>4, <1>12
  <2> QED BY <1>14, <2>3, <2>4, AllocFacts
<1>15. CASE EndPull
  <2>1. PICK k \in Channel : k = Head(todo)
    BY <1>15, TodoFacts DEF EndPull, Handling
  <2>2. /\ UNCHANGED <<desc, intSrc, left, numFragmentCurrentChain, frameCount,
             rxFor, todo, driverReloadInProcessing, rxIntDisabledByIMPS,
             hostPowerState, rxImps>>
        /\ rx = "pull" /\ rx' = "check" /\ rxFor = "isr"
        /\ desc[k][head[k]] \notin Filled
    BY <1>15, <2>1 DEF EndPull, RxThreadOnly, Handling
  <2>3. ~HasFrame(k)
    BY <2>2, HeadIsInSync DEF Taken
  <2>4. \A c \in Channel : /\ (Serving(c) <=> c = k) /\ (Serving(c)' <=> c = k)
                           /\ HasFrame(c)' <=> HasFrame(c)
    BY <2>1, <2>2 DEF Serving, HasFrame
  <2>5. Accounted(k)'
    BY <2>2, <2>3, <2>4 DEF Accounted, Service
  <2>6. \A c \in Channel \ {k} : Accounted(c)'
    BY <2>2, <2>4, AccountedKept DEF Service
  <2> QED BY <2>2, <2>5, <2>6 DEF Service
<1>16. CASE EndChannel
  <2>1. PICK k \in Channel : k = Head(todo)
    BY <1>16, TodoFacts DEF EndChannel, Handling
  <2>2. /\ UNCHANGED <<desc, intSrc, left, rxFor, rxIntDisabledByIMPS,
             hostPowerState, rxImps>>
        /\ rx = "check" /\ rxFor = "isr" /\ todo # <<>> /\ todo' = Tail(todo)
        /\ rx' = IF todo' = <<>> THEN "enable" ELSE "clean"
        /\ driverReloadInProcessing' = (driverReloadInProcessing \/ Wedged(k))
        /\ numFragmentCurrentChain' =
             [numFragmentCurrentChain EXCEPT ![k] = frameCount]
    BY <1>16, <2>1 DEF EndChannel, RxThreadOnly, Handling, Service
  <2>3. \A c \in Channel : /\ (Serving(c) <=> c = k) /\ ~Serving(c)'
                           /\ HasFrame(c)' <=> HasFrame(c)
    BY <2>1, <2>2 DEF Serving, HasFrame
  <2>4. /\ numFragmentCurrentChain'[k] = frameCount
        /\ \A c \in Channel \ {k} :
             numFragmentCurrentChain'[c] = numFragmentCurrentChain[c]
    BY <2>2 DEF Types
  <2>5. ~driverReloadInProcessing'
    <3>1. frameCount > 0 \/ numFragmentCurrentChain[k] > 0 \/ HasFrame(k)
      BY <2>3 DEF Service, Accounted
    <3>2. ~Wedged(k)
      BY <3>1 DEF Wedged, HasFrame
    <3> QED BY <2>2, <3>2 DEF Service
  <2>6. Accounted(k)'
    BY <2>2, <2>3, <2>4 DEF Accounted, Service
  <2>7. \A c \in Channel \ {k} : Accounted(c)'
    BY <2>2, <2>3, <2>4, AccountedKept DEF Service
  <2>8. /\ rx' = "clean" => Head(todo') \in intSrc'
        /\ todo' # Channels
    <3>1. todo' \in {<<>>, <<"lo">>} /\ (todo' # <<>> => todo = Channels)
      BY <2>2, TodoFacts
    <3>2. Head(<<"lo">>) = "lo" /\ <<"lo">> # Channels /\ <<>> # Channels
      BY TodoFacts
    <3> QED BY <2>2, <3>1, <3>2 DEF Service
  <2> QED BY <2>2, <2>5, <2>6, <2>7, <2>8 DEF Service
<1>17. CASE Enable \/ Control
  <2>1. /\ UNCHANGED <<desc, intSrc, left, numFragmentCurrentChain, frameCount,
             driverReloadInProcessing, rxIntDisabledByIMPS, hostPowerState>>
        /\ rx \in {"enable", "control"} /\ rx' \in {"control", "idle"}
    BY <1>17 DEF Enable, Control, Idle, RxThreadOnly
  <2>3. (rxFor' = rxFor /\ todo' = todo) \/ rxFor' # "isr"
    BY <1>17 DEF Enable, Control, Idle
  <2>4. rxImps \in BOOLEAN /\ ~rxImps
    BY DEF Service, Types
  <2>5. rxImps' = rxImps \/ rxImps' = FALSE
    BY <1>17 DEF Enable, Control, Idle
  <2>6. rxImps' = rxImps
    BY <2>4, <2>5
  <2>2. \A c \in Channel : /\ HasFrame(c)' <=> HasFrame(c)
                           /\ Serving(c)' <=> Serving(c)
    BY <2>1 DEF HasFrame, Serving
  <2> QED BY <2>1, <2>3, <2>6, <2>2, ServiceKept DEF Service
<1>18. CASE Flag
  BY <1>18 DEF Flag, Service
<1> QED BY <1>1, <1>2, <1>3, <1>4, <1>5, <1>6, <1>7, <1>8, <1>9, <1>11, <1>13,
           <1>14, <1>15, <1>16, <1>17, <1>18 DEF Next, RxThread, McThread

-----------------------------------------------------------------------------
(***************************************************************************)
(* Where the packets are.                                                  *)
(***************************************************************************)

\* The management frames of the rings, before and after a descriptor changes
LEMMA MgmtFinite ==
  ASSUME NEW S \in SUBSET Place
  PROVE  IsFiniteSet(S) /\ Cardinality(S) \in Nat
<1>1. IsFiniteSet(Place)
  BY SizeAssumption, FS_Interval DEF Place
<1>2. IsFiniteSet(S)
  BY <1>1, FS_Subset
<1> QED BY <1>2, FS_CardinalityType

LEMMA MgmtMoves ==
  ASSUME Types, NEW c \in Channel, NEW i \in Place, NEW v,
         desc' = [desc EXCEPT ![c] = [desc[c] EXCEPT ![i] = v]]
  PROVE  /\ InRings \in Nat /\ InRings' \in Nat
         /\ (v = "mgmt" <=> desc[c][i] = "mgmt") => InRings' = InRings
         /\ v = "mgmt" /\ desc[c][i] # "mgmt" => InRings' = InRings + 1
         /\ v # "mgmt" /\ desc[c][i] = "mgmt" => InRings' = InRings - 1
<1>1. PICK d \in Channel : d # c /\ Channel = {c, d}
  BY DEF Channel
<1>2. \A e \in Channel : Mgmt(e) \in SUBSET Place /\ Mgmt(e)' \in SUBSET Place
  BY DEF Mgmt
<1>3. \A e \in Channel : /\ IsFiniteSet(Mgmt(e)) /\ Cardinality(Mgmt(e)) \in Nat
                         /\ IsFiniteSet(Mgmt(e)') /\ Cardinality(Mgmt(e)') \in Nat
  BY <1>2, MgmtFinite
<1>4. /\ InRings = Cardinality(Mgmt(c)) + Cardinality(Mgmt(d))
      /\ InRings' = Cardinality(Mgmt(c)') + Cardinality(Mgmt(d)')
  BY <1>1, <1>3 DEF InRings, Channel
<1>5. desc'[c] = [desc[c] EXCEPT ![i] = v] /\ desc'[d] = desc[d]
  BY <1>1 DEF Types
<1>6. Mgmt(d)' = Mgmt(d)
  BY <1>5 DEF Mgmt
<1>7. /\ desc'[c][i] = v
      /\ \A j \in Place \ {i} : desc'[c][j] = desc[c][j]
  BY <1>5 DEF Types
<1>8. CASE v = "mgmt" <=> desc[c][i] = "mgmt"
  <2>1. Mgmt(c)' = Mgmt(c)
    BY <1>7, <1>8 DEF Mgmt
  <2> QED BY <1>3, <1>4, <1>6, <1>8, <2>1
<1>9. CASE v = "mgmt" /\ desc[c][i] # "mgmt"
  <2>1. Mgmt(c)' = Mgmt(c) \cup {i} /\ i \notin Mgmt(c)
    BY <1>7, <1>9 DEF Mgmt
  <2>2. Cardinality(Mgmt(c)') = Cardinality(Mgmt(c)) + 1
    BY <1>3, <2>1, FS_AddElement
  <2> QED BY <1>3, <1>4, <1>6, <1>9, <2>2
<1>10. CASE v # "mgmt" /\ desc[c][i] = "mgmt"
  <2>1. Mgmt(c)' = Mgmt(c) \ {i} /\ i \in Mgmt(c)
    BY <1>7, <1>10 DEF Mgmt
  <2>2. Cardinality(Mgmt(c)') = Cardinality(Mgmt(c)) - 1
    BY <1>3, <2>1, FS_RemoveElement
  <2> QED BY <1>3, <1>4, <1>6, <1>10, <2>2
<1> QED BY <1>8, <1>9, <1>10

LEMMA MgmtStays ==
  ASSUME Types, UNCHANGED desc
  PROVE  InRings \in Nat /\ InRings' = InRings
<1>1. \A e \in Channel : Mgmt(e) \in SUBSET Place /\ Mgmt(e)' = Mgmt(e)
  BY DEF Mgmt
<1>2. \A e \in Channel : Cardinality(Mgmt(e)) \in Nat
  BY <1>1, MgmtFinite
<1> QED BY <1>1, <1>2 DEF InRings, Channel

\* The number of holes, before and after
LEMMA HolesMove ==
  ASSUME Types, NEW c \in Channel, NEW e \in Int,
         numFreeDesc' = [numFreeDesc EXCEPT ![c] = e]
  PROVE  Holes' = Holes + e - numFreeDesc[c]
<1>1. numFreeDesc \in [Channel -> 0 .. NumDesc]
  BY DEF Types
<1>2. numFreeDesc["hi"] \in Nat /\ numFreeDesc["lo"] \in Nat
  BY <1>1, SizeAssumption DEF Channel
<1>3. CASE c = "hi"
  <2>1. numFreeDesc'["hi"] = e /\ numFreeDesc'["lo"] = numFreeDesc["lo"]
    BY <1>1, <1>3 DEF Channel
  <2> QED BY <1>2, <1>3, <2>1 DEF Holes
<1>4. CASE c = "lo"
  <2>1. numFreeDesc'["lo"] = e /\ numFreeDesc'["hi"] = numFreeDesc["hi"]
    BY <1>1, <1>4 DEF Channel
  <2> QED BY <1>2, <1>4, <2>1 DEF Holes
<1> QED BY <1>3, <1>4 DEF Channel

LEMMA HolesType ==
  ASSUME Types
  PROVE  /\ Holes \in Nat
         /\ \A c \in Channel : numFreeDesc[c] \in Nat /\ numFreeDesc[c] <= Holes
<1>1. numFreeDesc["hi"] \in Nat /\ numFreeDesc["lo"] \in Nat
  BY SizeAssumption DEF Types, Channel
<1> QED BY <1>1 DEF Holes, Channel

\* The packets of the pool are those outside the rings but for PE's.
LEMMA OutsideIs ==
  ASSUME Types
  PROVE  /\ Outside = InPool(Pool) + upstairs + (IF InCall THEN 1 ELSE 0)
         /\ Outside \in Nat /\ InPool(Pool) \in Nat /\ upstairs \in Nat
BY DEF Types, Outside, InPool, Pool

LEMMA NextCounts ==
  ASSUME Types'
  PROVE  Outside' \in Nat /\ Holes' \in Nat
<1>1. /\ freeList' \in Nat /\ replenishList' \in Nat /\ upstairs' \in Nat
      /\ freeRXPacket' \in BOOLEAN
  BY DEF Types
<1>2. numFreeDesc'["hi"] \in Nat /\ numFreeDesc'["lo"] \in Nat
  BY SizeAssumption DEF Types, Channel
<1>3. Outside' \in Nat
  <2>1. PICK a, b \in 0 .. 1 : /\ a = IF freeRXPacket' THEN 1 ELSE 0
                               /\ b = IF InCall' THEN 1 ELSE 0
    OBVIOUS
  <2>2. PICK f, r, u \in Nat : f = freeList' /\ r = replenishList' /\ u = upstairs'
    BY <1>1
  <2>3. Outside' = f + r + u + a + b
    BY <2>1, <2>2 DEF Outside
  <2>4. f + r + u + a + b \in Nat
    OBVIOUS
  <2> QED BY <2>3, <2>4
<1>4. Holes' \in Nat
  BY <1>2 DEF Holes
<1> QED BY <1>3, <1>4

LEMMA OutsideBecomes ==
  ASSUME Types, NEW p \in PoolType, PoolIs(p), upstairs' \in Nat
  PROVE  /\ Outside' = InPool(p) + upstairs' + (IF InCall' THEN 1 ELSE 0)
         /\ InPool(p) \in Nat
<1>1. /\ freeList' = p.free /\ replenishList' = p.replenish /\ freeRXPacket' = p.dxe
      /\ p.free \in Nat /\ p.replenish \in Nat
  BY PoolBecomes DEF PoolType
<1> QED BY <1>1 DEF Outside, InPool

\* What a step may do to the packets
LEMMA CountedKept ==
  ASSUME Types, Types', Counted, setup' = setup, left'.noMem <= left.noMem,
         Outside' - Holes' <= Outside - Holes,
         Ample => Outside' - Holes' = Outside - Holes,
         MgmtFrames' <= MgmtFrames, Returning' => setup.mgmt > 0
  PROVE  Counted'
<1>1. Outside \in Nat /\ Holes \in Nat /\ Outside' \in Nat /\ Holes' \in Nat
  BY OutsideIs, HolesType, NextCounts
<1>2. /\ setup.spare \in Nat /\ setup.noMem \in Nat /\ setup.mgmt \in Nat
      /\ left.noMem \in Nat /\ left'.noMem \in Nat
  BY DEF Types, Situation
<1>3. MgmtFrames \in Nat /\ MgmtFrames' \in Nat
  <2>1. InRings \in Nat /\ InRings' \in Nat
    <3>1. Cardinality(Mgmt("hi")) \in Nat /\ Cardinality(Mgmt("lo")) \in Nat
      BY MgmtFinite DEF Mgmt
    <3>2. Cardinality(Mgmt("hi"))' \in Nat /\ Cardinality(Mgmt("lo"))' \in Nat
      BY MgmtFinite DEF Mgmt
    <3> QED BY <3>1, <3>2 DEF InRings
  <2>2. upstairs \in Nat /\ upstairs' \in Nat /\ left.mgmt \in Nat /\ left'.mgmt \in Nat
    BY DEF Types, Situation
  <2> QED BY <2>1, <2>2 DEF MgmtFrames
<1>4. Ample' <=> Ample
  BY DEF Ample
<1>8. PICK o, h, o1, h1, s \in Nat : /\ o = Outside /\ h = Holes /\ s = setup.spare
                                     /\ o1 = Outside' /\ h1 = Holes'
  BY <1>1, <1>2
<1>9. o1 - h1 <= o - h /\ o <= s + h /\ (Ample => o1 - h1 = o - h /\ o = s + h)
  BY <1>8 DEF Counted
<1>5. Outside' <= setup'.spare + Holes'
  <2>1. o1 <= s + h1
    BY <1>9
  <2> QED BY <1>8, <2>1
<1>6. Ample' => Outside' = setup'.spare + Holes'
  <2>1. Ample => o1 = s + h1
    BY <1>9
  <2> QED BY <1>4, <1>8, <2>1
<1>7. left'.noMem <= setup'.noMem /\ MgmtFrames' <= setup'.mgmt
  BY <1>2, <1>3 DEF Counted
<1> QED BY <1>5, <1>6, <1>7 DEF Counted

\* A step that touches neither the rings, the pool nor PE's packets
LEMMA CountedSame ==
  ASSUME Types, Types', Counted, setup' = setup,
         UNCHANGED <<desc, numFreeDesc, poolVars, upstairs>>,
         left'.noMem = left.noMem, left'.mgmt = left.mgmt,
         InCall' <=> InCall, Returning' => Returning
  PROVE  Counted'
<1>1. Outside' = Outside /\ Holes' = Holes
  BY DEF Outside, Holes, poolVars
<1>2. MgmtFrames' = MgmtFrames
  BY MgmtStays DEF MgmtFrames
<1>3. /\ MgmtFrames \in Nat /\ left.noMem \in Nat
      /\ Outside \in Nat /\ Holes \in Nat
  <2>1. InRings \in Nat
    BY MgmtStays
  <2>2. upstairs \in Nat /\ left.mgmt \in Nat /\ left.noMem \in Nat
    BY DEF Types, Situation
  <2> QED BY <2>1, <2>2, OutsideIs, HolesType DEF MgmtFrames
<1>4. Returning' => setup.mgmt > 0
  BY DEF Counted
<1> QED BY <1>1, <1>2, <1>3, <1>4, CountedKept

\* With packets for all there is no callback while the RX thread pulls frames,
\* or one that waits.
LEMMA AmpleFacts ==
  ASSUME Types, Counted, setup.mgmt = 0 => Alone,
         setup.noMem = 0 /\ setup.mgmt <= setup.spare => Enough, Ample
  PROVE  /\ lowResource /\ rx # "register" => wpalCB /\ ~freeRXPacket
         /\ lowResource => rx = "register" \/ rxPalPacketUnavailable
         /\ Returning => ~lowResource /\ mc \notin {"call", "crashed"}
BY DEF Ample, Alone, Enough, Counted

LEMMA CountedStep ==
  ASSUME Types, Handling, Rings, Counted, setup.mgmt = 0 => Alone,
         setup.noMem = 0 /\ setup.mgmt <= setup.spare => Enough, Types',
         [Next]_vars
  PROVE  Counted'
<1> USE DEF ringVars, intVars, rxVars, poolVars, powerVars
<1>1. /\ Outside \in Nat /\ Holes \in Nat /\ InPool(Pool) \in Nat /\ upstairs \in Nat
      /\ InRings \in Nat /\ left.noMem \in Nat /\ left.mgmt \in Nat
      /\ Outside = InPool(Pool) + upstairs + (IF InCall THEN 1 ELSE 0)
  <2>1. InRings \in Nat
    <3>1. Cardinality(Mgmt("hi")) \in Nat /\ Cardinality(Mgmt("lo")) \in Nat
      BY MgmtFinite DEF Mgmt
    <3> QED BY <3>1 DEF InRings
  <2> QED BY <2>1, OutsideIs, HolesType DEF Types, Situation
<1>2. /\ MgmtFrames = upstairs + (IF InCall THEN 1 ELSE 0) + left.mgmt + InRings
      /\ MgmtFrames' = upstairs' + (IF InCall THEN 1 ELSE 0)' + left'.mgmt + InRings'
  BY DEF MgmtFrames
<1>3. /\ Ample => (lowResource /\ rx # "register" => wpalCB /\ ~freeRXPacket)
      /\ Ample => (lowResource => rx = "register" \/ rxPalPacketUnavailable)
      /\ Ample => (Returning => ~lowResource /\ mc \notin {"call", "crashed"})
      /\ Returning => setup.mgmt > 0
  BY AmpleFacts DEF Counted
<1>4. ASSUME NEW c \in Channel, NEW kind \in Filled, Receive(c, kind)
      PROVE  Counted'
  <2>1. /\ UNCHANGED <<numFreeDesc, poolVars, upstairs, mc, setup>>
        /\ desc' = [desc EXCEPT ![c] = [desc[c] EXCEPT ![dma[c]] = kind]]
        /\ dma[c] \in Place /\ desc[c][dma[c]] # "mgmt"
    BY <1>4 DEF Receive, Types
  <2>2. /\ left'.noMem = left.noMem
        /\ left'.mgmt = IF kind = "mgmt" THEN left.mgmt - 1 ELSE left.mgmt
    BY <1>4 DEF Receive, Types, Situation, Filled
  <2>3. InRings' = IF kind = "mgmt" THEN InRings + 1 ELSE InRings
    BY <2>1, MgmtMoves
  <2>4. Outside' = Outside /\ Holes' = Holes
    BY <2>1 DEF Outside, Holes, InCall
  <2>5. MgmtFrames' = MgmtFrames
    BY <1>1, <1>2, <2>1, <2>2, <2>3 DEF InCall
  <2> QED BY <1>1, <1>2, <1>3, <2>1, <2>2, <2>4, <2>5, CountedKept DEF Returning
<1>5. CASE Pull
  <2>1. PICK c \in Channel :
          /\ c = Head(todo) /\ rx = "pull" /\ desc[c][head[c]] \in Filled
          /\ desc' = [desc EXCEPT ![c] = [desc[c] EXCEPT ![head[c]] = "empty"]]
          /\ numFreeDesc' = [numFreeDesc EXCEPT ![c] = numFreeDesc[c] + 1]
    BY <1>5, PullFacts
  <2>2. UNCHANGED <<mc, setup>>
    BY <1>5 DEF Pull
  <2>3. Holes' = Holes + 1
    <3>1. numFreeDesc[c] \in Nat
      BY HolesType
    <3>2. PICK e \in Int : e = numFreeDesc[c] + 1
      BY <3>1
    <3>3. numFreeDesc' = [numFreeDesc EXCEPT ![c] = e]
      BY <2>1, <3>2
    <3>4. Holes' = Holes + e - numFreeDesc[c]
      BY <3>3, HolesMove
    <3> QED BY <1>1, <3>1, <3>2, <3>4
  <2>4. head[c] \in Place
    BY DEF Types
  <2>5. /\ desc[c][head[c]] = "mgmt" => InRings' = InRings - 1
        /\ desc[c][head[c]] # "mgmt" => InRings' = InRings
    <3>1. PICK v : v = "empty"
      OBVIOUS
    <3>2. PICK i \in Place : i = head[c]
      BY <2>4
    <3>3. desc' = [desc EXCEPT ![c] = [desc[c] EXCEPT ![i] = v]]
      BY <2>1, <3>1, <3>2
    <3>4. /\ v # "mgmt" /\ desc[c][i] = "mgmt" => InRings' = InRings - 1
          /\ (v = "mgmt" <=> desc[c][i] = "mgmt") => InRings' = InRings
      BY <3>3, MgmtMoves
    <3> QED BY <3>1, <3>2, <3>4
  <2>6. Returning' => setup.mgmt > 0
    BY <1>3, <2>2 DEF Returning
  <2>7. CASE desc[c][head[c]] = "data"
    <3>1. /\ upstairs' = upstairs
          /\ \E p \in PoolType : \E q \in Replenished(p) :
               /\ p = [Pool EXCEPT !.replenish = @ + 1]
               /\ q \in PoolType /\ PoolIs(q)
      BY <1>5, <2>1, <2>7, PullPool
    <3>2. PICK p \in PoolType : \E q \in Replenished(p) :
            /\ p = [Pool EXCEPT !.replenish = @ + 1]
            /\ q \in PoolType /\ PoolIs(q)
      BY <3>1
    <3>3. PICK q \in Replenished(p) : q \in PoolType /\ PoolIs(q)
      BY <3>2
    <3>4. /\ InPool(p) = InPool(Pool) + 1 /\ p.low = lowResource
          /\ p.wpal = wpalCB /\ p.dxe = freeRXPacket /\ p.noMem = left.noMem
      <4>1. Pool \in PoolType
        BY PoolIsPool
      <4>2. /\ InPool(p) = InPool(Pool) + 1 /\ p.low = Pool.low
            /\ p.wpal = Pool.wpal /\ p.dxe = Pool.dxe /\ p.noMem = Pool.noMem
        BY <3>2, <4>1 DEF InPool, PoolType
      <4> QED BY <4>2 DEF Pool
    <3>5. /\ InPool(q) <= InPool(p) /\ q.noMem <= p.noMem
          /\ ~p.low \/ (p.wpal /\ ~p.dxe) => InPool(q) = InPool(p)
      BY <3>3, ReplenishFacts
    <3>6. /\ Outside' = InPool(q) + upstairs + (IF InCall THEN 1 ELSE 0)
          /\ InPool(q) \in Nat
      BY <1>1, <2>2, <3>1, <3>3, OutsideBecomes DEF InCall
    <3>7. left'.noMem <= left.noMem /\ left'.mgmt = left.mgmt
      BY <3>3, <3>4, <3>5, PoolBecomes
    <3>8. Outside' - Holes' <= Outside - Holes
      BY <1>1, <2>3, <3>4, <3>5, <3>6
    <3>9. Ample => Outside' - Holes' = Outside - Holes
      BY <1>1, <1>3, <2>1, <2>3, <3>4, <3>5, <3>6
    <3>10. MgmtFrames' <= MgmtFrames
      BY <1>1, <1>2, <2>2, <2>5, <2>7, <3>1, <3>7 DEF InCall
    <3> QED BY <2>2, <2>6, <3>7, <3>8, <3>9, <3>10, CountedKept
  <2>8. CASE desc[c][head[c]] = "mgmt"
    <3>1. upstairs' = upstairs + 1 /\ UNCHANGED <<poolVars, left>>
      BY <1>5, <2>1, <2>8, PullPool
    <3>2. Outside' = Outside + 1
      BY <1>1, <2>2, <3>1 DEF Outside, InCall, Types
    <3>3. MgmtFrames' = MgmtFrames
      BY <1>1, <1>2, <2>2, <2>5, <2>8, <3>1 DEF InCall
    <3>4. MgmtFrames' <= MgmtFrames
      BY <1>1, <1>2, <3>3
    <3> QED BY <1>1, <2>2, <2>3, <2>6, <3>1, <3>2, <3>4, CountedKept
  <2> QED BY <2>1, <2>7, <2>8 DEF Filled
<1>6. ASSUME NEW c \in Channel, Fill(c), numFreeDesc[c] > 0,
             UNCHANGED <<upstairs, mc, setup>>,
             left'.noMem <= left.noMem, left'.mgmt = left.mgmt,
             NEW e \in Int, Outside' = Outside - 1 - e, e >= 0, Ample => e = 0
      PROVE  Counted'
  <2>1. /\ desc' = [desc EXCEPT ![c] = [desc[c] EXCEPT ![tail[c]] = "valid"]]
        /\ numFreeDesc' = [numFreeDesc EXCEPT ![c] = numFreeDesc[c] - 1]
    BY <1>6, FillFacts
  <2>2. desc[c][tail[c]] = "empty" /\ tail[c] \in Place
    <3>1. /\ desc[c] \in [Place -> Filled \cup {"valid", "empty"}]
          /\ dma[c] \in Place /\ tail[c] \in Place
          /\ numFreeDesc[c] \in 1 .. NumDesc
      BY <1>6 DEF Types
    <3>2. PICK n \in Nat : RingHas(desc[c], dma[c], tail[c], numFreeDesc[c], n)
      BY DEF Rings, Ring
    <3> QED BY <3>1, <3>2, RingFilled
  <2>3. InRings' = InRings
    <3>1. PICK v : v = "valid"
      OBVIOUS
    <3>2. PICK i \in Place : i = tail[c]
      BY <2>2
    <3>3. desc' = [desc EXCEPT ![c] = [desc[c] EXCEPT ![i] = v]]
      BY <2>1, <3>1, <3>2
    <3>4. (v = "mgmt" <=> desc[c][i] = "mgmt") => InRings' = InRings
      BY <3>3, MgmtMoves
    <3> QED BY <2>2, <3>1, <3>2, <3>4
  <2>4. Holes' = Holes - 1
    <3>1. numFreeDesc[c] \in Nat
      BY HolesType
    <3>2. PICK f \in Int : f = numFreeDesc[c] - 1
      BY <3>1
    <3>3. numFreeDesc' = [numFreeDesc EXCEPT ![c] = f]
      BY <2>1, <3>2
    <3>4. Holes' = Holes + f - numFreeDesc[c]
      BY <3>3, HolesMove
    <3> QED BY <1>1, <3>1, <3>2, <3>4
  <2>5. MgmtFrames' = MgmtFrames
    BY <1>1, <1>2, <1>6, <2>3 DEF InCall
  <2>6. Outside' - Holes' <= Outside - Holes
    BY <1>1, <1>6, <2>4
  <2>7. Ample => Outside' - Holes' = Outside - Holes
    BY <1>1, <1>6, <2>4
  <2>8. MgmtFrames' <= MgmtFrames
    BY <1>1, <1>2, <2>5
  <2> QED BY <1>3, <1>6, <2>6, <2>7, <2>8, CountedKept DEF Returning
<1>7. CASE RefillWaiting
  <2>1. /\ rx = "refill" /\ numFreeDesc[Head(todo)] > 0 /\ Head(todo) \in Channel
        /\ UNCHANGED <<freeList, replenishList, upstairs, mc, setup, left>>
    BY <1>7, TodoFacts DEF RefillWaiting, RxThreadOnly, Handling
  <2>2. CASE freeRXPacket
    <3>1. Fill(Head(todo)) /\ ~freeRXPacket'
      BY <1>7, <2>2 DEF RefillWaiting
    <3>2. Outside' = Outside - 1
      BY <1>1, <2>1, <2>2, <3>1 DEF Outside, InCall, Types
    <3>3. left'.noMem <= left.noMem /\ left'.mgmt = left.mgmt
      BY <1>1, <2>1
    <3>4. Outside' = Outside - 1 - 0
      BY <1>1, <3>2
    <3> QED BY <1>6, <2>1, <3>1, <3>3, <3>4
  <2>3. CASE ~freeRXPacket
    <3>1. UNCHANGED <<desc, numFreeDesc, poolVars>>
      BY <1>7, <2>3 DEF RefillWaiting
    <3> QED BY <2>1, <3>1, CountedSame DEF InCall, Returning
  <2> QED BY <2>2, <2>3
<1>8. CASE RefillAlloc
  <2>1. /\ rx = "refill" /\ numFreeDesc[Head(todo)] > 0 /\ Head(todo) \in Channel
        /\ ~rxPalPacketUnavailable /\ UNCHANGED <<upstairs, mc, setup>>
    BY <1>8, AllocFacts
  <2>2. PICK p \in PoolType : \E q \in Replenished(p) : \E r \in PoolType :
          /\ p = [Pool EXCEPT !.wpal = FALSE] /\ q \in PoolType
          /\ PoolIs(r)
          /\ \/ /\ q.low \/ q.free = 0
                /\ r = [q EXCEPT !.low = TRUE]
                /\ rx' = "register" /\ UNCHANGED <<desc, tail, numFreeDesc>>
             \/ /\ ~q.low /\ q.free > 0
                /\ r = [q EXCEPT !.free = @ - 1]
                /\ Fill(Head(todo)) /\ rx' = "refill"
    BY <1>8, AllocFacts
  <2>3. PICK q \in Replenished(p) : \E r \in PoolType :
          /\ q \in PoolType /\ PoolIs(r)
          /\ \/ /\ r = [q EXCEPT !.low = TRUE]
                /\ UNCHANGED <<desc, numFreeDesc>>
             \/ /\ q.free > 0 /\ r = [q EXCEPT !.free = @ - 1]
                /\ Fill(Head(todo))
    BY <2>2
  <2>4. PICK r \in PoolType :
          /\ q \in PoolType /\ PoolIs(r)
          /\ \/ /\ r = [q EXCEPT !.low = TRUE]
                /\ UNCHANGED <<desc, numFreeDesc>>
             \/ /\ q.free > 0 /\ r = [q EXCEPT !.free = @ - 1]
                /\ Fill(Head(todo))
    BY <2>3
  <2>5. /\ InPool(p) = InPool(Pool) /\ p.low = lowResource /\ p.noMem = left.noMem
    BY <2>2 DEF InPool, Pool, Types
  <2>6. /\ InPool(q) <= InPool(p) /\ q.noMem <= p.noMem
        /\ ~p.low => InPool(q) = InPool(p)
    BY <2>4, ReplenishFacts
  <2>7. /\ Outside' = InPool(r) + upstairs + (IF InCall THEN 1 ELSE 0)
        /\ InPool(r) \in Nat
    BY <1>1, <2>1, <2>4, OutsideBecomes DEF InCall
  <2>8. InPool(q) \in Nat /\ Ample => InPool(q) = InPool(Pool)
    BY <1>3, <2>1, <2>5, <2>6
  <2>9. left'.noMem = r.noMem /\ left'.mgmt = left.mgmt
    BY <2>4, PoolBecomes
  <2>10. InPool(q) \in Nat
    BY <2>4 DEF InPool, PoolType
  <2>11. CASE r = [q EXCEPT !.low = TRUE] /\ UNCHANGED <<desc, numFreeDesc>>
    <3>1. InPool(r) = InPool(q) /\ r.noMem = q.noMem
      BY <2>4, <2>11 DEF InPool, PoolType
    <3>2. Holes' = Holes /\ InRings' = InRings
      BY <2>11, MgmtStays DEF Holes
    <3>3. MgmtFrames' = MgmtFrames
      BY <1>2, <2>1, <2>9, <3>2 DEF InCall
    <3>4. MgmtFrames' <= MgmtFrames
      BY <1>1, <1>2, <3>3
    <3>5. Outside' - Holes' <= Outside - Holes
      BY <1>1, <2>5, <2>6, <2>7, <2>10, <3>1, <3>2
    <3>6. Ample => Outside' - Holes' = Outside - Holes
      BY <1>1, <2>7, <2>8, <2>10, <3>1, <3>2
    <3>7. left'.noMem <= left.noMem
      BY <2>5, <2>6, <2>9, <3>1
    <3> QED BY <1>3, <2>1, <3>4, <3>5, <3>6, <3>7, CountedKept DEF Returning
  <2>12. CASE q.free > 0 /\ r = [q EXCEPT !.free = @ - 1] /\ Fill(Head(todo))
    <3>1. InPool(r) = InPool(q) - 1 /\ r.noMem = q.noMem
      BY <2>4, <2>12 DEF InPool, PoolType
    <3>2. PICK e \in Int : e = InPool(Pool) - InPool(q)
      BY <1>1, <2>10
    <3>3. Outside' = Outside - 1 - e /\ e >= 0 /\ (Ample => e = 0)
      BY <1>1, <2>5, <2>6, <2>7, <2>8, <2>10, <3>1, <3>2
    <3>4. left'.noMem <= left.noMem
      BY <2>5, <2>6, <2>9, <3>1
    <3> QED BY <1>6, <2>1, <2>9, <2>12, <3>3, <3>4
  <2> QED BY <2>4, <2>11, <2>12
<1>9. CASE McReturn
  <2>1. /\ mc = "idle" /\ upstairs > 0 /\ upstairs' = upstairs - 1
        /\ mc' = IF lowResource THEN "call" ELSE "put"
        /\ UNCHANGED <<desc, numFreeDesc, poolVars, setup, left>>
    BY <1>9 DEF McReturn, McThreadOnly
  <2>2. ~InCall /\ InCall'
    BY <2>1 DEF InCall
  <2>3. Outside' = Outside /\ Holes' = Holes
    BY <1>1, <2>1, <2>2 DEF Outside, Holes, Types
  <2>4. MgmtFrames' = MgmtFrames
    BY <1>1, <1>2, <2>1, <2>2, MgmtStays
  <2>5. setup.mgmt > 0
    <3>1. MgmtFrames = upstairs + left.mgmt + InRings
      BY <1>1, <2>2 DEF MgmtFrames
    <3>2. MgmtFrames \in Nat /\ MgmtFrames > 0
      BY <1>1, <2>1, <3>1
    <3>3. setup.mgmt \in Nat
      BY DEF Types, Situation
    <3>4. MgmtFrames <= setup.mgmt
      BY DEF Counted
    <3> QED BY <3>2, <3>3, <3>4
  <2> QED BY <1>1, <1>2, <2>1, <2>3, <2>4, <2>5, CountedKept
<1>10. CASE McCall
  <2>1. /\ mc = "call" /\ mc' \in {"replenish", "crashed"}
        /\ UNCHANGED <<desc, numFreeDesc, upstairs, setup>>
    BY <1>10 DEF McCall, McThreadOnly
  <2>2. setup.mgmt > 0 /\ ~Ample
    BY <1>3, <2>1 DEF Returning
  <2>3. InCall /\ ~InCall'
    BY <2>1 DEF InCall
  <2>4. /\ Outside' <= Outside /\ Outside' \in Nat
        /\ left'.noMem = left.noMem /\ left'.mgmt = left.mgmt
    <3>1. CASE lowResource
      <4> DEFINE q == CalledBack(Pool)
      <4>1. /\ PoolIs(q) /\ Pool \in PoolType /\ q \in PoolType
            /\ q.free = Pool.free /\ q.replenish = Pool.replenish
            /\ q.noMem = Pool.noMem
        BY <1>10, <3>1, PoolIsPool, CallbackFacts DEF McCall
      <4> HIDE DEF q
      <4>2. InPool(q) <= InPool(Pool) + 1
        BY <4>1 DEF InPool, PoolType
      <4>3. Outside' = InPool(q) + upstairs /\ InPool(q) \in Nat
        BY <1>1, <2>1, <2>3, <4>1, OutsideBecomes
      <4>4. left'.noMem = left.noMem /\ left'.mgmt = left.mgmt
        BY <4>1, PoolBecomes DEF Pool
      <4> QED BY <1>1, <2>3, <4>2, <4>3, <4>4
    <3>2. CASE ~lowResource
      <4>1. UNCHANGED <<poolVars, left>>
        BY <1>10, <3>2 DEF McCall
      <4>2. Outside' = InPool(Pool) + upstairs
        <5>1. freeList \in Nat /\ replenishList \in Nat
          BY DEF Types
        <5> QED BY <1>1, <2>1, <2>3, <4>1, <5>1 DEF Outside, InPool, Pool
      <4> QED BY <1>1, <2>3, <4>1, <4>2
    <3> QED BY <3>1, <3>2
  <2>5. Holes' = Holes /\ InRings' = InRings
    BY <2>1, MgmtStays DEF Holes
  <2>6. MgmtFrames' <= MgmtFrames
    BY <1>1, <1>2, <2>1, <2>3, <2>4, <2>5
  <2>7. Outside' - Holes' <= Outside - Holes
    BY <1>1, <2>4, <2>5
  <2>8. left'.noMem <= left.noMem
    BY <1>1, <2>4
  <2> QED BY <2>1, <2>2, <2>6, <2>7, <2>8, CountedKept
<1>11. CASE McPut
  <2> DEFINE q == [Pool EXCEPT !.free = @ + 1]
  <2>1. /\ mc = "put" /\ mc' = "replenish" /\ PoolIs(q)
        /\ UNCHANGED <<desc, numFreeDesc, upstairs, setup>>
    BY <1>11 DEF McPut, McThreadOnly
  <2>2. q \in PoolType /\ InPool(q) = InPool(Pool) + 1 /\ q.noMem = left.noMem
    <3>1. Pool \in PoolType /\ Pool.noMem = left.noMem
      BY PoolIsPool DEF Pool
    <3>2. q \in PoolType /\ InPool(q) = InPool(Pool) + 1 /\ q.noMem = Pool.noMem
      BY <3>1 DEF PoolType, InPool
    <3> QED BY <3>1, <3>2
  <2> HIDE DEF q
  <2>3. InCall /\ ~InCall'
    BY <2>1 DEF InCall
  <2>4. Outside' = InPool(q) + upstairs
    BY <1>1, <2>1, <2>2, <2>3, OutsideBecomes
  <2>5. left'.noMem = left.noMem /\ left'.mgmt = left.mgmt
    BY <2>1, <2>2, PoolBecomes
  <2>6. Holes' = Holes /\ InRings' = InRings
    BY <2>1, MgmtStays DEF Holes
  <2>7. MgmtFrames' <= MgmtFrames
    BY <1>1, <1>2, <2>1, <2>3, <2>5, <2>6
  <2>8. Outside' - Holes' = Outside - Holes
    BY <1>1, <2>2, <2>3, <2>4, <2>6
  <2>9. setup.mgmt > 0
    BY <1>3, <2>1 DEF Returning
  <2>10. /\ left'.noMem <= left.noMem
         /\ Outside' - Holes' <= Outside - Holes
    BY <1>1, <2>5, <2>8
  <2> QED BY <2>1, <2>7, <2>8, <2>9, <2>10, CountedKept
<1>12. CASE McReplenish
  <2>1. /\ mc = "replenish" /\ mc' = "idle"
        /\ UNCHANGED <<desc, numFreeDesc, upstairs, setup>>
    BY <1>12 DEF McReplenish, McThreadOnly
  <2>2. PICK q \in Replenished(Pool) : PoolIs(q)
    BY <1>12 DEF McReplenish
  <2>3. /\ q \in PoolType /\ InPool(q) <= InPool(Pool) /\ q.noMem <= Pool.noMem
        /\ ~Pool.low => InPool(q) = InPool(Pool)
    BY PoolIsPool, ReplenishFacts
  <2>4. ~InCall /\ ~InCall' /\ ~Returning'
    BY <2>1 DEF InCall, Returning
  <2>5. Outside' = InPool(q) + upstairs /\ InPool(q) \in Nat
    BY <1>1, <2>1, <2>2, <2>3, <2>4, OutsideBecomes
  <2>6. left'.noMem <= left.noMem /\ left'.mgmt = left.mgmt
    BY <2>2, <2>3, PoolBecomes DEF Pool
  <2>7. Holes' = Holes /\ InRings' = InRings
    BY <2>1, MgmtStays DEF Holes
  <2>8. MgmtFrames' <= MgmtFrames
    BY <1>1, <1>2, <2>1, <2>4, <2>6, <2>7
  <2>9. Outside' - Holes' <= Outside - Holes
    BY <1>1, <2>3, <2>4, <2>5, <2>7
  <2>10. Ample => Outside' - Holes' = Outside - Holes
    <3>1. Ample => ~Pool.low
      BY <1>3, <2>1 DEF Returning, Pool
    <3> QED BY <1>1, <2>3, <2>4, <2>5, <2>7, <3>1
  <2> QED BY <2>1, <2>4, <2>6, <2>8, <2>9, <2>10, CountedKept
<1>13. CASE \/ RxIsr \/ TakeIsr \/ TakeAvail \/ TakePower \/ ReadSource \/ CleanInt
            \/ EndPull \/ EndChannel \/ Enable \/ Control \/ Flag \/ TxAcks \/ Riva
            \/ UNCHANGED vars
  <2>1. UNCHANGED <<desc, numFreeDesc, poolVars, upstairs, mc, setup, left>>
    BY <1>13 DEF RxIsr, TakeIsr, TakeAvail, TakePower, ReadSource, CleanInt, EndPull,
         EndChannel, Enable, Control, Flag, RxThreadOnly, TxAcks, McThreadOnly,
         Riva, RivaRefuses, RivaCollapses, RivaWakes, RivaSame, vars
  <2> QED BY <2>1, CountedSame DEF InCall, Returning
<1>14. CASE RefillFull \/ Register
  <2>1. /\ UNCHANGED <<desc, numFreeDesc, freeList, replenishList, freeRXPacket,
                       upstairs, mc, setup, left>>
    BY <1>14 DEF RefillFull, Register, RxThreadOnly
  <2>2. Outside' = Outside /\ Holes' = Holes
    BY <2>1 DEF Outside, Holes, InCall
  <2>3. MgmtFrames' = MgmtFrames
    BY <2>1, MgmtStays DEF MgmtFrames, InCall
  <2>4. /\ MgmtFrames' <= MgmtFrames /\ Outside' - Holes' = Outside - Holes
        /\ Outside' - Holes' <= Outside - Holes /\ left'.noMem <= left.noMem
    BY <1>1, <1>2, <2>1, <2>2, <2>3
  <2> QED BY <1>3, <2>1, <2>4, CountedKept DEF Returning
<1>15. CASE EnterImps \/ SendEnter \/ LeaveImps \/ SetFull
  <2>1. /\ UNCHANGED <<desc, numFreeDesc, poolVars, upstairs, setup>>
        /\ ~Returning /\ ~Returning' /\ ~InCall /\ ~InCall'
    BY <1>15 DEF EnterImps, SendEnter, LeaveImps, SetFull, McThreadOnly,
         Returning, InCall
  <2>2. left'.noMem = left.noMem /\ left'.mgmt = left.mgmt
    BY <1>15 DEF EnterImps, SendEnter, LeaveImps, SetFull, Types, Situation
  <2> QED BY <2>1, <2>2, CountedSame
<1> QED BY <1>4, <1>5, <1>7, <1>8, <1>9, <1>10, <1>11, <1>12, <1>13, <1>14, <1>15
        DEF Next, RxThread, McThread

-----------------------------------------------------------------------------
(***************************************************************************)
(* A packet for DXE when it waits for one: without management frames.      *)
(***************************************************************************)
LEMMA NobodyReturns ==
  ASSUME Types, Counted, setup.mgmt = 0
  PROVE  upstairs = 0 /\ ~Returning
<1>1. Cardinality(Mgmt("hi")) \in Nat /\ Cardinality(Mgmt("lo")) \in Nat
  BY MgmtFinite DEF Mgmt
<1>6. upstairs \in Nat /\ left.mgmt \in Nat /\ InRings \in Nat
  BY <1>1 DEF Types, Situation, InRings
<1>2. PICK u, m, r \in Nat : u = upstairs /\ m = left.mgmt /\ r = InRings
  BY <1>6
<1>3. PICK b \in 0 .. 1 : b = IF InCall THEN 1 ELSE 0
  OBVIOUS
<1>4. u + b + m + r <= 0
  BY <1>2, <1>3 DEF Counted, MgmtFrames
<1>5. u = 0
  BY <1>4
<1> QED BY <1>2, <1>5 DEF Counted

\* Where nothing changes that a waiting DXE has to do with
LEMMA AloneKept ==
  ASSUME Types, Alone, RefillComes,
         UNCHANGED <<poolVars, rxPalPacketUnavailable, numFreeDesc>>,
         InQueue("avail") => InQueue("avail")',
         rx' = "register" <=> rx = "register",
         rxFor = "avail" => rxFor' = "avail",
         rxFor' = "avail" => rxFor = "avail" /\ todo' = todo,
         rx' = "flag" => rx = "flag" \/ rxFor' # "avail"
  PROVE  Alone' /\ RefillComes'
<1>1. Holes' = Holes
  BY DEF Holes
<1>2. Alone'
  BY <1>1 DEF Alone, poolVars
<1>3. RefillComes'
  BY DEF RefillComes, poolVars
<1> QED BY <1>2, <1>3

\* A packet goes into a ring: the first one has none to come if it is done.
LEMMA FirstRingFull ==
  ASSUME Types, Alone, NEW c \in Channel, c = Head(todo), Fill(c),
         numFreeDesc[c] > 0, UNCHANGED <<rxFor, todo>>
  PROVE  /\ rxFor' = "avail" => todo' # <<"hi">>
         /\ rxFor' = "avail" /\ todo' = <<"lo">> => numFreeDesc'["hi"] = 0
<1>1. numFreeDesc' = [numFreeDesc EXCEPT ![c] = numFreeDesc[c] - 1]
  BY FillFacts
<1>2. ASSUME rxFor' = "avail", todo' = <<"lo">>
      PROVE  numFreeDesc'["hi"] = 0
  <2>1. c = "lo"
    BY <1>2, TodoFacts
  <2>2. numFreeDesc'["hi"] = numFreeDesc["hi"]
    BY <1>1, <2>1 DEF Types, Channel
  <2> QED BY <1>2, <2>2 DEF Alone
<1> QED BY <1>2 DEF Alone

LEMMA AloneStep ==
  ASSUME Types, Handling, Rings, Counted, setup.mgmt = 0, Alone, RefillComes,
         [Next]_vars
  PROVE  Alone' /\ RefillComes'
<1> USE DEF ringVars, intVars, rxVars, powerVars
<1>1. upstairs = 0 /\ ~Returning
  BY NobodyReturns
<1>2. CASE \/ \E c \in Channel, kind \in Filled : Receive(c, kind)
           \/ TxAcks \/ Riva \/ SendEnter \/ LeaveImps \/ SetFull
           \/ UNCHANGED vars
  <2>1. UNCHANGED <<poolVars, rxPalPacketUnavailable, numFreeDesc, rxQ, rx,
                    rxFor, todo>>
    BY <1>2 DEF Receive, TxAcks, Riva, RivaRefuses, RivaCollapses, RivaWakes,
         RivaSame, SendEnter, LeaveImps, SetFull, McThreadOnly, vars
  <2> QED BY <2>1, QueuedStays, AloneKept
<1>3. CASE RxIsr \/ EnterImps
  <2>1. UNCHANGED <<poolVars, rxPalPacketUnavailable, numFreeDesc, rx, rxFor, todo>>
    BY <1>3 DEF RxIsr, EnterImps, McThreadOnly
  <2>2. rxQ' = Append(rxQ, "isr") \/ rxQ' = Append(rxQ, "power")
    BY <1>3 DEF RxIsr, EnterImps
  <2> QED BY <2>1, <2>2, QueuedStays, AloneKept
<1>4. CASE TakeIsr \/ TakePower
  <2>1. /\ UNCHANGED <<poolVars, rxPalPacketUnavailable, numFreeDesc>>
        /\ rx = "idle" /\ rx' \notin {"register", "flag"} /\ rxFor' # "avail"
    <3>1. rx = "idle" /\ rxFor = "none"
      BY <1>4 DEF TakeIsr, TakePower, Handling
    <3>2. UNCHANGED <<poolVars, rxPalPacketUnavailable, numFreeDesc>>
      BY <1>4 DEF TakeIsr, TakePower
    <3>3. rx' \notin {"register", "flag"} /\ rxFor' # "avail"
      BY <1>4, <3>1 DEF TakeIsr, TakePower
    <3> QED BY <3>1, <3>2, <3>3
  <2>2. rxQ # <<>> /\ rxQ' = Tail(rxQ) /\ Head(rxQ) # "avail"
    BY <1>4 DEF TakeIsr, TakePower
  <2>3. rxFor = "none"
    BY <2>1 DEF Handling
  <2> QED BY <2>1, <2>2, <2>3, QueuedStays, AloneKept
<1>5. CASE TakeAvail
  <2>1. /\ UNCHANGED <<freeList, lowResource, wpalCB, freeRXPacket,
                       rxPalPacketUnavailable, numFreeDesc>>
        /\ rx = "idle" /\ rx' = "refill" /\ rxFor' = "avail" /\ todo' = Channels
    BY <1>5 DEF TakeAvail, poolVars
  <2>2. Holes' = Holes /\ todo' # <<"hi">> /\ todo' # <<"lo">>
    BY <2>1, TodoFacts DEF Holes
  <2>3. Alone'
    BY <2>1, <2>2 DEF Alone
  <2> QED BY <2>1, <2>3 DEF RefillComes
<1>6. CASE \/ ReadSource \/ CleanInt \/ EndPull \/ EndChannel \/ Enable \/ Control
  <2>1. /\ UNCHANGED <<poolVars, rxPalPacketUnavailable, numFreeDesc, rxQ>>
        /\ rx \in {"source", "clean", "pull", "check", "enable", "control"}
    BY <1>6 DEF ReadSource, CleanInt, EndPull, EndChannel, Enable, Control,
         RxThreadOnly
  <2>2. rxFor' \in {rxFor, "none"}
    BY <1>6 DEF ReadSource, CleanInt, EndPull, EndChannel, Enable, Control, Idle
  <2>3. rx' # "register"
    BY <1>6 DEF ReadSource, CleanInt, EndPull, EndChannel, Enable, Control, Idle
  <2>4. rxFor = "isr"
    BY <2>1 DEF Handling
  <2> QED BY <2>1, <2>2, <2>3, <2>4, QueuedStays, AloneKept
<1>7. CASE Flag
  <2>1. /\ UNCHANGED <<freeList, lowResource, wpalCB, freeRXPacket,
                       rxPalPacketUnavailable, numFreeDesc, rxQ>>
        /\ rx = "flag" /\ rx' = "idle" /\ rxFor' = "none"
    BY <1>7 DEF Flag, Idle, RxThreadOnly, poolVars
  <2>2. Holes' = Holes /\ (InQueue("avail") => InQueue("avail")')
    BY <2>1, QueuedStays DEF Holes
  <2>3. Alone'
    BY <2>1, <2>2 DEF Alone
  <2>4. RefillComes'
    BY <2>1, <2>2 DEF Alone, RefillComes
  <2> QED BY <2>3, <2>4
<1>8. CASE Pull
  <2>1. PICK c \in Channel :
          /\ c = Head(todo) /\ rx = "pull" /\ rxFor = "isr"
          /\ numFreeDesc' = [numFreeDesc EXCEPT ![c] = numFreeDesc[c] + 1]
    BY <1>8, PullFacts
  <2>2. rx' = "refill" /\ UNCHANGED <<rxFor, todo, rxPalPacketUnavailable>>
    BY <1>8 DEF Pull
  <2>3. Holes > 0 => Holes' > 0
    <3>1. numFreeDesc[c] \in Nat /\ Holes \in Nat
      BY HolesType
    <3>2. PICK e \in Int : e = numFreeDesc[c] + 1
      BY <3>1
    <3>3. Holes' = Holes + e - numFreeDesc[c]
      BY <2>1, <3>2, HolesMove
    <3> QED BY <3>1, <3>2, <3>3
  <2>4. CASE UNCHANGED <<poolVars, rxQ>>
    <3>1. /\ UNCHANGED <<freeList, lowResource, wpalCB, freeRXPacket>>
          /\ InQueue("avail") => InQueue("avail")'
      BY <2>4, QueuedStays DEF poolVars
    <3>2. Alone'
      BY <2>1, <2>2, <2>3, <3>1 DEF Alone
    <3>3. RefillComes'
      BY <2>1, <2>2, <3>1 DEF RefillComes
    <3> QED BY <3>2, <3>3
  <2>5. ASSUME NEW p \in PoolType, NEW q \in Replenished(p), q \in PoolType,
               p = [Pool EXCEPT !.replenish = @ + 1], PoolIs(q)
        PROVE  Alone' /\ RefillComes'
    <3>1. /\ p.free = freeList /\ p.low = lowResource /\ p.wpal = wpalCB
          /\ p.dxe = freeRXPacket /\ ~p.avail
      BY <2>5 DEF Pool
    <3>2. /\ freeList' = q.free /\ lowResource' = q.low /\ wpalCB' = q.wpal
          /\ freeRXPacket' = q.dxe
          /\ rxQ' = IF q.avail THEN Append(rxQ, "avail") ELSE rxQ
      BY <2>5, PoolBecomes
    <3>3. /\ q.wpal = p.wpal
          /\ \/ /\ q.low = p.low /\ q.dxe = p.dxe /\ q.avail = p.avail
                /\ p.low => q.free = p.free
             \/ /\ p.low /\ ~q.low /\ q.dxe = (p.dxe \/ p.wpal)
                /\ q.avail = (p.avail \/ p.wpal)
      BY <2>5, ReplenishFacts
    <3>4. CASE /\ q.low = p.low /\ q.dxe = p.dxe /\ q.avail = p.avail
               /\ p.low => q.free = p.free
      <4>1. /\ UNCHANGED <<lowResource, wpalCB, freeRXPacket, rxQ>>
            /\ lowResource => freeList' = freeList
        BY <3>1, <3>2, <3>3, <3>4
      <4>2. InQueue("avail") => InQueue("avail")'
        BY <4>1, QueuedStays
      <4>3. Alone'
        BY <2>1, <2>2, <2>3, <4>1 DEF Alone
      <4>4. RefillComes'
        BY <2>1, <2>2, <4>1, <4>2 DEF RefillComes
      <4> QED BY <4>3, <4>4
    <3>5. CASE /\ p.low /\ ~q.low /\ q.dxe = (p.dxe \/ p.wpal)
               /\ q.avail = (p.avail \/ p.wpal)
      <4>1. lowResource /\ wpalCB /\ rxPalPacketUnavailable
        BY <2>1, <3>1, <3>5 DEF Alone
      <4>2. ~lowResource' /\ freeRXPacket' /\ rxQ' = Append(rxQ, "avail")
        BY <3>1, <3>2, <3>5, <4>1
      <4>3. InQueue("avail")'
        BY <4>2, QueuedStays
      <4>4. Alone'
        BY <2>1, <2>2, <2>3, <4>1, <4>2 DEF Alone
      <4>5. RefillComes'
        BY <4>2, <4>3 DEF RefillComes
      <4> QED BY <4>4, <4>5
    <3> QED BY <3>3, <3>4, <3>5
  <2> QED BY <1>8, <2>4, <2>5, PullPool
<1>9. ASSUME NEW ok \in BOOLEAN, EndRefill(ok), rx \in {"refill", "register"},
             ok => numFreeDesc[Head(todo)] = 0, UNCHANGED <<numFreeDesc, rxQ>>
      PROVE  /\ Holes' = Holes /\ (InQueue("avail") => InQueue("avail")')
             /\ rxFor = "isr" => rx' = "pull" /\ rxFor' = "isr"
             /\ rxFor # "isr" =>
                  \/ /\ ok /\ todo = Channels /\ todo' = <<"lo">>
                     /\ rx' = rx /\ rxFor' = "avail" /\ rxFor = "avail"
                     /\ numFreeDesc["hi"] = 0
                  \/ /\ todo' = <<>> /\ (ok => Holes = 0)
                     /\ \/ rx' = "idle" /\ rxFor' = "none"
                        \/ rx' = "flag" /\ rxFor' = "avail"
  <2>1. Holes' = Holes /\ (InQueue("avail") => InQueue("avail")')
    BY <1>9, QueuedStays DEF Holes
  <2>2. CASE rxFor = "isr"
    BY <1>9, <2>1, <2>2, EndRefillFacts
  <2>3. CASE rxFor # "isr" /\ ok /\ todo = Channels
    <3>1. todo' = <<"lo">> /\ rx' = rx /\ rxFor' = "avail" /\ rxFor = "avail"
      BY <1>9, <2>3, EndRefillFacts
    <3>2. numFreeDesc["hi"] = 0
      BY <1>9, <2>3, TodoFacts
    <3> QED BY <2>1, <2>3, <3>1, <3>2
  <2>4. CASE rxFor # "isr" /\ ~(ok /\ todo = Channels)
    <3>1. /\ todo # <<>> /\ rxFor = "avail" /\ todo' = <<>>
          /\ \/ rx' = "idle" /\ rxFor' = "none"
             \/ rx' = "flag" /\ rxFor' = "avail"
      BY <1>9, <2>4, EndRefillFacts
    <3>2. ASSUME ok
          PROVE  Holes = 0
      <4>1. todo = <<"lo">>
        BY <2>4, <3>1, <3>2 DEF Alone, Types
      <4>2. numFreeDesc["hi"] = 0 /\ numFreeDesc["lo"] = 0
        BY <1>9, <3>1, <3>2, <4>1, TodoFacts DEF Alone
      <4> QED BY <4>2 DEF Holes
    <3> QED BY <2>1, <2>4, <3>1, <3>2
  <2> QED BY <2>2, <2>3, <2>4
<1>10. CASE RefillFull
  <2>1. /\ UNCHANGED <<freeList, lowResource, wpalCB, freeRXPacket,
                       rxPalPacketUnavailable, numFreeDesc, rxQ>>
        /\ rx = "refill" /\ numFreeDesc[Head(todo)] = 0 /\ EndRefill(TRUE)
    BY <1>10 DEF RefillFull, RxThreadOnly, poolVars
  <2>2. CASE rxFor = "isr"
    <3>1. /\ rx' = "pull" /\ rxFor' = "isr" /\ Holes' = Holes
          /\ InQueue("avail") => InQueue("avail")'
      BY <1>9, <2>1, <2>2
    <3>2. Alone'
      BY <2>1, <2>2, <3>1 DEF Alone
    <3>3. RefillComes'
      BY <2>1, <2>2, <3>1 DEF RefillComes
    <3> QED BY <3>2, <3>3
  <2>3. CASE rxFor # "isr"
    <3>1. /\ Holes' = Holes /\ (InQueue("avail") => InQueue("avail")')
          /\ \/ /\ todo' = <<"lo">> /\ rx' = rx /\ rxFor' = "avail"
                /\ rxFor = "avail" /\ numFreeDesc["hi"] = 0
             \/ /\ todo' = <<>> /\ Holes = 0 /\ rx' \in {"idle", "flag"}
      <4>1. PICK ok \in BOOLEAN : ok /\ EndRefill(ok)
        BY <2>1
      <4> QED BY <1>9, <2>1, <2>3, <4>1
    <3>2. CASE /\ todo' = <<"lo">> /\ rx' = rx /\ rxFor' = "avail"
               /\ rxFor = "avail" /\ numFreeDesc["hi"] = 0
      <4>1. todo' # <<"hi">>
        BY <3>2, TodoFacts
      <4>2. Alone'
        BY <2>1, <3>1, <3>2, <4>1 DEF Alone
      <4>3. RefillComes'
        BY <2>1, <3>1, <3>2 DEF RefillComes
      <4> QED BY <4>2, <4>3
    <3>3. CASE todo' = <<>> /\ Holes = 0 /\ rx' \in {"idle", "flag"}
      <4>1. ~rxPalPacketUnavailable /\ ~freeRXPacket /\ ~lowResource
        BY <2>1, <3>3 DEF Alone
      <4>2. todo' # <<"hi">> /\ todo' # <<"lo">>
        BY <3>3, TodoFacts
      <4> QED BY <2>1, <3>3, <4>1, <4>2 DEF Alone, RefillComes
    <3> QED BY <3>1, <3>2, <3>3
  <2> QED BY <2>2, <2>3
<1>11. CASE RefillWaiting
  <2>1. /\ UNCHANGED <<freeList, lowResource, wpalCB, rxQ>>
        /\ rx = "refill" /\ numFreeDesc[Head(todo)] > 0
        /\ rxPalPacketUnavailable /\ Head(todo) \in Channel
    BY <1>11, TodoFacts DEF RefillWaiting, Handling
  <2>2. CASE freeRXPacket
    <3>1. /\ Fill(Head(todo)) /\ ~freeRXPacket' /\ ~rxPalPacketUnavailable'
          /\ UNCHANGED <<rx, rxFor, todo>>
      BY <1>11, <2>2 DEF RefillWaiting
    <3>2. /\ rxFor' = "avail" => todo' # <<"hi">>
          /\ rxFor' = "avail" /\ todo' = <<"lo">> => numFreeDesc'["hi"] = 0
      BY <2>1, <3>1, FirstRingFull
    <3>3. ~lowResource' /\ rx' = "refill"
      BY <2>1, <2>2, <3>1 DEF Alone
    <3> QED BY <3>1, <3>2, <3>3 DEF Alone, RefillComes
  <2>3. CASE ~freeRXPacket
    <3>1. /\ EndRefill(FALSE)
          /\ UNCHANGED <<numFreeDesc, freeRXPacket, rxPalPacketUnavailable>>
      BY <1>11, <2>3 DEF RefillWaiting
    <3>2. /\ Holes' = Holes
          /\ \/ rx' = "pull" /\ rxFor' = "isr"
             \/ todo' = <<>> /\ rx' \in {"idle", "flag"}
      <4>1. PICK ok \in BOOLEAN : ~ok /\ EndRefill(ok)
        BY <3>1
      <4> QED BY <1>9, <2>1, <3>1, <4>1
    <3>3. rxFor' = "avail" => todo' # <<"hi">> /\ todo' # <<"lo">>
      BY <3>2, TodoFacts
    <3>4. ~freeRXPacket' /\ rx' # "register"
      BY <2>3, <3>1, <3>2
    <3>5. lowResource' /\ wpalCB' /\ freeList' = 0 /\ rxPalPacketUnavailable'
      BY <2>1, <2>3, <3>1 DEF RefillComes
    <3>6. Holes' > 0
      BY <2>1, <3>2 DEF Alone
    <3> QED BY <3>3, <3>4, <3>5, <3>6 DEF Alone, RefillComes
  <2> QED BY <2>2, <2>3
<1>12. CASE Register
  <2>1. /\ rx = "register" /\ wpalCB' /\ rxPalPacketUnavailable'
        /\ EndRefill(FALSE)
        /\ UNCHANGED <<freeList, lowResource, freeRXPacket, numFreeDesc, rxQ>>
    BY <1>12 DEF Register
  <2>2. /\ Holes' = Holes
        /\ \/ rx' = "pull" /\ rxFor' = "isr"
           \/ todo' = <<>> /\ rx' \in {"idle", "flag"}
    <3>1. PICK ok \in BOOLEAN : ~ok /\ EndRefill(ok)
      BY <2>1
    <3> QED BY <1>9, <2>1, <3>1
  <2>3. rxFor' = "avail" => todo' # <<"hi">> /\ todo' # <<"lo">>
    BY <2>2, TodoFacts
  <2>4. lowResource' /\ ~freeRXPacket' /\ freeList' = 0 /\ rx' # "register"
    BY <2>1, <2>2 DEF Alone
  <2>5. Holes' > 0
    <3>1. numFreeDesc[Head(todo)] > 0 /\ Head(todo) \in Channel
      BY <2>1, TodoFacts DEF Handling
    <3> QED BY <2>2, <3>1, HolesType
  <2> QED BY <2>1, <2>3, <2>4, <2>5 DEF Alone, RefillComes
<1>13. CASE RefillAlloc
  <2>1. /\ rx = "refill" /\ numFreeDesc[Head(todo)] > 0 /\ Head(todo) \in Channel
        /\ ~rxPalPacketUnavailable
        /\ UNCHANGED <<rxFor, todo, rxPalPacketUnavailable>>
    BY <1>13, AllocFacts
  <2>2. ~freeRXPacket /\ ~lowResource
    BY <2>1 DEF Alone
  <2>3. ASSUME NEW p \in PoolType, NEW q \in Replenished(p), NEW r \in PoolType,
               p = [Pool EXCEPT !.wpal = FALSE], q \in PoolType, PoolIs(r),
               \/ /\ q.low \/ q.free = 0
                  /\ r = [q EXCEPT !.low = TRUE]
                  /\ rx' = "register" /\ UNCHANGED <<desc, tail, numFreeDesc>>
               \/ /\ ~q.low /\ q.free > 0
                  /\ r = [q EXCEPT !.free = @ - 1]
                  /\ Fill(Head(todo)) /\ rx' = "refill"
        PROVE  Alone' /\ RefillComes'
    <3>1. ~p.low /\ ~p.dxe
      BY <2>2, <2>3 DEF Pool
    <3>2. ~q.low /\ ~q.dxe
      BY <2>3, <3>1, ReplenishFacts
    <3>3. /\ freeList' = r.free /\ lowResource' = r.low /\ freeRXPacket' = r.dxe
      BY <2>3, PoolBecomes
    <3>4. CASE q.free = 0 /\ r = [q EXCEPT !.low = TRUE] /\ rx' = "register"
               /\ UNCHANGED numFreeDesc
      <4>1. r.free = 0 /\ r.low /\ ~r.dxe
        BY <2>3, <3>2, <3>4 DEF PoolType
      <4>2. Alone'
        BY <2>1, <3>3, <3>4, <4>1 DEF Alone
      <4> QED BY <2>1, <4>2 DEF RefillComes
    <3>5. CASE /\ r = [q EXCEPT !.free = @ - 1]
               /\ Fill(Head(todo)) /\ rx' = "refill"
      <4>1. ~r.low /\ ~r.dxe
        BY <2>3, <3>2, <3>5 DEF PoolType
      <4>2. /\ rxFor' = "avail" => todo' # <<"hi">>
            /\ rxFor' = "avail" /\ todo' = <<"lo">> => numFreeDesc'["hi"] = 0
        BY <2>1, <3>5, FirstRingFull
      <4>3. Alone'
        BY <2>1, <3>3, <3>5, <4>1, <4>2 DEF Alone
      <4> QED BY <2>1, <4>3 DEF RefillComes
    <3> QED BY <2>3, <3>2, <3>4, <3>5
  <2> QED BY <1>13, <2>3, AllocFacts
<1>14. CASE McReturn \/ McCall \/ McPut \/ McReplenish
  BY <1>1, <1>14 DEF McReturn, McCall, McPut, McReplenish, Returning
<1> QED BY <1>2, <1>3, <1>4, <1>5, <1>6, <1>7, <1>8, <1>10, <1>11, <1>12, <1>13,
           <1>14 DEF Next, RxThread, McThread

-----------------------------------------------------------------------------
(***************************************************************************)
(* A packet for DXE when it asks: with one for every management frame.     *)
(***************************************************************************)

\* An empty descriptor then means a packet in the pool.
LEMMA PoolHasOne ==
  ASSUME Types, Counted, setup.noMem = 0, setup.mgmt <= setup.spare, Enough,
         NEW c \in Channel, numFreeDesc[c] > 0
  PROVE  left.noMem = 0 /\ freeList + replenishList > 0
<1>1. Cardinality(Mgmt("hi")) \in Nat /\ Cardinality(Mgmt("lo")) \in Nat
  BY MgmtFinite DEF Mgmt
<1>2. /\ upstairs \in Nat /\ left.mgmt \in Nat /\ InRings \in Nat
      /\ freeList \in Nat /\ replenishList \in Nat /\ left.noMem \in Nat
      /\ setup.mgmt \in Nat /\ setup.spare \in Nat
  BY <1>1 DEF Types, Situation, InRings
<1>3. Holes \in Nat /\ Holes > 0
  BY HolesType
<1>4. PICK u, m, r, f, l, s, g, h \in Nat :
        /\ u = upstairs /\ m = left.mgmt /\ r = InRings /\ f = freeList
        /\ l = replenishList /\ s = setup.spare /\ g = setup.mgmt /\ h = Holes
  BY <1>2, <1>3
<1>5. PICK b \in 0 .. 1 : b = IF InCall THEN 1 ELSE 0
  OBVIOUS
<1>6. u + b + m + r <= g
  BY <1>4, <1>5 DEF Counted, MgmtFrames
<1>7. f + l + u + 0 + b = s + h
  <2>1. Ample
    BY DEF Ample
  <2>2. ~freeRXPacket
    BY DEF Enough
  <2> QED BY <1>4, <1>5, <2>1, <2>2 DEF Counted, Outside
<1>8. g <= s /\ h > 0
  BY <1>3, <1>4
<1>9. f + l > 0
  BY <1>6, <1>7, <1>8
<1>10. left.noMem = 0
  BY <1>2 DEF Counted
<1> QED BY <1>4, <1>9, <1>10

LEMMA EnoughStep ==
  ASSUME Types, Handling, Rings, Counted, setup.noMem = 0,
         setup.mgmt <= setup.spare, Enough, [Next]_vars
  PROVE  Enough'
<1> USE DEF ringVars, intVars, rxVars, powerVars
<1>1. /\ ~lowResource /\ ~rxPalPacketUnavailable /\ ~freeRXPacket
      /\ rx # "register" /\ mc \notin {"call", "crashed"}
  BY DEF Enough
<1>2. CASE \/ \E c \in Channel, kind \in Filled : Receive(c, kind)
           \/ RxIsr \/ TxAcks \/ Riva \/ UNCHANGED vars
  <2>1. UNCHANGED <<lowResource, rxPalPacketUnavailable, freeRXPacket, rx, mc>>
    BY <1>2 DEF Receive, RxIsr, TxAcks, Riva, RivaRefuses, RivaCollapses,
         RivaWakes, RivaSame, McThreadOnly, poolVars, vars
  <2> QED BY <2>1 DEF Enough
<1>3. CASE EnterImps \/ SendEnter \/ LeaveImps \/ SetFull \/ McReturn
  <2>1. UNCHANGED <<lowResource, rxPalPacketUnavailable, freeRXPacket, rx>>
    BY <1>3 DEF EnterImps, SendEnter, LeaveImps, SetFull, McReturn,
         McThreadOnly, poolVars
  <2>2. mc' \notin {"call", "crashed"}
    BY <1>1, <1>3 DEF EnterImps, SendEnter, LeaveImps, SetFull, McReturn
  <2> QED BY <2>1, <2>2 DEF Enough
<1>4. CASE \/ TakeIsr \/ TakeAvail \/ TakePower \/ ReadSource \/ CleanInt
           \/ EndPull \/ EndChannel \/ Enable \/ Control \/ Flag
  <2>1. UNCHANGED <<lowResource, rxPalPacketUnavailable, freeRXPacket, mc>>
    BY <1>4 DEF TakeIsr, TakeAvail, TakePower, ReadSource, CleanInt, EndPull,
         EndChannel, Enable, Control, Flag, RxThreadOnly, poolVars
  <2>2. rx' # "register"
    BY <1>1, <1>4 DEF TakeIsr, TakeAvail, TakePower, ReadSource, CleanInt, EndPull,
         EndChannel, Enable, Control, Flag, Idle
  <2> QED BY <2>1, <2>2 DEF Enough
<1>5. ASSUME NEW p \in PoolType, NEW q \in Replenished(p), ~p.low, ~p.dxe
      PROVE  ~q.low /\ ~q.dxe
  BY <1>5, ReplenishFacts
<1>6. CASE Pull
  <2>1. rx' = "refill" /\ UNCHANGED <<rxPalPacketUnavailable, mc>>
    BY <1>6 DEF Pull
  <2>2. ~lowResource' /\ ~freeRXPacket'
    <3>1. CASE UNCHANGED poolVars
      BY <1>1, <3>1 DEF poolVars
    <3>2. ASSUME NEW p \in PoolType, NEW q \in Replenished(p), q \in PoolType,
                 p = [Pool EXCEPT !.replenish = @ + 1], PoolIs(q)
          PROVE  ~lowResource' /\ ~freeRXPacket'
      <4>1. ~p.low /\ ~p.dxe
        BY <1>1, <3>2 DEF Pool
      <4> QED BY <1>5, <3>2, <4>1, PoolBecomes
    <3> QED BY <1>6, <3>1, <3>2, PullPool
  <2> QED BY <1>1, <2>1, <2>2 DEF Enough
<1>7. CASE RefillFull
  <2>1. /\ EndRefill(TRUE) /\ rx = "refill"
        /\ UNCHANGED <<lowResource, rxPalPacketUnavailable, freeRXPacket, mc>>
    BY <1>7 DEF RefillFull, RxThreadOnly, poolVars
  <2>2. PICK ok \in BOOLEAN : EndRefill(ok)
    BY <2>1
  <2>3. rx' # "register"
    BY <2>1, <2>2, EndRefillFacts
  <2> QED BY <2>1, <2>3 DEF Enough
<1>8. CASE RefillAlloc
  <2>1. /\ numFreeDesc[Head(todo)] > 0 /\ Head(todo) \in Channel
        /\ UNCHANGED <<rxPalPacketUnavailable, mc>>
    BY <1>8, AllocFacts
  <2>2. left.noMem = 0 /\ freeList + replenishList > 0
    BY <2>1, PoolHasOne
  <2>3. ASSUME NEW p \in PoolType, NEW q \in Replenished(p), NEW r \in PoolType,
               p = [Pool EXCEPT !.wpal = FALSE], q \in PoolType, PoolIs(r),
               \/ /\ q.low \/ q.free = 0
                  /\ r = [q EXCEPT !.low = TRUE]
                  /\ rx' = "register"
               \/ /\ r = [q EXCEPT !.free = @ - 1] /\ rx' = "refill"
        PROVE  Enough'
    <3>1. /\ ~p.low /\ ~p.dxe /\ p.noMem = 0 /\ p.free + p.replenish > 0
      BY <1>1, <2>2, <2>3 DEF Pool
    <3>2. ~q.low /\ ~q.dxe /\ q.free > 0
      BY <1>5, <2>3, <3>1, ReplenishFacts
    <3>3. r = [q EXCEPT !.free = @ - 1] /\ rx' = "refill"
      BY <2>3, <3>2 DEF PoolType
    <3>4. ~r.low /\ ~r.dxe
      BY <2>3, <3>2, <3>3 DEF PoolType
    <3>5. ~lowResource' /\ ~freeRXPacket'
      BY <2>3, <3>4, PoolBecomes
    <3> QED BY <1>1, <2>1, <3>3, <3>5 DEF Enough
  <2> QED BY <1>8, <2>3, AllocFacts
<1>9. CASE RefillWaiting \/ Register \/ McCall
  BY <1>1, <1>9 DEF RefillWaiting, Register, McCall
<1>10. CASE McPut
  <2> DEFINE q == [Pool EXCEPT !.free = @ + 1]
  <2>1. /\ PoolIs(q) /\ mc' = "replenish" /\ UNCHANGED <<rxPalPacketUnavailable, rx>>
    BY <1>10 DEF McPut, McThreadOnly
  <2>2. q \in PoolType /\ ~q.low /\ ~q.dxe
    <3>1. Pool \in PoolType /\ ~Pool.low /\ ~Pool.dxe
      BY <1>1, PoolIsPool DEF Pool
    <3> QED BY <3>1 DEF PoolType
  <2> HIDE DEF q
  <2>3. ~lowResource' /\ ~freeRXPacket'
    BY <2>1, <2>2, PoolBecomes
  <2> QED BY <1>1, <2>1, <2>3 DEF Enough
<1>11. CASE McReplenish
  <2>1. /\ mc' = "idle" /\ UNCHANGED <<rxPalPacketUnavailable, rx>>
        /\ \E q \in Replenished(Pool) : PoolIs(q)
    BY <1>11 DEF McReplenish, McThreadOnly
  <2>2. PICK q \in Replenished(Pool) : PoolIs(q)
    BY <2>1
  <2>3. Pool \in PoolType /\ ~Pool.low /\ ~Pool.dxe
    BY <1>1, PoolIsPool DEF Pool
  <2>4. q \in PoolType /\ ~q.low /\ ~q.dxe
    BY <1>5, <2>3, ReplenishFacts
  <2>5. ~lowResource' /\ ~freeRXPacket'
    BY <2>2, <2>4, PoolBecomes
  <2> QED BY <1>1, <2>1, <2>5 DEF Enough
<1> QED BY <1>2, <1>3, <1>4, <1>6, <1>7, <1>8, <1>9, <1>10, <1>11
        DEF Next, RxThread, McThread

-----------------------------------------------------------------------------
(***************************************************************************)
(* The invariant.                                                          *)
(***************************************************************************)
LEMMA InitRings ==
  ASSUME Init
  PROVE  Rings
<1>1. NumDesc \in Nat \ {0}
  BY SizeAssumption
<1>2. ASSUME NEW c \in Channel
      PROVE  Ring(c)
  <2>1. /\ dma[c] = 0 /\ head[c] = 0 /\ tail[c] = 0 /\ numFreeDesc[c] = 0
        /\ \A i \in Place : desc[c][i] = "valid"
        /\ ~Taken(c)
    BY DEF Init, Taken
  <2>2. At(0, 0) = 0 /\ At(0, 0 + 0) = 0 /\ \A i \in Place : Dist(0, i) = i
    BY <1>1 DEF At, Dist, Place
  <2>3. \A i \in Place : i \in Nat /\ ~(i < 0) /\ i >= 0 + 0
    BY <1>1 DEF Place
  <2>4. RingHas(desc[c], 0, 0, 0, 0)
    BY <1>1, <2>1, <2>2, <2>3 DEF RingHas
  <2> QED BY <2>1, <2>2, <2>4 DEF Ring
<1> QED BY <1>2 DEF Rings

LEMMA InitCounted ==
  ASSUME Init
  PROVE  Counted
<1>1. setup \in Situation /\ left = setup
  BY SizeAssumption DEF Init, Situation
<1>2. Mgmt("hi") = {} /\ Mgmt("lo") = {}
  BY DEF Init, Mgmt, Channel
<1>3. InRings = 0
  BY <1>2, FS_EmptySet DEF InRings
<1>4. ~InCall /\ ~Returning
  BY DEF Init, InCall, Returning
<1>5. MgmtFrames = setup.mgmt
  <2>1. setup.mgmt \in Nat /\ upstairs = 0
    BY <1>1 DEF Situation, Init
  <2> QED BY <1>1, <1>3, <1>4, <2>1 DEF MgmtFrames
<1>6. Holes = 0
  BY DEF Holes, Init, Channel
<1>7. Outside = setup.spare
  <2>1. setup.spare \in Nat /\ freeList = setup.spare /\ replenishList = 0
        /\ upstairs = 0 /\ ~freeRXPacket
    BY <1>1 DEF Situation, Init
  <2> QED BY <1>4, <2>1 DEF Outside
<1>8. setup.spare \in Nat /\ setup.mgmt \in Nat /\ setup.noMem \in Nat
  BY <1>1 DEF Situation
<1>9. /\ Outside = setup.spare + Holes /\ Outside <= setup.spare + Holes
      /\ MgmtFrames <= setup.mgmt /\ left.noMem <= setup.noMem
  BY <1>1, <1>5, <1>6, <1>7, <1>8
<1> QED BY <1>4, <1>9 DEF Counted

LEMMA InitRxIInv == Init => RxIInv
<1> SUFFICES ASSUME Init
             PROVE  RxIInv
  OBVIOUS
<1>1. Types
  <2>1. NumDesc \in Nat \ {0} /\ 0 \in Place /\ 0 \in 0 .. NumDesc
    BY SizeAssumption DEF Place
  <2>2. setup \in Situation /\ left \in Situation /\ setup \in Setups
    BY SizeAssumption DEF Init, Situation
  <2>3. freeList \in Nat
    BY <2>2 DEF Init, Situation
  <2>4. rxQ \in Seq({"isr", "avail", "power"})
    BY DEF Init
  <2>5. /\ desc \in [Channel -> [Place -> Filled \cup {"valid", "empty"}]]
        /\ dma \in [Channel -> Place] /\ head \in [Channel -> Place]
        /\ tail \in [Channel -> Place] /\ numFreeDesc \in [Channel -> 0 .. NumDesc]
        /\ numFragmentCurrentChain \in [Channel -> Nat]
    BY <2>1 DEF Init
  <2>6. /\ intSrc \subseteq Channel /\ irqDepth \in 0 .. 1
        /\ todo \in {<<>>, <<"hi">>, <<"lo">>, Channels}
        /\ frameCount \in Nat /\ replenishList \in Nat /\ upstairs \in Nat
    BY DEF Init
  <2> QED BY <2>2, <2>3, <2>4, <2>5, <2>6 DEF Init, Types
<1>2. Handling
  BY DEF Init, Handling
<1>3. Rings
  BY InitRings
<1>4. Power
  <2>1. NonePending
    BY DEF Init, NonePending, Pending
  <2> QED BY <2>1 DEF Init, Power
<1>5. InterruptAccounted
  BY DEF Init, InterruptAccounted
<1>6. setup.imps = 0 => Service
  <2>1. \A c \in Channel : ~HasFrame(c) /\ ~Serving(c) /\ c \notin intSrc
    BY DEF Init, HasFrame, Serving, Filled
  <2> QED BY <2>1 DEF Init, Service, Accounted
<1>7. Counted
  BY InitCounted
<1>8. Alone /\ RefillComes
  BY DEF Init, Alone, RefillComes
<1>9. Enough
  BY DEF Init, Enough
<1> QED BY <1>1, <1>2, <1>3, <1>4, <1>5, <1>6, <1>7, <1>8, <1>9 DEF RxIInv

LEMMA SetupStays ==
  ASSUME [Next]_vars
  PROVE  setup' = setup
BY DEF Next, vars, Receive, RxIsr, RxThread, TakeIsr, TakeAvail, TakePower,
   ReadSource, CleanInt, Pull, RefillFull, RefillWaiting, RefillAlloc, Register,
   EndPull, EndChannel, Enable, Control, Flag, RxThreadOnly, McThread,
   McThreadOnly, McReturn, McCall, McPut, McReplenish, EnterImps, SendEnter,
   LeaveImps, SetFull, TxAcks, Riva, RivaRefuses, RivaCollapses, RivaWakes,
   RivaSame

LEMMA RxIInvStep == RxIInv /\ [Next]_vars => RxIInv'
<1> SUFFICES ASSUME RxIInv, [Next]_vars
             PROVE  RxIInv'
  OBVIOUS
<1>1. /\ Types /\ Handling /\ Rings /\ Power /\ InterruptAccounted /\ Counted
      /\ setup.imps = 0 => Service
      /\ setup.mgmt = 0 => Alone /\ RefillComes
      /\ setup.noMem = 0 /\ setup.mgmt <= setup.spare => Enough
  BY DEF RxIInv
<1>2. setup' = setup
  BY SetupStays
<1>3. Types'
  BY <1>1, TypesStep
<1>4. Handling'
  BY <1>1, HandlingStep
<1>5. Rings'
  BY <1>1, RingsStep
<1>6. Power'
  BY <1>1, PowerStep
<1>7. InterruptAccounted'
  BY <1>1, InterruptStep
<1>8. setup.imps = 0 => Service'
  BY <1>1, ServiceStep
<1>9. Counted'
  BY <1>1, <1>3, CountedStep
<1>10. setup.mgmt = 0 => Alone' /\ RefillComes'
  BY <1>1, AloneStep
<1>11. setup.noMem = 0 /\ setup.mgmt <= setup.spare => Enough'
  BY <1>1, EnoughStep
<1> QED BY <1>2, <1>3, <1>4, <1>5, <1>6, <1>7, <1>8, <1>9, <1>10, <1>11 DEF RxIInv

\* The inductive invariant holds in every state: where the RX thread is, the
\* rings between their positions, the way into IMPS, the interrupt, the
\* account of the packets, and who holds the one DXE waits for.
THEOREM RxIInvariant == Spec => []RxIInv
<1>1. Init => RxIInv
  BY InitRxIInv
<1>2. RxIInv /\ [Next]_vars => RxIInv'
  BY RxIInvStep
<1> QED BY <1>1, <1>2, PTL DEF Spec

-----------------------------------------------------------------------------
(***************************************************************************)
(* The theorems.                                                           *)
(***************************************************************************)
LEMMA TypesAreTypes ==
  ASSUME Types
  PROVE  TypeOK
<1>1. {dma, head, tail} \subseteq [Channel -> Place]
  BY DEF Types
<1>2. {frameCount, freeList, replenishList, upstairs} \subseteq Nat
  BY DEF Types
<1>3. {rxIntDisabledByIMPS, driverReloadInProcessing, rxImps, lowResource,
       wpalCB, freeRXPacket, rxPalPacketUnavailable, txAck,
       setPowerStateEvent} \subseteq BOOLEAN
  BY Zenon DEF Types
<1>4. left \in [DOMAIN setup -> Nat]
  <2> DEFINE Fields == {"spare", "data", "mgmt", "imps", "noMem"}
  <2>1. ASSUME NEW s \in Situation
        PROVE  s \in [Fields -> Nat] /\ DOMAIN s = Fields
    BY <2>1 DEF Situation
  <2> QED BY <2>1 DEF Types
<1> QED BY <1>1, <1>2, <1>3, <1>4 DEF Types, TypeOK

LEMMA RegistersAreQuiet ==
  ASSUME Types, Handling, Power
  PROVE  RegistersQuiet
<1> SUFFICES ASSUME riva = "collapsed"
             PROVE  rx \notin {"source", "clean", "control"} /\ hostPowerState = "IMPS"
  BY DEF RegistersQuiet
<1>1. psm = "asleep"
  BY DEF Power
<1>2. hostPowerState = "IMPS"
  BY <1>1 DEF Power, Types
<1>3. rx \notin {"source", "clean", "control"}
  BY <1>1 DEF Handling, Power
<1> QED BY <1>2, <1>3

LEMMA HolesAreEmpties ==
  ASSUME Types, Rings, NEW c \in Channel
  PROVE  /\ Empties(c) = {(tail[c] + k) % NumDesc : k \in 0 .. numFreeDesc[c] - 1}
         /\ Cardinality(Empties(c)) = numFreeDesc[c]
<1>1. /\ desc[c] \in [Place -> Filled \cup {"valid", "empty"}]
      /\ dma[c] \in Place /\ tail[c] \in Place
      /\ numFreeDesc[c] \in 0 .. NumDesc
  BY DEF Types
<1>2. PICK n \in Nat : RingHas(desc[c], dma[c], tail[c], numFreeDesc[c], n)
  BY DEF Rings, Ring
<1> QED BY <1>1, <1>2, RingHoles DEF Empties

LEMMA AllPackets ==
  ASSUME Types, Rings, Counted
  PROVE  PacketsKept
<1>1. /\ Cardinality(Empties("hi")) = numFreeDesc["hi"]
      /\ Cardinality(Empties("lo")) = numFreeDesc["lo"]
  BY HolesAreEmpties DEF Channel
<1>2. /\ numFreeDesc["hi"] \in Nat /\ numFreeDesc["lo"] \in Nat /\ NumDesc \in Nat
      /\ freeList \in Nat /\ replenishList \in Nat /\ upstairs \in Nat
      /\ setup.spare \in Nat
  BY SizeAssumption DEF Types, Channel, Situation
<1>3. PICK f, l, u, h, k, s, m \in Nat :
        /\ f = freeList /\ l = replenishList /\ u = upstairs
        /\ h = numFreeDesc["hi"] /\ k = numFreeDesc["lo"]
        /\ s = setup.spare /\ m = NumDesc
  BY <1>2
<1>4. PICK a, b \in 0 .. 1 : /\ a = IF freeRXPacket THEN 1 ELSE 0
                             /\ b = IF InCall THEN 1 ELSE 0
  OBVIOUS
<1>5. Packets = f + l + u + a + b + 2 * m - h - k
  BY <1>1, <1>3, <1>4 DEF Packets, InCall
<1>6. Outside = f + l + u + a + b /\ Holes = h + k
  BY <1>3, <1>4 DEF Outside, Holes
<1>7. f + l + u + a + b <= s + (h + k)
  BY <1>3, <1>6 DEF Counted
<1>8. Ample => f + l + u + a + b = s + (h + k)
  BY <1>3, <1>6 DEF Counted
<1>9. Packets <= s + 2 * m
  BY <1>5, <1>7
<1>10. Ample => Packets = s + 2 * m
  BY <1>5, <1>8
<1> QED BY <1>3, <1>9, <1>10 DEF PacketsKept

\* RxInv in every state, for rings of any size and every situation: no
\* register of a collapsed device is touched, the holes of a ring are the
\* numFreeDesc descriptors from its tail on, the head is on the oldest frame,
\* an interrupt that is off will be enabled, and no packet is in two places
\* or lost.
THEOREM RxInvCorrect == Spec => []RxInv
<1>1. RxIInv => RxInv
  <2> SUFFICES ASSUME RxIInv
               PROVE  RxInv
    OBVIOUS
  <2>1. Types /\ Handling /\ Rings /\ Power /\ InterruptAccounted /\ Counted
    BY DEF RxIInv
  <2>2. TypeOK
    BY <2>1, TypesAreTypes
  <2>3. RegistersQuiet
    BY <2>1, RegistersAreQuiet
  <2>4. DescriptorsKept
    BY <2>1, HolesAreEmpties DEF DescriptorsKept
  <2>5. HeadInSync
    BY <2>1, HeadIsInSync DEF HeadInSync, Taken
  <2>6. PacketsKept
    BY <2>1, AllPackets
  <2> QED BY <2>1, <2>2, <2>3, <2>4, <2>5, <2>6 DEF RxInv
<1> QED BY <1>1, RxIInvariant, PTL

\* A driver that does not enter IMPS has, with all threads at rest and a
\* frame in a ring, an interrupt coming.
THEOREM NothingStuckAwakeCorrect == Spec => []NothingStuckAwake
<1>1. RxIInv => NothingStuckAwake
  <2> SUFFICES ASSUME RxIInv, setup.imps = 0, Quiet, NEW c \in Channel, HasFrame(c)
               PROVE  irqDepth = 0 /\ intSrc # {}
    BY DEF NothingStuckAwake, NothingStuck
  <2>1. Types /\ Handling /\ InterruptAccounted /\ Service
    BY DEF RxIInv
  <2>2. rx = "idle" /\ rxFor = "none" /\ ~InQueue("isr") /\ ~Serving(c)
    BY <2>1 DEF Quiet, Handling, InQueue, Serving
  <2>3. c \in intSrc
    BY <2>1, <2>2 DEF Service, Accounted
  <2>4. ~(irqDepth > 0)
    BY <2>1, <2>2 DEF InterruptAccounted, Service
  <2>5. irqDepth = 0
    BY <2>1, <2>4 DEF Types
  <2> QED BY <2>3, <2>5
<1> QED BY <1>1, RxIInvariant, PTL

\* Nor is that driver ever reloaded for interrupts without a frame.
THEOREM NoReloadCorrect == Spec => []NoReload
<1>1. RxIInv => NoReload
  BY DEF RxIInv, Service, NoReload
<1> QED BY <1>1, RxIInvariant, PTL

\* While management frames do not exhaust the pool, DXE waits for a packet
\* only if it will be told of one.
THEOREM RefillComesCorrect == Spec => []RefillComesIfAmple
<1>1. RxIInv => RefillComesIfAmple
  BY DEF RxIInv, RefillComesIfAmple, Ample, Enough, RefillComes
<1> QED BY <1>1, RxIInvariant, PTL

=============================================================================
