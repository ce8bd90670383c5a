--------------------------- MODULE TxPath_proofs ---------------------------
(***************************************************************************)
(* Proofs about TxPath, for any number of categories, queues and rings of  *)
(* any size, any weight, low-water mark and threshold.                     *)
(***************************************************************************)
EXTENDS TxPath, FiniteSetTheorems, WellFoundedInduction, NaturalsInduction, TLAPS

-----------------------------------------------------------------------------
(***************************************************************************)
(* The inductive invariant.                                                *)
(***************************************************************************)

\* In the data pass a frame can still be chosen in Loop; it is being chosen
\* and fetched in Choosing.  Between two passes is Apart.
Choosing == {"clear", "scan", "flags", "fetch", "failed", "take", "taken"}
Loop     == {"data"} \cup Choosing
Apart    == {"idle", "clean", "comp", "arm"}

\* A sender has room for its frame; the category chosen has weight left, and
\* the frame to be fetched is still there.
Queues ==
  /\ \A a \in AC :
       /\ xm[a] \in {"lockMask", "lockPend", "lockPost", "full?", "insert"}
            => sent[a] < setup.frames[a]
       /\ xm[a] = "insert" => q[a] < MaxQ
  /\ tx \in Choosing => ucCurrentWeight > 0
  /\ tx \in {"take", "taken"} => fetchSize > 0
  /\ tx = "take" => q[ucCurrentAC] >= fetchSize
  /\ tx = "taken" => q[ucCurrentAC] + 1 >= fetchSize

\* What TL thinks it has left of the ring of its pass, it has; the pass was
\* told the truth about the ring.
Resources ==
  /\ \A c \in Channel : FreeDesc(c) >= 0
  /\ tx = "mgmt" => uResCount = FreeDesc("hi") - ResLen * chain
  /\ tx \in Loop \cup {"push"} => uResCount = FreeDesc("lo") - ResLen * chain
  /\ tx \in Choosing => uResCount >= MinResData
  /\ tx \in {"complete"} \cup Apart => chain = 0
  /\ tx \in Loop => (flowArg <=> "lo" \in flow)

\* A ring is off exactly while it is in low resource, as it is when it has
\* few descriptors left, and then it has frames to reclaim.
LowResource ==
  \A c \in Channel :
    /\ c \in flow <=> ~hitLowResource[c]
    /\ FreeDesc(c) <= Threshold => hitLowResource[c]
    /\ hitLowResource[c] => InRing(c) > 0

\* What the driver takes for an enabled interrupt is one, or one whose
\* handler is under way; and a frame to reclaim has raised one.
Interrupts ==
  /\ txIntEnable => intOn \/ isr = "post"
  /\ \A c \in Channel :
       done[c] > 0 => c \in rawInt \/ (tx = "comp" /\ c = EventChannel)

\* Another pass will come: it is asked for, or will be by CompleteTX, or by
\* the recovery of the low priority ring.
PassComes ==
  \/ startXmit > 0
  \/ tx = "push" /\ (txResReq > 0 \/ hitLowResource["lo"] \/ uResCount <= Threshold)
  \/ tx = "complete" /\ (txResReq > 0 \/ hitLowResource["lo"])
  \/ tx \in Apart /\ hitLowResource["lo"]

\* Who finds too few resources to ask for a pass may rely on one.
ResourcesCome ==
  tx \notin {"mgmt"} \cup Loop /\ uResCount < MinResData => PassComes

\* A management frame that waits is about to be announced, or will be seen.
MgmtServed == mgmtPending => mc = "mgmt" \/ tx \in {"mgmt", "data"} \/ PassComes

\* A queue with frames is announced, or about to be; or a packet of the pool
\* is waited for; or the TX thread is at this queue.
QueueAnnounced ==
  \A a \in AC :
    q[a] > 0 => \/ aucACMask[a] \/ xm[a] = "mask" \/ lowResCb
                \/ tx \in {"scan", "flags", "fetch", "take", "taken"} /\ ucCurrentAC = a

\* What is announced is seen by a pass, unless data is suspended.
AnnouncedServed ==
  ucPktPending /\ Announced # {} /\ ~ucTxSuspended =>
    \/ \E a \in AC : xm[a] \in {"lockPend", "pend", "lockPost", "post"}
    \/ mc = "resume" \/ tx \in {"mgmt"} \cup Loop \/ PassComes

TxIInv ==
  /\ TypeOK /\ Queues /\ Resources /\ LowResource
  /\ InterruptArmed /\ Interrupts /\ StoppedWillWake /\ PacketsKept
  /\ ResourcesCome /\ MgmtServed /\ QueueAnnounced /\ AnnouncedServed

-----------------------------------------------------------------------------
(***************************************************************************)
(* Facts about the data.                                                   *)
(***************************************************************************)
USE DEF hddVars, xmVars, poolVars, acVars, curVars, mcVars, passVars,
        ringVars, lowVars, intVars, ResLen, MinResMF, MinResData, AC, VO

\* The sizes of queues, rings and pool.
LEMMA Sizes ==
  /\ NumAC \in Nat /\ NumAC > 0 /\ MaxQ \in Nat /\ MaxQ > 0
  /\ LowWater \in Nat /\ LowWater > 0 /\ LowWater < MaxQ
  /\ AnnounceEvery \in Nat /\ AnnounceEvery > 0 /\ Weight \in Nat /\ Weight > 0
  /\ HiRes \in Nat /\ Threshold \in Nat /\ MaxMsg \in Nat
  /\ 4 <= Threshold /\ Threshold < HiRes
  /\ \A s \in Setups : /\ s.lo \in Nat /\ Threshold < s.lo
                       /\ s.pool \in Nat /\ s.pool > 0
                       /\ s.frames \in [AC -> Nat] /\ s.mgmt \in Nat
<1>1. /\ {NumAC, MaxQ, LowWater, AnnounceEvery, Weight} \subseteq Nat \ {0}
      /\ {HiRes, Threshold, MaxMsg} \subseteq Nat
      /\ LowWater < MaxQ /\ 4 <= Threshold
  BY SizeAssumption
<1>2. \A n \in {HiRes} \cup {s.lo : s \in Setups} : Threshold < n
  BY SizeAssumption
<1>3. Threshold < HiRes /\ \A s \in Setups : Threshold < s.lo
  BY <1>2
<1>4. \A s \in Setups : s.lo \in Nat /\ s.pool \in Nat \ {0} /\ s.frames \in [AC -> Nat] /\ s.mgmt \in Nat
  BY SizeAssumption
<1> QED BY <1>1, <1>3, <1>4

\* The ring of a channel has more descriptors than the threshold.
LEMMA RingSize ==
  ASSUME TypeOK
  PROVE  \A c \in Channel : Res(c) \in Nat /\ Threshold < Res(c)
  BY Sizes DEF TypeOK, Res

\* What is in a ring, and what is left of it.
LEMMA RingNumbers ==
  ASSUME TypeOK
  PROVE  /\ "lo" \in Channel /\ "hi" \in Channel
         /\ \A c \in Channel :
              /\ posted[c] \in Nat /\ done[c] \in Nat
              /\ InRing(c) \in Nat /\ InRing(c) = posted[c] + done[c]
              /\ FreeDesc(c) \in Int /\ FreeDesc(c) = Res(c) - ResLen * InRing(c)
<1>1. posted \in [Channel -> Nat] /\ done \in [Channel -> Nat]
  BY DEF TypeOK
<1> QED BY <1>1, RingSize DEF Channel, InRing, FreeDesc

\* Of a set of categories there is one that comes first.
LEMMA FirstFromElement ==
  ASSUME NEW a \in Int, NEW S \in SUBSET AC, S # {}
  PROVE  FirstFrom(a, S) \in S
<1> DEFINE D == {(a - b) % NumAC : b \in S}
<1>1. \A b \in S : (a - b) % NumAC \in Nat
  BY Sizes
<1>2. D \subseteq Nat /\ D # {}
  BY <1>1
<1>3. PICK d \in D : \A e \in D : ~(<<e, d>> \in OpToRel(<, Nat))
  BY <1>2, WFMin, NatLessThanWellFounded
<1>4. \A e \in D : d <= e
  <2>1. ASSUME NEW e \in D PROVE d <= e
    <3>1. d \in Nat /\ e \in Nat
      BY <1>2
    <3>2. ~(e < d)
      BY <1>3, <3>1 DEF OpToRel
    <3> QED BY <3>1, <3>2
  <2> QED BY <2>1
<1>5. PICK b \in S : d = (a - b) % NumAC
  OBVIOUS
<1>6. \A e \in S : (a - b) % NumAC <= (a - e) % NumAC
  BY <1>4, <1>5
<1> QED BY <1>6 DEF FirstFrom

\* How many categories or rings are announced or recover is a number, and
\* not zero if there is one.
LEMMA CountIsNat ==
  ASSUME NEW S, S \subseteq AC \/ S \subseteq Channel
  PROVE  Cardinality(S) \in Nat /\ (S # {} => Cardinality(S) > 0)
<1>1. IsFiniteSet(AC)
  BY FS_Interval, Sizes
<1>2. IsFiniteSet(Channel)
  <2>1. IsFiniteSet({"lo"})
    BY FS_Singleton
  <2>2. Channel = {"lo"} \cup {"hi"}
    BY DEF Channel
  <2> QED BY <2>1, <2>2, FS_AddElement
<1>3. IsFiniteSet(S)
  BY <1>1, <1>2, FS_Subset
<1> QED BY <1>3, FS_CardinalityType, FS_EmptySet


\* A chain of frames is pushed on a ring.
LEMMA Pushed ==
  ASSUME TypeOK, NEW c \in Channel, PushChain(c), done' = done, setup' = setup
  PROVE  /\ posted' \in [Channel -> Nat] /\ flow' \subseteq Channel
         /\ hitLowResource' \in [Channel -> BOOLEAN]
         /\ InRing(c)' = InRing(c) + chain
         /\ FreeDesc(c)' = FreeDesc(c) - ResLen * chain
         /\ LET low == chain > 0 /\ FreeDesc(c)' <= Threshold
            IN  /\ c \in flow' <=> c \in flow /\ ~low
                /\ hitLowResource'[c] <=> hitLowResource[c] \/ low
         /\ \A d \in Channel \ {c} :
              /\ InRing(d)' = InRing(d) /\ FreeDesc(d)' = FreeDesc(d)
              /\ d \in flow' <=> d \in flow
              /\ hitLowResource'[d] = hitLowResource[d]
<1>1. /\ posted \in [Channel -> Nat] /\ done \in [Channel -> Nat] /\ chain \in Nat
      /\ hitLowResource \in [Channel -> BOOLEAN] /\ flow \subseteq Channel
  BY DEF TypeOK
<1>2. /\ posted' = [posted EXCEPT ![c] = @ + chain] /\ posted' \in [Channel -> Nat]
      /\ posted'[c] = posted[c] + chain
      /\ \A d \in Channel \ {c} : posted'[d] = posted[d]
  BY <1>1 DEF PushChain
<1>3. \A d \in Channel : Res(d)' = Res(d) /\ Res(d) \in Nat
  BY RingSize DEF Res
<1>4. /\ InRing(c)' = InRing(c) + chain /\ FreeDesc(c)' = FreeDesc(c) - ResLen * chain
      /\ \A d \in Channel \ {c} : InRing(d)' = InRing(d) /\ FreeDesc(d)' = FreeDesc(d)
  BY <1>1, <1>2, <1>3 DEF InRing, FreeDesc
<1> DEFINE low == chain > 0 /\ FreeDesc(c)' <= Threshold
<1>5. /\ flow' = IF low THEN flow \ {c} ELSE flow
      /\ hitLowResource' = [hitLowResource EXCEPT ![c] = @ \/ low]
  BY <1>4 DEF PushChain
<1> HIDE DEF low
<1>6. /\ flow' \subseteq Channel /\ (c \in flow' <=> c \in flow /\ ~low)
      /\ \A d \in Channel \ {c} : d \in flow' <=> d \in flow
  BY <1>1, <1>5
<1>7. /\ hitLowResource' \in [Channel -> BOOLEAN]
      /\ hitLowResource'[c] <=> hitLowResource[c] \/ low
      /\ \A d \in Channel \ {c} : hitLowResource'[d] = hitLowResource[d]
  BY <1>1, <1>5, Zenon
<1> QED BY <1>2, <1>4, <1>6, <1>7 DEF low

\* The frames that the device has taken from the rings of C are reclaimed.
LEMMA Reclaimed ==
  ASSUME TypeOK, NEW C \in SUBSET Channel, CompFrame(C), posted' = posted
  PROVE  /\ done' \in [Channel -> Nat]
         /\ \A c \in Channel :
              /\ done'[c] = IF c \in C THEN 0 ELSE done[c]
              /\ c \notin C => InRing(c)' = InRing(c)
              /\ InRing(c)' = posted[c] + done'[c] /\ InRing(c)' <= InRing(c)
              /\ InRing(c) \in Nat /\ InRing(c)' \in Nat
              /\ FreeDesc(c) \in Int /\ FreeDesc(c)' \in Int
              /\ FreeDesc(c)' = Res(c) - ResLen * InRing(c)'
              /\ FreeDesc(c) <= FreeDesc(c)'
              /\ c \in Recovered(C) <=> /\ c \in C /\ InRing(c) > 0
                                       /\ hitLowResource[c] /\ FreeDesc(c)' > Threshold
<1>1. posted \in [Channel -> Nat] /\ done \in [Channel -> Nat]
  BY DEF TypeOK
<1>2. /\ done' \in [Channel -> Nat]
      /\ \A c \in Channel : done'[c] = IF c \in C THEN 0 ELSE done[c]
  BY <1>1 DEF CompFrame
<1>3. \A c \in Channel : Res(c)' = Res(c) /\ Res(c) \in Nat
  BY RingSize DEF Res, CompFrame
<1>4. \A c \in Channel :
        /\ InRing(c)' = posted[c] + done'[c] /\ InRing(c) = posted[c] + done[c]
        /\ FreeDesc(c)' = Res(c) - ResLen * InRing(c)'
        /\ FreeDesc(c) = Res(c) - ResLen * InRing(c)
  BY <1>3 DEF InRing, FreeDesc
<1>5. \A c \in Channel :
        /\ InRing(c) \in Nat /\ InRing(c)' \in Nat /\ InRing(c)' <= InRing(c)
        /\ FreeDesc(c) \in Int /\ FreeDesc(c)' \in Int /\ FreeDesc(c) <= FreeDesc(c)'
        /\ c \notin C => InRing(c)' = InRing(c)
  BY <1>1, <1>2, <1>3, <1>4
<1>6. \A c \in C : FreeDesc(c)' = Res(c) - ResLen * posted[c]
  BY <1>1, <1>2, <1>3, <1>4
<1> QED BY <1>2, <1>4, <1>5, <1>6 DEF Recovered

\* What that posts.
LEMMA PostedIsNat ==
  ASSUME TypeOK, NEW C \in SUBSET Channel
  PROVE  /\ PostedBy(C) \in Nat
         /\ Recovered(C) # {} => PostedBy(C) > 0
         /\ MayStart /\ Reannounced(C) # {} => PostedBy(C) > 0
<1>1. /\ Cardinality(Recovered(C)) \in Nat
      /\ Recovered(C) # {} => Cardinality(Recovered(C)) > 0
  BY CountIsNat DEF Recovered
<1>2. /\ Cardinality(Reannounced(C)) \in Nat
      /\ Reannounced(C) # {} => Cardinality(Reannounced(C)) > 0
  BY CountIsNat DEF Reannounced
<1> QED BY <1>1, <1>2 DEF PostedBy

\* A ring leaves low resource when enough of it has been reclaimed.
LEMMA LowResourceReclaimed ==
  ASSUME TypeOK, LowResource, NEW C \in SUBSET Channel, CompFrame(C), posted' = posted,
         flow' = flow \cup Recovered(C),
         \A c \in Channel : hitLowResource'[c] <=> hitLowResource[c] /\ c \notin Recovered(C)
  PROVE  LowResource'
<1> SUFFICES ASSUME NEW c \in Channel
             PROVE  /\ c \in flow' <=> ~hitLowResource'[c]
                    /\ FreeDesc(c)' <= Threshold => hitLowResource'[c]
                    /\ hitLowResource'[c] => InRing(c)' > 0
  BY DEF LowResource
<1>1. /\ InRing(c) \in Nat /\ InRing(c)' \in Nat
      /\ FreeDesc(c) \in Int /\ FreeDesc(c)' \in Int
      /\ FreeDesc(c)' = Res(c) - ResLen * InRing(c)' /\ FreeDesc(c) <= FreeDesc(c)'
      /\ Res(c) \in Nat /\ Threshold < Res(c) /\ Threshold \in Nat
      /\ c \notin C => InRing(c)' = InRing(c)
  BY Reclaimed, RingSize, Sizes
<1>2. /\ c \in flow <=> ~hitLowResource[c]
      /\ FreeDesc(c) <= Threshold => hitLowResource[c]
      /\ hitLowResource[c] => InRing(c) > 0
  BY DEF LowResource
<1>3. c \in Recovered(C) <=> /\ c \in C /\ InRing(c) > 0
                            /\ hitLowResource[c] /\ FreeDesc(c)' > Threshold
  BY Reclaimed
<1>4. c \in flow' <=> ~hitLowResource'[c]
  BY <1>2, <1>3
<1>5. FreeDesc(c)' <= Threshold => hitLowResource'[c]
  BY <1>1, <1>2, <1>3
<1>6. hitLowResource'[c] => InRing(c)' > 0
  BY <1>1, <1>2, <1>3
<1> QED BY <1>4, <1>5, <1>6

\* CompleteTX finds low resource wherever it finds too little for TL, and
\* wherever it does not, it starts TL, or finds low resource, too.
LEMMA Completed ==
  ASSUME TypeOK, LowResource, CompleteTX
  PROVE  /\ flow' = flow \cup Recovered(Channel)
         /\ hitLowResource' \in [Channel -> BOOLEAN]
         /\ \A c \in Channel :
              hitLowResource'[c] <=> hitLowResource[c] /\ c \notin Recovered(Channel)
         /\ startXmit' \in Nat /\ startXmit' >= startXmit + PostedBy(Channel)
         /\ txResReq > 0 => startXmit' > 0 \/ hitLowResource'["lo"]
<1> DEFINE rec == Recovered(Channel)
           enough == setup.lo - ResLen * posted["lo"] >= txResReq
           again == txResReq > 0 /\ enough /\ ~hitLowResource["lo"]
           starved == txResReq > 0 /\ ~enough
                      /\ ~(hitLowResource["lo"] /\ "lo" \notin rec)
<1>1. /\ CompFrame(Channel) /\ posted' = posted
      /\ flow' = (flow \cup rec) \ (IF starved THEN {"lo"} ELSE {})
      /\ hitLowResource' = [c \in Channel |->
                              \/ hitLowResource[c] /\ c \notin rec
                              \/ c = "lo" /\ starved]
      /\ startXmit' = startXmit + PostedBy(Channel) + (IF again THEN 1 ELSE 0)
  BY DEF CompleteTX
<1>2. "lo" \in Channel /\ Channel \in SUBSET Channel
  BY DEF Channel
<1>3. /\ posted["lo"] \in Nat /\ done'["lo"] = 0 /\ setup.lo \in Nat
      /\ Res("lo") = setup.lo /\ txResReq \in {0, 1, 3}
  BY <1>1, <1>2, Reclaimed, Sizes DEF TypeOK, Res
<1>4. FreeDesc("lo")' = setup.lo - ResLen * posted["lo"]
  BY <1>1, <1>2, <1>3, Reclaimed
<1>5. /\ FreeDesc("lo") \in Int /\ FreeDesc("lo") <= FreeDesc("lo")'
      /\ FreeDesc("lo") <= Threshold => hitLowResource["lo"]
      /\ "lo" \in rec => FreeDesc("lo")' > Threshold
  BY <1>1, <1>2, Reclaimed DEF LowResource
<1>6. txResReq > 0 /\ ~enough => hitLowResource["lo"] /\ "lo" \notin rec
  BY <1>3, <1>4, <1>5, Sizes
<1>7. ~starved
  BY <1>6
<1>8. PostedBy(Channel) \in Nat /\ (rec # {} => PostedBy(Channel) > 0) /\ startXmit \in Nat
  BY <1>2, PostedIsNat DEF TypeOK
<1> HIDE DEF rec, enough, starved
<1>9. /\ flow' = flow \cup rec /\ hitLowResource' \in [Channel -> BOOLEAN]
      /\ \A c \in Channel : hitLowResource'[c] <=> hitLowResource[c] /\ c \notin rec
  BY <1>1, <1>7, Zenon DEF TypeOK
<1>10. startXmit' \in Nat /\ startXmit' >= startXmit + PostedBy(Channel)
  BY <1>1, <1>8
<1>11. txResReq > 0 => startXmit' > 0 \/ hitLowResource'["lo"]
  <2>1. CASE again
    BY <1>1, <1>8, <2>1
  <2>2. CASE ~enough
    BY <1>2, <1>6, <1>9, <2>2
  <2>3. CASE hitLowResource["lo"] /\ "lo" \in rec
    BY <1>1, <1>8, <2>3
  <2>4. CASE hitLowResource["lo"] /\ "lo" \notin rec
    BY <1>2, <1>9, <2>4
  <2> QED BY <2>1, <2>2, <2>3, <2>4
<1> QED BY <1>9, <1>10, <1>11 DEF rec

LEMMA ChannelsOfEvent ==
  Channel \in SUBSET Channel /\ EventChannel \in Channel /\ {EventChannel} \in SUBSET Channel
  BY DEF Channel, EventChannel

\* The packets that come back have been out.
LEMMA ReturnedFits ==
  ASSUME TypeOK, PacketsKept, NEW C \in SUBSET Channel
  PROVE  Returned(C) \in Nat /\ freePkts + Returned(C) \in 0 .. setup.pool
<1>1. /\ InRing("lo") \in Nat /\ done["lo"] \in Nat /\ done["lo"] <= InRing("lo")
      /\ chain \in Nat /\ freePkts \in Nat /\ setup.pool \in Nat
  BY RingNumbers, Sizes, SMTT(30) DEF TypeOK
<1>2. setup.pool - freePkts >= InRing("lo")
  BY <1>1 DEF PacketsKept, PacketsOut
<1>3. Returned(C) \in {0, done["lo"]}
  BY DEF Returned
<1> QED BY <1>1, <1>2, <1>3

\* The device takes a frame, and the ring is as full as before.
LEMMA Consumed ==
  ASSUME TypeOK, NEW c \in Channel, Consume(c)
  PROVE  /\ \A d \in Channel : InRing(d)' = InRing(d) /\ FreeDesc(d)' = FreeDesc(d)
         /\ UNCHANGED <<flow, hitLowResource>>
<1>1. /\ posted \in [Channel -> Nat] /\ done \in [Channel -> Nat] /\ posted[c] > 0
      /\ posted' = [posted EXCEPT ![c] = @ - 1] /\ done' = [done EXCEPT ![c] = @ + 1]
  BY DEF TypeOK, Consume
<1>2. \A d \in Channel : InRing(d)' = InRing(d)
  BY <1>1 DEF InRing
<1>3. \A d \in Channel : Res(d)' = Res(d)
  BY DEF Consume, Res
<1> QED BY <1>2, <1>3 DEF FreeDesc, Consume

\* What TL has left of the low priority ring is what DXE finds left.
LEMMA PushedLow ==
  ASSUME TypeOK, Resources, LowResource, PushData
  PROVE  /\ FreeDesc("lo")' = uResCount
         /\ uResCount <= Threshold \/ hitLowResource["lo"] => hitLowResource'["lo"]
<1>1. /\ PushChain("lo") /\ done' = done /\ setup' = setup /\ chain \in Nat
      /\ uResCount = FreeDesc("lo") - ResLen * chain
  BY DEF PushData, Resources, TypeOK
<1>2. /\ FreeDesc("lo")' = FreeDesc("lo") - ResLen * chain /\ FreeDesc("lo") \in Int
      /\ hitLowResource'["lo"] <=>
           hitLowResource["lo"] \/ (chain > 0 /\ FreeDesc("lo")' <= Threshold)
  BY <1>1, RingNumbers, Pushed
<1>3. FreeDesc("lo") <= Threshold => hitLowResource["lo"]
  BY RingNumbers DEF LowResource
<1> QED BY <1>1, <1>2, <1>3, Sizes

\* A ring that leaves low resource starts TL.
LEMMA RecoveryPosts ==
  ASSUME TypeOK, NEW C \in SUBSET Channel,
         startXmit' \in Nat, startXmit' >= startXmit + PostedBy(C),
         \A c \in Channel : hitLowResource'[c] <=> hitLowResource[c] /\ c \notin Recovered(C)
  PROVE  /\ hitLowResource["lo"] => hitLowResource'["lo"] \/ startXmit' > 0
         /\ startXmit > 0 => startXmit' > 0
         /\ MayStart /\ Reannounced(C) # {} => startXmit' > 0
<1>1. startXmit \in Nat /\ PostedBy(C) \in Nat /\ (Recovered(C) # {} => PostedBy(C) > 0)
      /\ (MayStart /\ Reannounced(C) # {} => PostedBy(C) > 0)
  BY PostedIsNat DEF TypeOK
<1> QED BY <1>1, RingNumbers

\* The event handler reclaims a ring.
LEMMA Evented ==
  ASSUME TypeOK, EventComp
  PROVE  /\ {EventChannel} \in SUBSET Channel /\ CompFrame({EventChannel})
         /\ flow' = flow \cup Recovered({EventChannel}) /\ posted' = posted
         /\ startXmit' \in Nat /\ startXmit' >= startXmit + PostedBy({EventChannel})
         /\ \A c \in Channel :
              hitLowResource'[c] <=> hitLowResource[c] /\ c \notin Recovered({EventChannel})
<1>1. {EventChannel} \in SUBSET Channel /\ startXmit \in Nat /\ hitLowResource \in [Channel -> BOOLEAN]
  BY ChannelsOfEvent DEF TypeOK
<1>2. PostedBy({EventChannel}) \in Nat
  BY <1>1, PostedIsNat
<1>3. hitLowResource' = [c \in Channel |-> hitLowResource[c] /\ c \notin Recovered({EventChannel})]
  BY DEF EventComp
<1>4. \A c \in Channel :
        hitLowResource'[c] <=> hitLowResource[c] /\ c \notin Recovered({EventChannel})
  BY <1>1, <1>3, Zenon
<1>5. startXmit' = startXmit + PostedBy({EventChannel})
  BY DEF EventComp
<1> QED BY <1>1, <1>2, <1>4, <1>5 DEF EventComp

\* The numbers of a state.
LEMMA Numbers ==
  ASSUME TypeOK
  PROVE  /\ ucCurrentAC \in AC /\ fetchSize \in Nat /\ uResCount \in Nat
         /\ startXmit \in Nat /\ chain \in Nat /\ txResReq \in {0, 1, MinResData}
         /\ freePkts \in Nat /\ setup.pool \in Nat /\ freePkts <= setup.pool
         /\ MaxQ \in Nat /\ \A a \in AC : q[a] \in Nat /\ q[a] <= MaxQ /\ sent[a] \in Nat
<1>1. q \in [AC -> 0 .. MaxQ] /\ sent \in [AC -> Nat] /\ setup \in Setups
  BY DEF TypeOK
<1>2. \A a \in AC : q[a] \in 0 .. MaxQ /\ sent[a] \in Nat
  BY <1>1
<1> QED BY <1>1, <1>2, Sizes DEF TypeOK

\* A sender finds its queue full, or not.
LEMMA Refused ==
  ASSUME TypeOK, NEW a \in AC, XmitFull(a)
  PROVE  /\ xm'[a] = IF q[a] = MaxQ THEN "idle" ELSE "insert"
         /\ osStopped'[a] <=> osStopped[a] \/ q[a] = MaxQ
         /\ isTxSuspended'[a] <=> isTxSuspended[a] \/ q[a] = MaxQ
         /\ \A b \in AC \ {a} : /\ xm'[b] = xm[b] /\ osStopped'[b] = osStopped[b]
                                /\ isTxSuspended'[b] = isTxSuspended[b]
<1>1. /\ xm \in [AC -> {"idle", "lockMask", "lockPend", "lockPost", "full?",
                        "insert", "mask", "pend", "post"}]
      /\ osStopped \in [AC -> BOOLEAN] /\ isTxSuspended \in [AC -> BOOLEAN]
  BY DEF TypeOK
<1>2. CASE q[a] = MaxQ
  BY <1>1, <1>2 DEF XmitFull
<1>3. CASE q[a] # MaxQ
  BY <1>1, <1>3 DEF XmitFull
<1> QED BY <1>2, <1>3

\* A sender inserts its frame.
LEMMA Inserted ==
  ASSUME TypeOK, NEW a \in AC, XmitInsert(a)
  PROVE  /\ xm'[a] = IF q[a] = 0 THEN "mask" ELSE "idle"
         /\ q'[a] = q[a] + 1 /\ sent'[a] = sent[a] + 1
         /\ \A b \in AC \ {a} : xm'[b] = xm[b] /\ q'[b] = q[b] /\ sent'[b] = sent[b]
<1>1. /\ xm \in [AC -> {"idle", "lockMask", "lockPend", "lockPost", "full?",
                        "insert", "mask", "pend", "post"}]
      /\ q \in [AC -> 0 .. MaxQ] /\ sent \in [AC -> Nat]
  BY DEF TypeOK
<1>2. /\ q' = [q EXCEPT ![a] = @ + 1] /\ sent' = [sent EXCEPT ![a] = @ + 1]
      /\ xm' = [xm EXCEPT ![a] = IF q[a] = 0 THEN "mask" ELSE "idle"]
  BY DEF XmitInsert
<1>3. /\ q'[a] = q[a] + 1 /\ sent'[a] = sent[a] + 1
      /\ \A b \in AC \ {a} : q'[b] = q[b] /\ sent'[b] = sent[b]
  BY <1>1, <1>2
<1>4. /\ xm'[a] = IF q[a] = 0 THEN "mask" ELSE "idle"
      /\ \A b \in AC \ {a} : xm'[b] = xm[b]
  BY <1>1, <1>2
<1> QED BY <1>3, <1>4

\* A sender sets the bit of its category.
LEMMA Masked ==
  ASSUME TypeOK, NEW a \in AC, XmitMask(a)
  PROVE  /\ xm'[a] = IF xm[a] = "mask" THEN "pend" ELSE "lockPend"
         /\ aucACMask'[a]
         /\ \A b \in AC \ {a} : xm'[b] = xm[b] /\ aucACMask'[b] = aucACMask[b]
<1>1. /\ xm \in [AC -> {"idle", "lockMask", "lockPend", "lockPost", "full?",
                        "insert", "mask", "pend", "post"}]
      /\ aucACMask \in [AC -> BOOLEAN]
  BY DEF TypeOK
<1>2. /\ aucACMask' = [aucACMask EXCEPT ![a] = TRUE]
      /\ xm' = [xm EXCEPT ![a] = IF @ = "mask" THEN "pend" ELSE "lockPend"]
  BY DEF XmitMask
<1> QED BY <1>1, <1>2

\* The TX thread removes a frame from its queue.
LEMMA Removed ==
  ASSUME TypeOK, FetchRemove
  PROVE  /\ q'[ucCurrentAC] = q[ucCurrentAC] - 1
         /\ \A b \in AC \ {ucCurrentAC} : q'[b] = q[b]
<1>1. q \in [AC -> 0 .. MaxQ] /\ ucCurrentAC \in AC
  BY DEF TypeOK
<1>2. q' = [q EXCEPT ![ucCurrentAC] = @ - 1]
  BY DEF FetchRemove
<1> QED BY <1>1, <1>2

\* The TX thread has fetched a frame.
LEMMA Fetched ==
  ASSUME TypeOK, FetchTake
  PROVE  /\ aucACMask'[ucCurrentAC]
         /\ osStopped'[ucCurrentAC] <=> osStopped[ucCurrentAC] /\ ~Wakes(ucCurrentAC)
         /\ isTxSuspended'[ucCurrentAC] <=> isTxSuspended[ucCurrentAC] /\ ~Wakes(ucCurrentAC)
         /\ \A b \in AC \ {ucCurrentAC} :
              /\ aucACMask'[b] = aucACMask[b] /\ osStopped'[b] = osStopped[b]
              /\ isTxSuspended'[b] = isTxSuspended[b]
<1> DEFINE w == ~Wakes(ucCurrentAC)
<1>1. /\ aucACMask \in [AC -> BOOLEAN] /\ osStopped \in [AC -> BOOLEAN]
      /\ isTxSuspended \in [AC -> BOOLEAN] /\ ucCurrentAC \in AC
  BY DEF TypeOK
<1>2. /\ aucACMask' = [aucACMask EXCEPT ![ucCurrentAC] = TRUE]
      /\ isTxSuspended' = [isTxSuspended EXCEPT ![ucCurrentAC] = @ /\ w]
      /\ osStopped' = [osStopped EXCEPT ![ucCurrentAC] = @ /\ w]
  BY DEF FetchTake
<1> HIDE DEF w
<1>3. aucACMask'[ucCurrentAC] /\ \A b \in AC \ {ucCurrentAC} : aucACMask'[b] = aucACMask[b]
  BY <1>1, <1>2
<1>4. /\ osStopped'[ucCurrentAC] <=> osStopped[ucCurrentAC] /\ w
      /\ \A b \in AC \ {ucCurrentAC} : osStopped'[b] = osStopped[b]
  BY <1>1, <1>2, Zenon
<1>5. /\ isTxSuspended'[ucCurrentAC] <=> isTxSuspended[ucCurrentAC] /\ w
      /\ \A b \in AC \ {ucCurrentAC} : isTxSuspended'[b] = isTxSuspended[b]
  BY <1>1, <1>2, Zenon
<1> QED BY <1>3, <1>4, <1>5 DEF w

\* hdd_tx_low_resource_cbk announces every queue with frames, and is not
\* registered any more.
LEMMA CalledBack ==
  ASSUME TypeOK, NEW C \in SUBSET Channel, CompFrame(C)
  PROVE  /\ lowResCb' <=> lowResCb /\ ~CallsBack(C)
         /\ ucPktPending' <=> ucPktPending \/ Reannounced(C) # {}
         /\ \A a \in AC : /\ aucACMask'[a] <=> aucACMask[a] \/ a \in Reannounced(C)
                          /\ CallsBack(C) /\ q[a] > 0 => a \in Reannounced(C)
<1>1. aucACMask \in [AC -> BOOLEAN]
  BY DEF TypeOK
<1>2. aucACMask' = [a \in AC |-> aucACMask[a] \/ a \in Reannounced(C)]
  BY DEF CompFrame
<1>3. \A a \in AC : aucACMask'[a] <=> aucACMask[a] \/ a \in Reannounced(C)
  BY <1>1, <1>2, Zenon
<1>4. \A a \in AC : CallsBack(C) /\ q[a] > 0 => a \in Reannounced(C)
  BY DEF Reannounced
<1> QED BY <1>3, <1>4 DEF CompFrame

\* Packets return to the pool as frames leave the ring; and whoever waits
\* for one is called.
LEMMA PacketsReturned ==
  ASSUME TypeOK, NEW C \in SUBSET Channel, CompFrame(C), posted' = posted
  PROVE  /\ Returned(C) \in Nat /\ PacketsOut \in Nat /\ InRing("lo") \in Nat
         /\ PacketsOut' = PacketsOut - Returned(C)
         /\ InRing("lo")' = InRing("lo") - Returned(C)
         /\ lowResCb' => lowResCb /\ Returned(C) = 0
<1>1. /\ "lo" \in Channel /\ done["lo"] \in Nat /\ InRing("lo") \in Nat
      /\ InRing("lo") = posted["lo"] + done["lo"] /\ posted["lo"] \in Nat
  BY RingNumbers
<1>2. Returned(C) = IF "lo" \in C THEN done["lo"] ELSE 0
  BY DEF Returned
<1>3. PacketsOut \in Nat
  BY Numbers DEF PacketsOut
<1>4. freePkts' = freePkts + Returned(C) /\ setup' = setup
  BY DEF CompFrame
<1>5. PacketsOut' = PacketsOut - Returned(C)
  BY <1>1, <1>2, <1>4, Numbers DEF PacketsOut
<1>6. InRing("lo")' = InRing("lo") - Returned(C)
  BY <1>1, <1>2, Reclaimed
<1>7. lowResCb' => lowResCb /\ Returned(C) = 0
  BY <1>1, <1>2, CalledBack DEF CallsBack
<1> QED BY <1>1, <1>2, <1>3, <1>5, <1>6, <1>7

\* A pass that will come still will when the frames of a pass are pushed,
\* and when frames are reclaimed.
LEMMA PassStays ==
  ASSUME TypeOK, Resources, LowResource, PassComes, PushData \/ CompleteTX \/ EventComp
  PROVE  PassComes'
<1>1. CASE PushData
  <2>1. tx = "push" /\ tx' = "complete" /\ UNCHANGED <<startXmit, txResReq>>
    BY <1>1 DEF PushData
  <2> QED BY <1>1, <2>1, PushedLow DEF PassComes, Apart
<1>2. CASE CompleteTX
  <2>1. tx = "complete" /\ tx' = "idle"
    BY <1>2 DEF CompleteTX
  <2>2. /\ startXmit > 0 => startXmit' > 0
        /\ hitLowResource["lo"] => hitLowResource'["lo"] \/ startXmit' > 0
    BY <1>2, Completed, RecoveryPosts, ChannelsOfEvent
  <2>3. txResReq > 0 => startXmit' > 0 \/ hitLowResource'["lo"]
    BY <1>2, Completed
  <2> QED BY <2>1, <2>2, <2>3 DEF PassComes, Apart
<1>3. CASE EventComp
  <2>1. tx = "comp" /\ tx' \in {"arm", "clean"}
    BY <1>3 DEF EventComp
  <2>2. /\ startXmit > 0 => startXmit' > 0
        /\ hitLowResource["lo"] => hitLowResource'["lo"] \/ startXmit' > 0
    BY <1>3, Evented, RecoveryPosts
  <2> QED BY <2>1, <2>2 DEF PassComes, Apart
<1> QED BY <1>1, <1>2, <1>3

\* Another message does not change that, either.
LEMMA PassAsked ==
  ASSUME TypeOK, \/ \E a \in AC : XmitPost(a)
                 \/ McPost
  PROVE  /\ startXmit' \in Nat /\ startXmit' >= startXmit /\ startXmit \in Nat
         /\ PassComes => PassComes'
<1>1. /\ startXmit' = startXmit \/ startXmit' = startXmit + 1
      /\ UNCHANGED <<tx, txResReq, hitLowResource, uResCount>>
  BY Numbers DEF XmitPost, McPost
<1>2. startXmit' \in Nat /\ startXmit' >= startXmit /\ startXmit \in Nat
  BY <1>1, Numbers
<1> QED BY <1>1, <1>2 DEF PassComes, Apart

\* What the callback announces is served.
LEMMA ReannouncedServed ==
  ASSUME TypeOK, Resources, LowResource, ResourcesCome, NEW C \in SUBSET Channel,
         Reannounced(C) # {}, ~ucTxSuspended,
         \/ C = Channel /\ CompleteTX
         \/ C = {EventChannel} /\ EventComp
  PROVE  PassComes'
<1>1. tx \in {"complete", "comp"}
  BY DEF CompleteTX, EventComp
<1>2. MayStart => startXmit' > 0
  BY Completed, Evented, RecoveryPosts
<1>3. ~MayStart => PassComes
  BY <1>1, Numbers DEF MayStart, ResourcesCome, Loop, Choosing
<1> QED BY <1>2, <1>3, PassStays DEF PassComes

-----------------------------------------------------------------------------
(***************************************************************************)
(* Types.                                                                  *)
(***************************************************************************)
HddTypes ==
  /\ q \in [AC -> 0 .. MaxQ] /\ osStopped \in [AC -> BOOLEAN]
  /\ isTxSuspended \in [AC -> BOOLEAN]
  /\ xm \in [AC -> {"idle", "lockMask", "lockPend", "lockPost", "full?",
                    "insert", "mask", "pend", "post"}]
  /\ sent \in [AC -> Nat] /\ \A a \in AC : sent[a] <= setup.frames[a]

TlTypes ==
  /\ aucACMask \in [AC -> BOOLEAN] /\ ucPktPending \in BOOLEAN
  /\ ucCurrentAC \in AC /\ ucCurrentWeight \in 0 .. Weight /\ uResCount \in Nat
  /\ ucTxSuspended \in BOOLEAN /\ mgmtPending \in BOOLEAN
  /\ mgmtSent \in 0 .. setup.mgmt /\ mc \in {"idle", "mgmt", "resume"}
  /\ startXmit \in Nat

PassTypes ==
  /\ isrMsg \in BOOLEAN
  /\ tx \in {"idle", "mgmt", "data", "clear", "scan", "flags", "fetch",
             "failed", "take", "taken", "push", "complete", "clean", "comp", "arm"}
  /\ flowArg \in BOOLEAN /\ scanned \in BOOLEAN /\ fetchSize \in 0 .. MaxQ
  /\ chain \in Nat /\ txResReq \in {0, 1, MinResData} /\ intSrc \subseteq Channel

DxeTypes ==
  /\ lowResCb \in BOOLEAN /\ setup \in Setups /\ freePkts \in 0 .. setup.pool
  /\ posted \in [Channel -> Nat] /\ done \in [Channel -> Nat]
  /\ flow \subseteq Channel /\ hitLowResource \in [Channel -> BOOLEAN]
  /\ rawInt \subseteq Channel /\ intOn \in BOOLEAN /\ txIntEnable \in BOOLEAN
  /\ isr \in {"idle", "post"}

AllTypes == HddTypes /\ TlTypes /\ PassTypes /\ DxeTypes

LEMMA TypeParts ==
  TypeOK <=> AllTypes
  BY DEF AllTypes, TypeOK, HddTypes, TlTypes, PassTypes, DxeTypes

LEMMA TypePartsStep ==
  ASSUME TxIInv, Next
  PROVE  AllTypes'
<1>0. /\ TypeOK /\ HddTypes /\ TlTypes /\ PassTypes /\ DxeTypes
      /\ Queues /\ Resources /\ LowResource /\ PacketsKept
  BY TypeParts DEF TxIInv, AllTypes
<1> USE <1>0
<1>1. ASSUME NEW a \in AC, XmitStart(a) PROVE AllTypes'
  <2>1. HddTypes'
    BY <1>1 DEF XmitStart, HddTypes
  <2>2. TlTypes'
    BY <1>1 DEF XmitStart, TlTypes
  <2>3. PassTypes'
    BY <1>1 DEF XmitStart, PassTypes
  <2>4. DxeTypes'
    BY <1>1 DEF XmitStart, DxeTypes
  <2> QED BY <2>1, <2>2, <2>3, <2>4 DEF AllTypes
<1>2. ASSUME NEW a \in AC, XmitFull(a) PROVE AllTypes'
  <2>1. HddTypes'
    BY <1>2 DEF XmitFull, HddTypes
  <2>2. TlTypes'
    BY <1>2 DEF XmitFull, TlTypes
  <2>3. PassTypes'
    BY <1>2 DEF XmitFull, PassTypes
  <2>4. DxeTypes'
    BY <1>2 DEF XmitFull, DxeTypes
  <2> QED BY <2>1, <2>2, <2>3, <2>4 DEF AllTypes
<1>3. ASSUME NEW a \in AC, XmitInsert(a) PROVE AllTypes'
  <2>1. HddTypes'
    <3>1. q[a] + 1 \in 0 .. MaxQ /\ sent[a] + 1 <= setup.frames[a]
      <4>1. q[a] \in 0 .. MaxQ /\ q[a] < MaxQ /\ sent[a] \in Nat
            /\ sent[a] < setup.frames[a]
        BY <1>3 DEF XmitInsert, Queues, HddTypes
      <4>2. setup.frames[a] \in Nat
        BY Sizes DEF DxeTypes
      <4> QED BY <4>1, <4>2, Sizes
    <3>2. sent' = [sent EXCEPT ![a] = sent[a] + 1] /\ setup' = setup
      BY <1>3 DEF XmitInsert
    <3>3. sent' \in [AC -> Nat]
      BY <3>2 DEF HddTypes
    <3>4. \A b \in AC : sent'[b] <= setup'.frames[b]
      BY <3>1, <3>2 DEF HddTypes
    <3> QED BY <1>3, <3>1, <3>3, <3>4 DEF XmitInsert, HddTypes
  <2>2. TlTypes'
    BY <1>3 DEF XmitInsert, TlTypes
  <2>3. PassTypes'
    BY <1>3 DEF XmitInsert, PassTypes
  <2>4. DxeTypes'
    BY <1>3 DEF XmitInsert, DxeTypes
  <2> QED BY <2>1, <2>2, <2>3, <2>4 DEF AllTypes
<1>4. ASSUME NEW a \in AC, XmitMask(a) PROVE AllTypes'
  <2>1. HddTypes'
    BY <1>4 DEF XmitMask, HddTypes
  <2>2. TlTypes'
    BY <1>4 DEF XmitMask, TlTypes
  <2>3. PassTypes'
    BY <1>4 DEF XmitMask, PassTypes
  <2>4. DxeTypes'
    BY <1>4 DEF XmitMask, DxeTypes
  <2> QED BY <2>1, <2>2, <2>3, <2>4 DEF AllTypes
<1>5. ASSUME NEW a \in AC, XmitPend(a) PROVE AllTypes'
  <2>1. HddTypes'
    BY <1>5 DEF XmitPend, HddTypes
  <2>2. TlTypes'
    BY <1>5 DEF XmitPend, TlTypes
  <2>3. PassTypes'
    BY <1>5 DEF XmitPend, PassTypes
  <2>4. DxeTypes'
    BY <1>5 DEF XmitPend, DxeTypes
  <2> QED BY <2>1, <2>2, <2>3, <2>4 DEF AllTypes
<1>6. ASSUME NEW a \in AC, XmitPost(a) PROVE AllTypes'
  <2>1. HddTypes'
    BY <1>6 DEF XmitPost, HddTypes
  <2>2. TlTypes'
    BY <1>6 DEF XmitPost, TlTypes
  <2>3. PassTypes'
    BY <1>6 DEF XmitPost, PassTypes
  <2>4. DxeTypes'
    BY <1>6 DEF XmitPost, DxeTypes
  <2> QED BY <2>1, <2>2, <2>3, <2>4 DEF AllTypes
<1>7. CASE TxMgmtFrm
  <2>1. HddTypes'
    BY <1>7 DEF TxMgmtFrm, HddTypes
  <2>2. TlTypes'
    BY <1>7, Sizes DEF TxMgmtFrm, TlTypes, DxeTypes
  <2>3. PassTypes'
    BY <1>7 DEF TxMgmtFrm, PassTypes
  <2>4. DxeTypes'
    BY <1>7 DEF TxMgmtFrm, DxeTypes
  <2> QED BY <2>1, <2>2, <2>3, <2>4 DEF AllTypes
<1>8. CASE SuspendDataTx
  <2>1. HddTypes'
    BY <1>8 DEF SuspendDataTx, HddTypes
  <2>2. TlTypes'
    BY <1>8 DEF SuspendDataTx, TlTypes
  <2>3. PassTypes'
    BY <1>8 DEF SuspendDataTx, PassTypes
  <2>4. DxeTypes'
    BY <1>8 DEF SuspendDataTx, DxeTypes
  <2> QED BY <2>1, <2>2, <2>3, <2>4 DEF AllTypes
<1>9. CASE ResumeDataTx
  <2>1. HddTypes'
    BY <1>9 DEF ResumeDataTx, HddTypes
  <2>2. TlTypes'
    BY <1>9 DEF ResumeDataTx, TlTypes
  <2>3. PassTypes'
    BY <1>9 DEF ResumeDataTx, PassTypes
  <2>4. DxeTypes'
    BY <1>9 DEF ResumeDataTx, DxeTypes
  <2> QED BY <2>1, <2>2, <2>3, <2>4 DEF AllTypes
<1>10. CASE McPost
  <2>1. HddTypes'
    BY <1>10 DEF McPost, HddTypes
  <2>2. TlTypes'
    BY <1>10 DEF McPost, TlTypes
  <2>3. PassTypes'
    BY <1>10 DEF McPost, PassTypes
  <2>4. DxeTypes'
    BY <1>10 DEF McPost, DxeTypes
  <2> QED BY <2>1, <2>2, <2>3, <2>4 DEF AllTypes
<1>11. CASE TxFrames
  <2>1. HddTypes'
    BY <1>11 DEF TxFrames, HddTypes
  <2>2. TlTypes'
    <3>1. FreeDesc("hi") \in Nat
      BY <1>0, RingNumbers DEF Resources
    <3> QED BY <1>11, <3>1 DEF TxFrames, TlTypes
  <2>3. PassTypes'
    BY <1>11 DEF TxFrames, PassTypes
  <2>4. DxeTypes'
    BY <1>11 DEF TxFrames, DxeTypes
  <2> QED BY <2>1, <2>2, <2>3, <2>4 DEF AllTypes
<1>12. CASE MgmtTake
  <2>1. HddTypes'
    BY <1>12 DEF MgmtTake, HddTypes
  <2>2. TlTypes'
    <3>1. uResCount - 2 \in Nat
      BY <1>12 DEF MgmtTake, MgmtFits, TlTypes
    <3> QED BY <1>12, <3>1 DEF MgmtTake, TlTypes
  <2>3. PassTypes'
    BY <1>12 DEF MgmtTake, PassTypes
  <2>4. DxeTypes'
    BY <1>12 DEF MgmtTake, DxeTypes
  <2> QED BY <2>1, <2>2, <2>3, <2>4 DEF AllTypes
<1>13. CASE MgmtEnd
  <2>1. HddTypes'
    BY <1>13 DEF MgmtEnd, PushChain, HddTypes
  <2>2. TlTypes'
    <3>1. FreeDesc("lo") \in Nat
      BY <1>0, RingNumbers DEF Resources
    <3> QED BY <1>13, <3>1 DEF MgmtEnd, TlTypes
  <2>3. PassTypes'
    BY <1>13 DEF MgmtEnd, PushChain, PassTypes
  <2>4. DxeTypes'
    BY <1>13, <1>0, RingNumbers, Pushed DEF MgmtEnd, DxeTypes
  <2> QED BY <2>1, <2>2, <2>3, <2>4 DEF AllTypes
<1>14. CASE DataBlocked
  <2>1. HddTypes'
    BY <1>14 DEF DataBlocked, EndPass, HddTypes
  <2>2. TlTypes'
    BY <1>14 DEF DataBlocked, EndPass, TlTypes
  <2>3. PassTypes'
    BY <1>14 DEF DataBlocked, EndPass, PassTypes
  <2>4. DxeTypes'
    BY <1>14 DEF DataBlocked, EndPass, DxeTypes
  <2> QED BY <2>1, <2>2, <2>3, <2>4 DEF AllTypes
<1>15. CASE DataNoRes
  <2>1. HddTypes'
    BY <1>15 DEF DataNoRes, EndPass, HddTypes
  <2>2. TlTypes'
    BY <1>15 DEF DataNoRes, EndPass, TlTypes
  <2>3. PassTypes'
    BY <1>15 DEF DataNoRes, EndPass, PassTypes
  <2>4. DxeTypes'
    BY <1>15 DEF DataNoRes, EndPass, DxeTypes
  <2> QED BY <2>1, <2>2, <2>3, <2>4 DEF AllTypes
<1>16. CASE DataNone
  <2>1. HddTypes'
    BY <1>16 DEF DataNone, EndPass, HddTypes
  <2>2. TlTypes'
    BY <1>16 DEF DataNone, EndPass, TlTypes
  <2>3. PassTypes'
    BY <1>16 DEF DataNone, EndPass, PassTypes
  <2>4. DxeTypes'
    BY <1>16 DEF DataNone, EndPass, DxeTypes
  <2> QED BY <2>1, <2>2, <2>3, <2>4 DEF AllTypes
<1>17. CASE DataSelect
  <2>1. HddTypes'
    BY <1>17 DEF DataSelect, HddTypes
  <2>2. TlTypes'
    <3>1. Announced # {} => FirstFrom(ucCurrentAC, Announced) \in AC
      <4>1. Announced \in SUBSET AC /\ ucCurrentAC \in Int
        BY Sizes DEF Announced, TlTypes
      <4> QED BY <4>1, FirstFromElement
    <3> QED BY <1>17, <3>1, Sizes DEF DataSelect, TlTypes
  <2>3. PassTypes'
    BY <1>17 DEF DataSelect, PassTypes
  <2>4. DxeTypes'
    BY <1>17 DEF DataSelect, DxeTypes
  <2> QED BY <2>1, <2>2, <2>3, <2>4 DEF AllTypes
<1>18. CASE ClearMask
  <2>1. HddTypes'
    BY <1>18 DEF ClearMask, HddTypes
  <2>2. TlTypes'
    BY <1>18 DEF ClearMask, TlTypes
  <2>3. PassTypes'
    BY <1>18 DEF ClearMask, PassTypes
  <2>4. DxeTypes'
    BY <1>18 DEF ClearMask, DxeTypes
  <2> QED BY <2>1, <2>2, <2>3, <2>4 DEF AllTypes
<1>19. CASE ScanMask
  <2>1. HddTypes'
    BY <1>19 DEF ScanMask, HddTypes
  <2>2. TlTypes'
    BY <1>19 DEF ScanMask, TlTypes
  <2>3. PassTypes'
    BY <1>19 DEF ScanMask, PassTypes
  <2>4. DxeTypes'
    BY <1>19 DEF ScanMask, DxeTypes
  <2> QED BY <2>1, <2>2, <2>3, <2>4 DEF AllTypes
<1>20. CASE ClearPending
  <2>1. HddTypes'
    BY <1>20 DEF ClearPending, HddTypes
  <2>2. TlTypes'
    BY <1>20 DEF ClearPending, TlTypes
  <2>3. PassTypes'
    BY <1>20 DEF ClearPending, PassTypes
  <2>4. DxeTypes'
    BY <1>20 DEF ClearPending, DxeTypes
  <2> QED BY <2>1, <2>2, <2>3, <2>4 DEF AllTypes
<1>21. CASE FetchBegin
  <2>1. HddTypes'
    BY <1>21 DEF FetchBegin, HddTypes
  <2>2. TlTypes'
    BY <1>21 DEF FetchBegin, TlTypes
  <2>3. PassTypes'
    BY <1>21 DEF FetchBegin, PassTypes, HddTypes, TlTypes
  <2>4. DxeTypes'
    <3>1. freePkts # 0 => freePkts - 1 \in 0 .. setup.pool
      BY Sizes DEF DxeTypes
    <3>2. freePkts' \in 0 .. setup.pool /\ setup' = setup /\ lowResCb' \in BOOLEAN
      BY <1>21, <3>1 DEF FetchBegin, DxeTypes
    <3> QED BY <1>21, <3>2 DEF FetchBegin, DxeTypes
  <2> QED BY <2>1, <2>2, <2>3, <2>4 DEF AllTypes
<1>22. CASE FetchFailed
  <2>1. HddTypes'
    BY <1>22 DEF FetchFailed, HddTypes
  <2>2. TlTypes'
    BY <1>22, Sizes DEF FetchFailed, TlTypes
  <2>3. PassTypes'
    <3>1. 0 \in 0 .. MaxQ
      BY Sizes
    <3> QED BY <1>22, <3>1 DEF FetchFailed, PassTypes
  <2>4. DxeTypes'
    BY <1>22 DEF FetchFailed, DxeTypes
  <2> QED BY <2>1, <2>2, <2>3, <2>4 DEF AllTypes
<1>23. CASE FetchRemove
  <2>1. HddTypes'
    <3>1. q[ucCurrentAC] - 1 \in 0 .. MaxQ
      BY <1>23, Sizes DEF FetchRemove, Queues, HddTypes, TlTypes, PassTypes
    <3> QED BY <1>23, <3>1 DEF FetchRemove, HddTypes
  <2>2. TlTypes'
    BY <1>23 DEF FetchRemove, TlTypes
  <2>3. PassTypes'
    BY <1>23 DEF FetchRemove, PassTypes
  <2>4. DxeTypes'
    BY <1>23 DEF FetchRemove, DxeTypes
  <2> QED BY <2>1, <2>2, <2>3, <2>4 DEF AllTypes
<1>24. CASE FetchTake
  <2>1. HddTypes'
    BY <1>24 DEF FetchTake, HddTypes
  <2>2. TlTypes'
    <3> DEFINE S == Announced \cup {ucCurrentAC}
    <3>1. FirstFrom((ucCurrentAC - 1) % NumAC, S) \in AC
      <4>1. S \in SUBSET AC /\ S # {} /\ (ucCurrentAC - 1) % NumAC \in Int
        BY Sizes DEF Announced, TlTypes
      <4> QED BY <4>1, FirstFromElement
    <3>2. ucCurrentWeight > 0 /\ uResCount >= 3
      BY <1>24 DEF FetchTake, Queues, Resources, Choosing
    <3>3. ucCurrentAC' \in AC
      BY <1>24, <3>1 DEF FetchTake, TlTypes
    <3>4. ucCurrentWeight' \in 0 .. Weight /\ uResCount' \in Nat
      BY <1>24, <3>2, Sizes DEF FetchTake, TlTypes
    <3> QED BY <1>24, <3>3, <3>4 DEF FetchTake, TlTypes
  <2>3. PassTypes'
    <3>1. 0 \in 0 .. MaxQ
      BY Sizes
    <3>2. /\ chain' = chain + 1 /\ fetchSize' = 0 /\ scanned' = FALSE /\ tx' = "data"
          /\ UNCHANGED <<isrMsg, flowArg, txResReq, intSrc>>
      BY <1>24 DEF FetchTake
    <3>3. PassTypes
      OBVIOUS
    <3>4. chain + 1 \in Nat
      BY <3>3 DEF PassTypes
    <3> QED BY <3>1, <3>2, <3>3, <3>4 DEF PassTypes
  <2>4. DxeTypes'
    BY <1>24 DEF FetchTake, DxeTypes
  <2> QED BY <2>1, <2>2, <2>3, <2>4 DEF AllTypes
<1>25. CASE PushData
  <2>1. HddTypes'
    BY <1>25 DEF PushData, PushChain, HddTypes
  <2>2. TlTypes'
    BY <1>25 DEF PushData, PushChain, TlTypes
  <2>3. PassTypes'
    BY <1>25 DEF PushData, PushChain, PassTypes
  <2>4. DxeTypes'
    BY <1>25, <1>0, RingNumbers, Pushed DEF PushData, DxeTypes
  <2> QED BY <2>1, <2>2, <2>3, <2>4 DEF AllTypes
<1>26. CASE CompleteTX
  <2>1. HddTypes'
    BY <1>26 DEF CompleteTX, CompFrame, HddTypes
  <2>2. TlTypes'
    <3>1. startXmit' \in Nat
      BY <1>26, <1>0, Completed
    <3> QED BY <1>26, <3>1 DEF CompleteTX, CompFrame, TlTypes
  <2>3. PassTypes'
    BY <1>26 DEF CompleteTX, CompFrame, PassTypes
  <2>4. DxeTypes'
    <3>1. done' \in [Channel -> Nat]
      BY <1>26, <1>0, Reclaimed, ChannelsOfEvent DEF CompleteTX, CompFrame
    <3>2. freePkts' \in 0 .. setup.pool
      BY <1>26, <1>0, ReturnedFits, ChannelsOfEvent DEF CompleteTX, CompFrame
    <3>3. flow' \subseteq Channel /\ hitLowResource' \in [Channel -> BOOLEAN]
      BY <1>26, <1>0, Completed DEF CompleteTX, Recovered, DxeTypes
    <3> QED BY <1>26, <3>1, <3>2, <3>3 DEF CompleteTX, CompFrame, DxeTypes
  <2> QED BY <2>1, <2>2, <2>3, <2>4 DEF AllTypes
<1>27. CASE TxEvent
  <2>1. HddTypes'
    BY <1>27 DEF TxEvent, HddTypes
  <2>2. TlTypes'
    BY <1>27 DEF TxEvent, TlTypes
  <2>3. PassTypes'
    BY <1>27 DEF TxEvent, PassTypes, DxeTypes
  <2>4. DxeTypes'
    BY <1>27 DEF TxEvent, DxeTypes
  <2> QED BY <2>1, <2>2, <2>3, <2>4 DEF AllTypes
<1>28. CASE CleanInt
  <2>1. HddTypes'
    BY <1>28 DEF CleanInt, HddTypes
  <2>2. TlTypes'
    BY <1>28 DEF CleanInt, TlTypes
  <2>3. PassTypes'
    BY <1>28 DEF CleanInt, PassTypes
  <2>4. DxeTypes'
    BY <1>28 DEF CleanInt, DxeTypes
  <2> QED BY <2>1, <2>2, <2>3, <2>4 DEF AllTypes
<1>29. CASE EventComp
  <2>1. HddTypes'
    BY <1>29 DEF EventComp, CompFrame, HddTypes
  <2>2. TlTypes'
    <3>1. startXmit' \in Nat
      BY <1>29, <1>0, PostedIsNat, ChannelsOfEvent DEF EventComp, TlTypes
    <3> QED BY <1>29, <3>1 DEF EventComp, CompFrame, TlTypes
  <2>3. PassTypes'
    BY <1>29 DEF EventComp, CompFrame, PassTypes
  <2>4. DxeTypes'
    <3>1. done' \in [Channel -> Nat]
      BY <1>29, <1>0, Reclaimed, ChannelsOfEvent DEF EventComp, CompFrame
    <3>2. freePkts' \in 0 .. setup.pool
      BY <1>29, <1>0, ReturnedFits, ChannelsOfEvent DEF EventComp, CompFrame
    <3>3. flow' \subseteq Channel /\ hitLowResource' \in [Channel -> BOOLEAN]
      <4>1. Recovered({EventChannel}) \subseteq Channel
        BY ChannelsOfEvent DEF Recovered
      <4> QED BY <1>29, <4>1 DEF EventComp, DxeTypes
    <3> QED BY <1>29, <3>1, <3>2, <3>3 DEF EventComp, CompFrame, DxeTypes
  <2> QED BY <2>1, <2>2, <2>3, <2>4 DEF AllTypes
<1>30. CASE Arm
  <2>1. HddTypes'
    BY <1>30 DEF Arm, ArmFor, HddTypes
  <2>2. TlTypes'
    BY <1>30 DEF Arm, ArmFor, TlTypes
  <2>3. PassTypes'
    BY <1>30 DEF Arm, ArmFor, PassTypes
  <2>4. DxeTypes'
    BY <1>30 DEF Arm, ArmFor, DxeTypes
  <2> QED BY <2>1, <2>2, <2>3, <2>4 DEF AllTypes
<1>31. CASE TxIsr
  <2>1. HddTypes'
    BY <1>31 DEF TxIsr, HddTypes
  <2>2. TlTypes'
    BY <1>31 DEF TxIsr, TlTypes
  <2>3. PassTypes'
    BY <1>31 DEF TxIsr, PassTypes
  <2>4. DxeTypes'
    BY <1>31 DEF TxIsr, DxeTypes
  <2> QED BY <2>1, <2>2, <2>3, <2>4 DEF AllTypes
<1>32. CASE TxIsrPost
  <2>1. HddTypes'
    BY <1>32 DEF TxIsrPost, HddTypes
  <2>2. TlTypes'
    BY <1>32 DEF TxIsrPost, TlTypes
  <2>3. PassTypes'
    BY <1>32 DEF TxIsrPost, PassTypes
  <2>4. DxeTypes'
    BY <1>32 DEF TxIsrPost, DxeTypes
  <2> QED BY <2>1, <2>2, <2>3, <2>4 DEF AllTypes
<1>33. ASSUME NEW c \in Channel, Consume(c) PROVE AllTypes'
  <2>1. HddTypes'
    BY <1>33 DEF Consume, HddTypes
  <2>2. TlTypes'
    BY <1>33 DEF Consume, TlTypes
  <2>3. PassTypes'
    BY <1>33 DEF Consume, PassTypes
  <2>4. DxeTypes'
    BY <1>33 DEF Consume, DxeTypes
  <2> QED BY <2>1, <2>2, <2>3, <2>4 DEF AllTypes
<1> QED BY <1>1, <1>2, <1>3, <1>4, <1>5, <1>6, <1>7, <1>8, <1>9, <1>10,
           <1>11, <1>12, <1>13, <1>14, <1>15, <1>16, <1>17, <1>18, <1>19,
           <1>20, <1>21, <1>22, <1>23, <1>24, <1>25, <1>26, <1>27, <1>28,
           <1>29, <1>30, <1>31, <1>32, <1>33
         DEF Next, Xmit, TxThread, Interrupt, Device

LEMMA TypeStep ==
  ASSUME TxIInv, Next
  PROVE  TypeOK'
  BY TypePartsStep DEF AllTypes, TypeOK, HddTypes, TlTypes, PassTypes, DxeTypes

LEMMA QueuesStep ==
  ASSUME TxIInv, Next
  PROVE  Queues'
<1>0. TypeOK /\ Queues
  BY DEF TxIInv
<1> USE <1>0
<1>1. ASSUME NEW a \in AC, XmitStart(a) PROVE Queues'
  BY <1>1 DEF XmitStart, Queues, Choosing, HoldsLock
<1>2. ASSUME NEW a \in AC, XmitFull(a) PROVE Queues'

  BY <1>2, Refused, Numbers DEF XmitFull, Queues, Choosing
<1>3. ASSUME NEW a \in AC, XmitInsert(a) PROVE Queues'

  <2>1. /\ xm'[a] \in {"mask", "idle"} /\ setup' = setup
        /\ UNCHANGED <<tx, ucCurrentAC, ucCurrentWeight, fetchSize>>
    BY <1>3, Inserted DEF XmitInsert
  <2>2. ASSUME NEW b \in AC
        PROVE  /\ xm'[b] \in {"lockMask", "lockPend", "lockPost", "full?", "insert"}
                    => sent'[b] < setup'.frames[b]
               /\ xm'[b] = "insert" => q'[b] < MaxQ
    <3>1. CASE b = a
      BY <2>1, <3>1
    <3>2. CASE b # a
      <4>1. xm'[b] = xm[b] /\ q'[b] = q[b] /\ sent'[b] = sent[b]
        BY <1>3, <3>2, Inserted
      <4> QED BY <2>1, <4>1 DEF Queues
    <3> QED BY <3>1, <3>2
  <2>3. q'[ucCurrentAC] \in Nat /\ q'[ucCurrentAC] >= q[ucCurrentAC]
    BY <1>3, Inserted, Numbers
  <2> QED BY <2>1, <2>2, <2>3, Numbers DEF Queues, Choosing
<1>4. ASSUME NEW a \in AC, XmitMask(a) PROVE Queues'
  BY <1>4 DEF XmitMask, Queues, Choosing, HoldsLock
<1>5. ASSUME NEW a \in AC, XmitPend(a) PROVE Queues'
  BY <1>5 DEF XmitPend, Queues, Choosing, HoldsLock
<1>6. ASSUME NEW a \in AC, XmitPost(a) PROVE Queues'
  BY <1>6 DEF XmitPost, Queues, Choosing, HoldsLock
<1>7. CASE TxMgmtFrm
  BY <1>7 DEF TxMgmtFrm, Queues, Choosing, HoldsLock
<1>8. CASE SuspendDataTx
  BY <1>8 DEF SuspendDataTx, Queues, Choosing, HoldsLock
<1>9. CASE ResumeDataTx
  BY <1>9 DEF ResumeDataTx, Queues, Choosing, HoldsLock
<1>10. CASE McPost
  BY <1>10 DEF McPost, Queues, Choosing, HoldsLock
<1>11. CASE TxFrames
  BY <1>11 DEF TxFrames, Queues, Choosing, HoldsLock
<1>12. CASE MgmtTake
  BY <1>12 DEF MgmtTake, Queues, Choosing, HoldsLock
<1>13. CASE MgmtEnd
  BY <1>13 DEF MgmtEnd, PushChain, Queues, Choosing, HoldsLock
<1>14. CASE DataBlocked
  BY <1>14 DEF DataBlocked, EndPass, Queues, Choosing, HoldsLock
<1>15. CASE DataNoRes
  BY <1>15 DEF DataNoRes, EndPass, Queues, Choosing, HoldsLock
<1>16. CASE DataNone
  BY <1>16 DEF DataNone, EndPass, Queues, Choosing, HoldsLock
<1>17. CASE DataSelect

  <2>1. ucCurrentWeight' > 0
    BY <1>17, Sizes DEF DataSelect, TypeOK
  <2> QED BY <1>17, <2>1 DEF DataSelect, Queues
<1>18. CASE ClearMask
  BY <1>18 DEF ClearMask, Queues, Choosing, HoldsLock
<1>19. CASE ScanMask
  BY <1>19 DEF ScanMask, Queues, Choosing, HoldsLock
<1>20. CASE ClearPending
  BY <1>20 DEF ClearPending, Queues, Choosing, HoldsLock
<1>21. CASE FetchBegin

  BY <1>21, Numbers DEF FetchBegin, Queues, Choosing
<1>22. CASE FetchFailed
  BY <1>22 DEF FetchFailed, Queues, Choosing, HoldsLock
<1>23. CASE FetchRemove

  <2>1. \A a \in AC : q'[a] <= q[a] /\ q'[a] \in Int
    BY <1>23, Removed, Numbers
  <2> QED BY <1>23, <2>1, Removed, Numbers DEF FetchRemove, Queues, Choosing
<1>24. CASE FetchTake
  BY <1>24 DEF FetchTake, Queues, Choosing, HoldsLock
<1>25. CASE PushData
  BY <1>25 DEF PushData, PushChain, Queues, Choosing, HoldsLock
<1>26. CASE CompleteTX
  BY <1>26 DEF CompleteTX, CompFrame, Queues, Choosing, HoldsLock
<1>27. CASE TxEvent
  BY <1>27 DEF TxEvent, Queues, Choosing, HoldsLock
<1>28. CASE CleanInt
  BY <1>28 DEF CleanInt, Queues, Choosing, HoldsLock
<1>29. CASE EventComp
  BY <1>29 DEF EventComp, CompFrame, Queues, Choosing, HoldsLock
<1>30. CASE Arm
  BY <1>30 DEF Arm, ArmFor, Queues, Choosing, HoldsLock
<1>31. CASE TxIsr
  BY <1>31 DEF TxIsr, Queues, Choosing, HoldsLock
<1>32. CASE TxIsrPost
  BY <1>32 DEF TxIsrPost, Queues, Choosing, HoldsLock
<1>33. ASSUME NEW c \in Channel, Consume(c) PROVE Queues'
  BY <1>33 DEF Consume, Queues, Choosing, HoldsLock
<1> QED BY <1>1, <1>2, <1>3, <1>4, <1>5, <1>6, <1>7, <1>8, <1>9, <1>10,
           <1>11, <1>12, <1>13, <1>14, <1>15, <1>16, <1>17, <1>18, <1>19,
           <1>20, <1>21, <1>22, <1>23, <1>24, <1>25, <1>26, <1>27, <1>28,
           <1>29, <1>30, <1>31, <1>32, <1>33
         DEF Next, Xmit, TxThread, Interrupt, Device

LEMMA ResourcesStep ==
  ASSUME TxIInv, Next
  PROVE  Resources'
<1>0. TypeOK /\ Resources
  BY DEF TxIInv
<1> USE <1>0
<1>1. ASSUME NEW a \in AC, XmitStart(a) PROVE Resources'
  BY <1>1 DEF XmitStart, Resources, Choosing, Loop, Apart, FreeDesc, InRing, Res
<1>2. ASSUME NEW a \in AC, XmitFull(a) PROVE Resources'
  BY <1>2 DEF XmitFull, Resources, Choosing, Loop, Apart, FreeDesc, InRing, Res
<1>3. ASSUME NEW a \in AC, XmitInsert(a) PROVE Resources'
  BY <1>3 DEF XmitInsert, Resources, Choosing, Loop, Apart, FreeDesc, InRing, Res
<1>4. ASSUME NEW a \in AC, XmitMask(a) PROVE Resources'
  BY <1>4 DEF XmitMask, Resources, Choosing, Loop, Apart, FreeDesc, InRing, Res
<1>5. ASSUME NEW a \in AC, XmitPend(a) PROVE Resources'
  BY <1>5 DEF XmitPend, Resources, Choosing, Loop, Apart, FreeDesc, InRing, Res
<1>6. ASSUME NEW a \in AC, XmitPost(a) PROVE Resources'
  BY <1>6 DEF XmitPost, Resources, Choosing, Loop, Apart, FreeDesc, InRing, Res
<1>7. CASE TxMgmtFrm
  BY <1>7 DEF TxMgmtFrm, Resources, Choosing, Loop, Apart, FreeDesc, InRing, Res
<1>8. CASE SuspendDataTx
  BY <1>8 DEF SuspendDataTx, Resources, Choosing, Loop, Apart, FreeDesc, InRing, Res
<1>9. CASE ResumeDataTx
  BY <1>9 DEF ResumeDataTx, Resources, Choosing, Loop, Apart, FreeDesc, InRing, Res
<1>10. CASE McPost
  BY <1>10 DEF McPost, Resources, Choosing, Loop, Apart, FreeDesc, InRing, Res
<1>11. CASE TxFrames
  BY <1>11 DEF TxFrames, Resources, Choosing, Loop, Apart, FreeDesc, InRing, Res
<1>12. CASE MgmtTake

  <2>1. /\ \A c \in Channel : FreeDesc(c)' = FreeDesc(c)
        /\ \A c \in Channel : FreeDesc(c) \in Int
        /\ "lo" \in Channel /\ "hi" \in Channel /\ uResCount \in Nat /\ chain \in Nat
    BY <1>12, RingNumbers DEF MgmtTake, TypeOK, FreeDesc, InRing, Res
  <2> QED BY <1>12, <2>1 DEF MgmtTake, Resources, Loop, Choosing, Apart
<1>13. CASE MgmtEnd

  <2>1. /\ FreeDesc("hi")' = uResCount /\ FreeDesc("lo")' = FreeDesc("lo")
        /\ "lo" \in flow' <=> "lo" \in flow
    BY <1>13, RingNumbers, Pushed DEF MgmtEnd, Resources
  <2>2. FreeDesc("lo") \in Int /\ uResCount \in Nat
    BY RingNumbers DEF TypeOK
  <2>3. \A c \in Channel : FreeDesc(c)' >= 0
    BY <2>1, <2>2, RingNumbers DEF Resources, Channel
  <2>4. /\ tx' = "data" /\ chain' = 0 /\ uResCount' = FreeDesc("lo")
        /\ flowArg' = ("lo" \in flow)
    BY <1>13 DEF MgmtEnd
  <2>5. uResCount' = FreeDesc("lo")' - ResLen * chain'
    BY <2>1, <2>2, <2>4
  <2> QED BY <2>1, <2>3, <2>4, <2>5 DEF Resources, Loop, Choosing, Apart
<1>14. CASE DataBlocked
  BY <1>14 DEF DataBlocked, EndPass, Resources, Choosing, Loop, Apart, FreeDesc, InRing, Res
<1>15. CASE DataNoRes
  BY <1>15 DEF DataNoRes, EndPass, Resources, Choosing, Loop, Apart, FreeDesc, InRing, Res
<1>16. CASE DataNone
  BY <1>16 DEF DataNone, EndPass, Resources, Choosing, Loop, Apart, FreeDesc, InRing, Res
<1>17. CASE DataSelect

  <2>1. /\ \A c \in Channel : FreeDesc(c)' = FreeDesc(c)
        /\ \A c \in Channel : FreeDesc(c) \in Int
        /\ "lo" \in Channel /\ "hi" \in Channel /\ uResCount \in Nat /\ chain \in Nat
    BY <1>17, RingNumbers DEF DataSelect, TypeOK, FreeDesc, InRing, Res
  <2> QED BY <1>17, <2>1 DEF DataSelect, DataFits, Resources, Loop, Choosing, Apart
<1>18. CASE ClearMask
  BY <1>18 DEF ClearMask, Resources, Choosing, Loop, Apart, FreeDesc, InRing, Res
<1>19. CASE ScanMask
  BY <1>19 DEF ScanMask, Resources, Choosing, Loop, Apart, FreeDesc, InRing, Res
<1>20. CASE ClearPending
  BY <1>20 DEF ClearPending, Resources, Choosing, Loop, Apart, FreeDesc, InRing, Res
<1>21. CASE FetchBegin
  BY <1>21 DEF FetchBegin, Resources, Choosing, Loop, Apart, FreeDesc, InRing, Res
<1>22. CASE FetchFailed
  BY <1>22 DEF FetchFailed, Resources, Choosing, Loop, Apart, FreeDesc, InRing, Res
<1>23. CASE FetchRemove
  BY <1>23 DEF FetchRemove, Resources, Choosing, Loop, Apart, FreeDesc, InRing, Res
<1>24. CASE FetchTake

  <2>1. /\ \A c \in Channel : FreeDesc(c)' = FreeDesc(c)
        /\ \A c \in Channel : FreeDesc(c) \in Int
        /\ "lo" \in Channel /\ "hi" \in Channel /\ uResCount \in Nat /\ chain \in Nat
    BY <1>24, RingNumbers DEF FetchTake, TypeOK, FreeDesc, InRing, Res
  <2>2. chain' = chain + 1 /\ uResCount' = uResCount - ResLen /\ tx' = "data"
        /\ UNCHANGED <<flowArg, flow>>
    BY <1>24 DEF FetchTake
  <2> QED BY <1>24, <2>1, <2>2 DEF FetchTake, Resources, Loop, Choosing, Apart
<1>25. CASE PushData

  <2>1. FreeDesc("lo")' = uResCount /\ FreeDesc("hi")' = FreeDesc("hi")
    BY <1>25, RingNumbers, Pushed DEF PushData, Resources
  <2>2. \A c \in Channel : FreeDesc(c)' >= 0
    BY <2>1, RingNumbers DEF Resources, Channel, TypeOK
  <2> QED BY <1>25, <2>2 DEF PushData, Resources, Loop, Choosing, Apart
<1>26. CASE CompleteTX

  <2>1. \A c \in Channel : FreeDesc(c) <= FreeDesc(c)' /\ FreeDesc(c) \in Int /\ FreeDesc(c)' \in Int
    BY <1>26, Reclaimed, ChannelsOfEvent DEF CompleteTX
  <2>2. \A c \in Channel : FreeDesc(c)' >= 0
    BY <2>1 DEF Resources
  <2> QED BY <1>26, <2>2 DEF CompleteTX, Resources, Loop, Choosing, Apart
<1>27. CASE TxEvent
  BY <1>27 DEF TxEvent, Resources, Choosing, Loop, Apart, FreeDesc, InRing, Res
<1>28. CASE CleanInt
  BY <1>28 DEF CleanInt, Resources, Choosing, Loop, Apart, FreeDesc, InRing, Res
<1>29. CASE EventComp

  <2>1. \A c \in Channel : FreeDesc(c) <= FreeDesc(c)' /\ FreeDesc(c) \in Int /\ FreeDesc(c)' \in Int
    BY <1>29, Reclaimed, Evented
  <2>2. \A c \in Channel : FreeDesc(c)' >= 0
    BY <2>1 DEF Resources
  <2> QED BY <1>29, <2>2 DEF EventComp, Resources, Loop, Choosing, Apart
<1>30. CASE Arm
  BY <1>30 DEF Arm, ArmFor, Resources, Choosing, Loop, Apart, FreeDesc, InRing, Res
<1>31. CASE TxIsr
  BY <1>31 DEF TxIsr, Resources, Choosing, Loop, Apart, FreeDesc, InRing, Res
<1>32. CASE TxIsrPost
  BY <1>32 DEF TxIsrPost, Resources, Choosing, Loop, Apart, FreeDesc, InRing, Res
<1>33. ASSUME NEW c \in Channel, Consume(c) PROVE Resources'

  <2>1. \A d \in Channel : FreeDesc(d)' = FreeDesc(d)
    BY <1>33, Consumed
  <2>2. "lo" \in Channel /\ "hi" \in Channel
    BY DEF Channel
  <2> QED BY <1>33, <2>1, <2>2 DEF Consume, Resources, Loop, Choosing, Apart
<1> QED BY <1>1, <1>2, <1>3, <1>4, <1>5, <1>6, <1>7, <1>8, <1>9, <1>10,
           <1>11, <1>12, <1>13, <1>14, <1>15, <1>16, <1>17, <1>18, <1>19,
           <1>20, <1>21, <1>22, <1>23, <1>24, <1>25, <1>26, <1>27, <1>28,
           <1>29, <1>30, <1>31, <1>32, <1>33
         DEF Next, Xmit, TxThread, Interrupt, Device

LEMMA LowResourceStep ==
  ASSUME TxIInv, Next
  PROVE  LowResource'
<1>0. TypeOK /\ LowResource
  BY DEF TxIInv
<1> USE <1>0
<1>1. ASSUME NEW a \in AC, XmitStart(a) PROVE LowResource'
  BY <1>1 DEF XmitStart, LowResource, FreeDesc, InRing, Res
<1>2. ASSUME NEW a \in AC, XmitFull(a) PROVE LowResource'
  BY <1>2 DEF XmitFull, LowResource, FreeDesc, InRing, Res
<1>3. ASSUME NEW a \in AC, XmitInsert(a) PROVE LowResource'
  BY <1>3 DEF XmitInsert, LowResource, FreeDesc, InRing, Res
<1>4. ASSUME NEW a \in AC, XmitMask(a) PROVE LowResource'
  BY <1>4 DEF XmitMask, LowResource, FreeDesc, InRing, Res
<1>5. ASSUME NEW a \in AC, XmitPend(a) PROVE LowResource'
  BY <1>5 DEF XmitPend, LowResource, FreeDesc, InRing, Res
<1>6. ASSUME NEW a \in AC, XmitPost(a) PROVE LowResource'
  BY <1>6 DEF XmitPost, LowResource, FreeDesc, InRing, Res
<1>7. CASE TxMgmtFrm
  BY <1>7 DEF TxMgmtFrm, LowResource, FreeDesc, InRing, Res
<1>8. CASE SuspendDataTx
  BY <1>8 DEF SuspendDataTx, LowResource, FreeDesc, InRing, Res
<1>9. CASE ResumeDataTx
  BY <1>9 DEF ResumeDataTx, LowResource, FreeDesc, InRing, Res
<1>10. CASE McPost
  BY <1>10 DEF McPost, LowResource, FreeDesc, InRing, Res
<1>11. CASE TxFrames
  BY <1>11 DEF TxFrames, LowResource, FreeDesc, InRing, Res
<1>12. CASE MgmtTake
  BY <1>12 DEF MgmtTake, LowResource, FreeDesc, InRing, Res
<1>13. CASE MgmtEnd

  <2>1. /\ "lo" \in Channel /\ "hi" \in Channel /\ chain \in Nat
        /\ \A d \in Channel : InRing(d) \in Nat /\ FreeDesc(d) \in Int
    BY RingNumbers DEF TypeOK
  <2>2. /\ InRing("hi")' = InRing("hi") + chain
        /\ FreeDesc("hi")' = FreeDesc("hi") - ResLen * chain
        /\ LET low == chain > 0 /\ FreeDesc("hi")' <= Threshold
           IN  /\ "hi" \in flow' <=> "hi" \in flow /\ ~low
               /\ hitLowResource'["hi"] <=> hitLowResource["hi"] \/ low
        /\ \A d \in Channel \ {"hi"} :
              /\ InRing(d)' = InRing(d) /\ FreeDesc(d)' = FreeDesc(d)
              /\ d \in flow' <=> d \in flow
              /\ hitLowResource'[d] = hitLowResource[d]
    BY <1>13, <2>1, Pushed DEF MgmtEnd
  <2> QED BY <2>1, <2>2, Sizes DEF LowResource
<1>14. CASE DataBlocked
  BY <1>14 DEF DataBlocked, EndPass, LowResource, FreeDesc, InRing, Res
<1>15. CASE DataNoRes
  BY <1>15 DEF DataNoRes, EndPass, LowResource, FreeDesc, InRing, Res
<1>16. CASE DataNone
  BY <1>16 DEF DataNone, EndPass, LowResource, FreeDesc, InRing, Res
<1>17. CASE DataSelect
  BY <1>17 DEF DataSelect, LowResource, FreeDesc, InRing, Res
<1>18. CASE ClearMask
  BY <1>18 DEF ClearMask, LowResource, FreeDesc, InRing, Res
<1>19. CASE ScanMask
  BY <1>19 DEF ScanMask, LowResource, FreeDesc, InRing, Res
<1>20. CASE ClearPending
  BY <1>20 DEF ClearPending, LowResource, FreeDesc, InRing, Res
<1>21. CASE FetchBegin
  BY <1>21 DEF FetchBegin, LowResource, FreeDesc, InRing, Res
<1>22. CASE FetchFailed
  BY <1>22 DEF FetchFailed, LowResource, FreeDesc, InRing, Res
<1>23. CASE FetchRemove
  BY <1>23 DEF FetchRemove, LowResource, FreeDesc, InRing, Res
<1>24. CASE FetchTake
  BY <1>24 DEF FetchTake, LowResource, FreeDesc, InRing, Res
<1>25. CASE PushData

  <2>1. /\ "lo" \in Channel /\ "hi" \in Channel /\ chain \in Nat
        /\ \A d \in Channel : InRing(d) \in Nat /\ FreeDesc(d) \in Int
    BY RingNumbers DEF TypeOK
  <2>2. /\ InRing("lo")' = InRing("lo") + chain
        /\ FreeDesc("lo")' = FreeDesc("lo") - ResLen * chain
        /\ LET low == chain > 0 /\ FreeDesc("lo")' <= Threshold
           IN  /\ "lo" \in flow' <=> "lo" \in flow /\ ~low
               /\ hitLowResource'["lo"] <=> hitLowResource["lo"] \/ low
        /\ \A d \in Channel \ {"lo"} :
              /\ InRing(d)' = InRing(d) /\ FreeDesc(d)' = FreeDesc(d)
              /\ d \in flow' <=> d \in flow
              /\ hitLowResource'[d] = hitLowResource[d]
    BY <1>25, <2>1, Pushed DEF PushData
  <2> QED BY <2>1, <2>2, Sizes DEF LowResource
<1>26. CASE CompleteTX

  <2>1. CompFrame(Channel) /\ posted' = posted
    BY <1>26 DEF CompleteTX
  <2> QED BY <1>26, <2>1, Completed, ChannelsOfEvent, LowResourceReclaimed
<1>27. CASE TxEvent
  BY <1>27 DEF TxEvent, LowResource, FreeDesc, InRing, Res
<1>28. CASE CleanInt
  BY <1>28 DEF CleanInt, LowResource, FreeDesc, InRing, Res
<1>29. CASE EventComp

  BY <1>29, Evented, LowResourceReclaimed
<1>30. CASE Arm
  BY <1>30 DEF Arm, ArmFor, LowResource, FreeDesc, InRing, Res
<1>31. CASE TxIsr
  BY <1>31 DEF TxIsr, LowResource, FreeDesc, InRing, Res
<1>32. CASE TxIsrPost
  BY <1>32 DEF TxIsrPost, LowResource, FreeDesc, InRing, Res
<1>33. ASSUME NEW c \in Channel, Consume(c) PROVE LowResource'

  BY <1>33, Consumed DEF LowResource
<1> QED BY <1>1, <1>2, <1>3, <1>4, <1>5, <1>6, <1>7, <1>8, <1>9, <1>10,
           <1>11, <1>12, <1>13, <1>14, <1>15, <1>16, <1>17, <1>18, <1>19,
           <1>20, <1>21, <1>22, <1>23, <1>24, <1>25, <1>26, <1>27, <1>28,
           <1>29, <1>30, <1>31, <1>32, <1>33
         DEF Next, Xmit, TxThread, Interrupt, Device

LEMMA InterruptArmedStep ==
  ASSUME TxIInv, Next
  PROVE  InterruptArmed'
<1>0. TypeOK /\ InterruptArmed /\ Interrupts
  BY DEF TxIInv
<1> USE <1>0
<1>1. ASSUME NEW a \in AC, XmitStart(a) PROVE InterruptArmed'
  BY <1>1 DEF XmitStart, InterruptArmed, Interrupts, InRing
<1>2. ASSUME NEW a \in AC, XmitFull(a) PROVE InterruptArmed'
  BY <1>2 DEF XmitFull, InterruptArmed, Interrupts, InRing
<1>3. ASSUME NEW a \in AC, XmitInsert(a) PROVE InterruptArmed'
  BY <1>3 DEF XmitInsert, InterruptArmed, Interrupts, InRing
<1>4. ASSUME NEW a \in AC, XmitMask(a) PROVE InterruptArmed'
  BY <1>4 DEF XmitMask, InterruptArmed, Interrupts, InRing
<1>5. ASSUME NEW a \in AC, XmitPend(a) PROVE InterruptArmed'
  BY <1>5 DEF XmitPend, InterruptArmed, Interrupts, InRing
<1>6. ASSUME NEW a \in AC, XmitPost(a) PROVE InterruptArmed'
  BY <1>6 DEF XmitPost, InterruptArmed, Interrupts, InRing
<1>7. CASE TxMgmtFrm
  BY <1>7 DEF TxMgmtFrm, InterruptArmed, Interrupts, InRing
<1>8. CASE SuspendDataTx
  BY <1>8 DEF SuspendDataTx, InterruptArmed, Interrupts, InRing
<1>9. CASE ResumeDataTx
  BY <1>9 DEF ResumeDataTx, InterruptArmed, Interrupts, InRing
<1>10. CASE McPost
  BY <1>10 DEF McPost, InterruptArmed, Interrupts, InRing
<1>11. CASE TxFrames
  BY <1>11 DEF TxFrames, InterruptArmed, Interrupts, InRing
<1>12. CASE MgmtTake
  BY <1>12 DEF MgmtTake, InterruptArmed, Interrupts, InRing
<1>13. CASE MgmtEnd
  BY <1>13 DEF MgmtEnd, PushChain, InterruptArmed, Interrupts, InRing
<1>14. CASE DataBlocked
  BY <1>14 DEF DataBlocked, EndPass, InterruptArmed, Interrupts, InRing
<1>15. CASE DataNoRes
  BY <1>15 DEF DataNoRes, EndPass, InterruptArmed, Interrupts, InRing
<1>16. CASE DataNone
  BY <1>16 DEF DataNone, EndPass, InterruptArmed, Interrupts, InRing
<1>17. CASE DataSelect
  BY <1>17 DEF DataSelect, InterruptArmed, Interrupts, InRing
<1>18. CASE ClearMask
  BY <1>18 DEF ClearMask, InterruptArmed, Interrupts, InRing
<1>19. CASE ScanMask
  BY <1>19 DEF ScanMask, InterruptArmed, Interrupts, InRing
<1>20. CASE ClearPending
  BY <1>20 DEF ClearPending, InterruptArmed, Interrupts, InRing
<1>21. CASE FetchBegin
  BY <1>21 DEF FetchBegin, InterruptArmed, Interrupts, InRing
<1>22. CASE FetchFailed
  BY <1>22 DEF FetchFailed, InterruptArmed, Interrupts, InRing
<1>23. CASE FetchRemove
  BY <1>23 DEF FetchRemove, InterruptArmed, Interrupts, InRing
<1>24. CASE FetchTake
  BY <1>24 DEF FetchTake, InterruptArmed, Interrupts, InRing
<1>25. CASE PushData
  BY <1>25 DEF PushData, PushChain, InterruptArmed, Interrupts, InRing
<1>26. CASE CompleteTX
  BY <1>26 DEF CompleteTX, CompFrame, InterruptArmed, Interrupts, InRing
<1>27. CASE TxEvent
  BY <1>27 DEF TxEvent, InterruptArmed, Interrupts, InRing
<1>28. CASE CleanInt
  BY <1>28 DEF CleanInt, InterruptArmed, Interrupts, InRing
<1>29. CASE EventComp
  BY <1>29 DEF EventComp, CompFrame, InterruptArmed, Interrupts, InRing
<1>30. CASE Arm
  BY <1>30 DEF Arm, ArmFor, InterruptArmed, Interrupts, InRing
<1>31. CASE TxIsr
  BY <1>31 DEF TxIsr, InterruptArmed, Interrupts, InRing
<1>32. CASE TxIsrPost
  BY <1>32 DEF TxIsrPost, InterruptArmed, Interrupts, InRing
<1>33. ASSUME NEW c \in Channel, Consume(c) PROVE InterruptArmed'

  BY <1>33, Consumed DEF Consume, InterruptArmed
<1> QED BY <1>1, <1>2, <1>3, <1>4, <1>5, <1>6, <1>7, <1>8, <1>9, <1>10,
           <1>11, <1>12, <1>13, <1>14, <1>15, <1>16, <1>17, <1>18, <1>19,
           <1>20, <1>21, <1>22, <1>23, <1>24, <1>25, <1>26, <1>27, <1>28,
           <1>29, <1>30, <1>31, <1>32, <1>33
         DEF Next, Xmit, TxThread, Interrupt, Device

LEMMA InterruptsStep ==
  ASSUME TxIInv, Next
  PROVE  Interrupts'
<1>0. TypeOK /\ Interrupts
  BY DEF TxIInv
<1> USE <1>0
<1>1. ASSUME NEW a \in AC, XmitStart(a) PROVE Interrupts'
  BY <1>1 DEF XmitStart, Interrupts, EventChannel
<1>2. ASSUME NEW a \in AC, XmitFull(a) PROVE Interrupts'
  BY <1>2 DEF XmitFull, Interrupts, EventChannel
<1>3. ASSUME NEW a \in AC, XmitInsert(a) PROVE Interrupts'
  BY <1>3 DEF XmitInsert, Interrupts, EventChannel
<1>4. ASSUME NEW a \in AC, XmitMask(a) PROVE Interrupts'
  BY <1>4 DEF XmitMask, Interrupts, EventChannel
<1>5. ASSUME NEW a \in AC, XmitPend(a) PROVE Interrupts'
  BY <1>5 DEF XmitPend, Interrupts, EventChannel
<1>6. ASSUME NEW a \in AC, XmitPost(a) PROVE Interrupts'
  BY <1>6 DEF XmitPost, Interrupts, EventChannel
<1>7. CASE TxMgmtFrm
  BY <1>7 DEF TxMgmtFrm, Interrupts, EventChannel
<1>8. CASE SuspendDataTx
  BY <1>8 DEF SuspendDataTx, Interrupts, EventChannel
<1>9. CASE ResumeDataTx
  BY <1>9 DEF ResumeDataTx, Interrupts, EventChannel
<1>10. CASE McPost
  BY <1>10 DEF McPost, Interrupts, EventChannel
<1>11. CASE TxFrames
  BY <1>11 DEF TxFrames, Interrupts, EventChannel
<1>12. CASE MgmtTake
  BY <1>12 DEF MgmtTake, Interrupts, EventChannel
<1>13. CASE MgmtEnd
  BY <1>13 DEF MgmtEnd, PushChain, Interrupts, EventChannel
<1>14. CASE DataBlocked
  BY <1>14 DEF DataBlocked, EndPass, Interrupts, EventChannel
<1>15. CASE DataNoRes
  BY <1>15 DEF DataNoRes, EndPass, Interrupts, EventChannel
<1>16. CASE DataNone
  BY <1>16 DEF DataNone, EndPass, Interrupts, EventChannel
<1>17. CASE DataSelect
  BY <1>17 DEF DataSelect, Interrupts, EventChannel
<1>18. CASE ClearMask
  BY <1>18 DEF ClearMask, Interrupts, EventChannel
<1>19. CASE ScanMask
  BY <1>19 DEF ScanMask, Interrupts, EventChannel
<1>20. CASE ClearPending
  BY <1>20 DEF ClearPending, Interrupts, EventChannel
<1>21. CASE FetchBegin
  BY <1>21 DEF FetchBegin, Interrupts, EventChannel
<1>22. CASE FetchFailed
  BY <1>22 DEF FetchFailed, Interrupts, EventChannel
<1>23. CASE FetchRemove
  BY <1>23 DEF FetchRemove, Interrupts, EventChannel
<1>24. CASE FetchTake
  BY <1>24 DEF FetchTake, Interrupts, EventChannel
<1>25. CASE PushData
  BY <1>25 DEF PushData, PushChain, Interrupts, EventChannel
<1>26. CASE CompleteTX

  <2>1. \A c \in Channel : ~(done'[c] > 0)
    BY <1>26, Reclaimed, ChannelsOfEvent DEF CompleteTX
  <2>2. txIntEnable' => intOn' \/ isr' = "post"
    BY <1>26 DEF CompleteTX, Interrupts
  <2> QED BY <2>1, <2>2 DEF Interrupts
<1>27. CASE TxEvent
  BY <1>27 DEF TxEvent, Interrupts, EventChannel
<1>28. CASE CleanInt
  BY <1>28 DEF CleanInt, Interrupts, EventChannel
<1>29. CASE EventComp
  BY <1>29 DEF EventComp, CompFrame, Interrupts, EventChannel
<1>30. CASE Arm
  BY <1>30 DEF Arm, ArmFor, Interrupts, EventChannel
<1>31. CASE TxIsr
  BY <1>31 DEF TxIsr, Interrupts, EventChannel
<1>32. CASE TxIsrPost
  BY <1>32 DEF TxIsrPost, Interrupts, EventChannel
<1>33. ASSUME NEW c \in Channel, Consume(c) PROVE Interrupts'
  BY <1>33 DEF Consume, Interrupts, EventChannel
<1> QED BY <1>1, <1>2, <1>3, <1>4, <1>5, <1>6, <1>7, <1>8, <1>9, <1>10,
           <1>11, <1>12, <1>13, <1>14, <1>15, <1>16, <1>17, <1>18, <1>19,
           <1>20, <1>21, <1>22, <1>23, <1>24, <1>25, <1>26, <1>27, <1>28,
           <1>29, <1>30, <1>31, <1>32, <1>33
         DEF Next, Xmit, TxThread, Interrupt, Device

LEMMA StoppedWillWakeStep ==
  ASSUME TxIInv, Next
  PROVE  StoppedWillWake'
<1>0. TypeOK /\ StoppedWillWake /\ Queues
  BY DEF TxIInv
<1> USE <1>0
<1>1. ASSUME NEW a \in AC, XmitStart(a) PROVE StoppedWillWake'
  BY <1>1 DEF XmitStart, StoppedWillWake
<1>2. ASSUME NEW a \in AC, XmitFull(a) PROVE StoppedWillWake'

  BY <1>2, Refused, Numbers, Sizes DEF XmitFull, StoppedWillWake
<1>3. ASSUME NEW a \in AC, XmitInsert(a) PROVE StoppedWillWake'

  BY <1>3, Inserted, Numbers DEF XmitInsert, StoppedWillWake
<1>4. ASSUME NEW a \in AC, XmitMask(a) PROVE StoppedWillWake'
  BY <1>4 DEF XmitMask, StoppedWillWake
<1>5. ASSUME NEW a \in AC, XmitPend(a) PROVE StoppedWillWake'
  BY <1>5 DEF XmitPend, StoppedWillWake
<1>6. ASSUME NEW a \in AC, XmitPost(a) PROVE StoppedWillWake'
  BY <1>6 DEF XmitPost, StoppedWillWake
<1>7. CASE TxMgmtFrm
  BY <1>7 DEF TxMgmtFrm, StoppedWillWake
<1>8. CASE SuspendDataTx
  BY <1>8 DEF SuspendDataTx, StoppedWillWake
<1>9. CASE ResumeDataTx
  BY <1>9 DEF ResumeDataTx, StoppedWillWake
<1>10. CASE McPost
  BY <1>10 DEF McPost, StoppedWillWake
<1>11. CASE TxFrames
  BY <1>11 DEF TxFrames, StoppedWillWake
<1>12. CASE MgmtTake
  BY <1>12 DEF MgmtTake, StoppedWillWake
<1>13. CASE MgmtEnd
  BY <1>13 DEF MgmtEnd, PushChain, StoppedWillWake
<1>14. CASE DataBlocked
  BY <1>14 DEF DataBlocked, EndPass, StoppedWillWake
<1>15. CASE DataNoRes
  BY <1>15 DEF DataNoRes, EndPass, StoppedWillWake
<1>16. CASE DataNone
  BY <1>16 DEF DataNone, EndPass, StoppedWillWake
<1>17. CASE DataSelect
  BY <1>17 DEF DataSelect, StoppedWillWake
<1>18. CASE ClearMask
  BY <1>18 DEF ClearMask, StoppedWillWake
<1>19. CASE ScanMask
  BY <1>19 DEF ScanMask, StoppedWillWake
<1>20. CASE ClearPending
  BY <1>20 DEF ClearPending, StoppedWillWake
<1>21. CASE FetchBegin
  BY <1>21 DEF FetchBegin, StoppedWillWake
<1>22. CASE FetchFailed
  BY <1>22 DEF FetchFailed, StoppedWillWake
<1>23. CASE FetchRemove
  BY <1>23 DEF FetchRemove, StoppedWillWake
<1>24. CASE FetchTake

  <2>1. q[ucCurrentAC] > 0 \/ fetchSize <= LowWater
    <3> DEFINE n == q[ucCurrentAC]
    <3>1. n + 1 >= fetchSize
      BY <1>24 DEF FetchTake, Queues
    <3>2. n \in Nat /\ fetchSize \in Nat
      BY Numbers
    <3>3. LowWater \in Nat /\ LowWater > 0
      BY Sizes
    <3> HIDE DEF n, Queues, TypeOK, StoppedWillWake
    <3>4. n > 0 \/ fetchSize <= LowWater
      BY <3>1, <3>2, <3>3
    <3> QED BY <3>4 DEF n
  <2>2. isTxSuspended[ucCurrentAC] /\ ~Wakes(ucCurrentAC) => q[ucCurrentAC] > 0
    BY <2>1 DEF Wakes
  <2> QED BY <1>24, <2>2, Fetched DEF FetchTake, StoppedWillWake
<1>25. CASE PushData
  BY <1>25 DEF PushData, PushChain, StoppedWillWake
<1>26. CASE CompleteTX
  BY <1>26 DEF CompleteTX, CompFrame, StoppedWillWake
<1>27. CASE TxEvent
  BY <1>27 DEF TxEvent, StoppedWillWake
<1>28. CASE CleanInt
  BY <1>28 DEF CleanInt, StoppedWillWake
<1>29. CASE EventComp
  BY <1>29 DEF EventComp, CompFrame, StoppedWillWake
<1>30. CASE Arm
  BY <1>30 DEF Arm, ArmFor, StoppedWillWake
<1>31. CASE TxIsr
  BY <1>31 DEF TxIsr, StoppedWillWake
<1>32. CASE TxIsrPost
  BY <1>32 DEF TxIsrPost, StoppedWillWake
<1>33. ASSUME NEW c \in Channel, Consume(c) PROVE StoppedWillWake'
  BY <1>33 DEF Consume, StoppedWillWake
<1> QED BY <1>1, <1>2, <1>3, <1>4, <1>5, <1>6, <1>7, <1>8, <1>9, <1>10,
           <1>11, <1>12, <1>13, <1>14, <1>15, <1>16, <1>17, <1>18, <1>19,
           <1>20, <1>21, <1>22, <1>23, <1>24, <1>25, <1>26, <1>27, <1>28,
           <1>29, <1>30, <1>31, <1>32, <1>33
         DEF Next, Xmit, TxThread, Interrupt, Device

LEMMA PacketsKeptStep ==
  ASSUME TxIInv, Next
  PROVE  PacketsKept'
<1>0. TypeOK /\ PacketsKept /\ Resources
  BY DEF TxIInv
<1> USE <1>0
<1>1. ASSUME NEW a \in AC, XmitStart(a) PROVE PacketsKept'
  BY <1>1 DEF XmitStart, PacketsKept, PacketsOut, InRing
<1>2. ASSUME NEW a \in AC, XmitFull(a) PROVE PacketsKept'
  BY <1>2 DEF XmitFull, PacketsKept, PacketsOut, InRing
<1>3. ASSUME NEW a \in AC, XmitInsert(a) PROVE PacketsKept'
  BY <1>3 DEF XmitInsert, PacketsKept, PacketsOut, InRing
<1>4. ASSUME NEW a \in AC, XmitMask(a) PROVE PacketsKept'
  BY <1>4 DEF XmitMask, PacketsKept, PacketsOut, InRing
<1>5. ASSUME NEW a \in AC, XmitPend(a) PROVE PacketsKept'
  BY <1>5 DEF XmitPend, PacketsKept, PacketsOut, InRing
<1>6. ASSUME NEW a \in AC, XmitPost(a) PROVE PacketsKept'
  BY <1>6 DEF XmitPost, PacketsKept, PacketsOut, InRing
<1>7. CASE TxMgmtFrm
  BY <1>7 DEF TxMgmtFrm, PacketsKept, PacketsOut, InRing
<1>8. CASE SuspendDataTx
  BY <1>8 DEF SuspendDataTx, PacketsKept, PacketsOut, InRing
<1>9. CASE ResumeDataTx
  BY <1>9 DEF ResumeDataTx, PacketsKept, PacketsOut, InRing
<1>10. CASE McPost
  BY <1>10 DEF McPost, PacketsKept, PacketsOut, InRing
<1>11. CASE TxFrames

  BY <1>11 DEF TxFrames, PacketsKept, PacketsOut, InRing, Resources, Apart
<1>12. CASE MgmtTake
  BY <1>12 DEF MgmtTake, PacketsKept, PacketsOut, InRing
<1>13. CASE MgmtEnd

  <2>1. InRing("lo")' = InRing("lo")
    BY <1>13, Pushed, RingNumbers DEF MgmtEnd
  <2> QED BY <1>13, <2>1 DEF MgmtEnd, PacketsKept, PacketsOut
<1>14. CASE DataBlocked
  BY <1>14 DEF DataBlocked, EndPass, PacketsKept, PacketsOut, InRing
<1>15. CASE DataNoRes
  BY <1>15 DEF DataNoRes, EndPass, PacketsKept, PacketsOut, InRing
<1>16. CASE DataNone
  BY <1>16 DEF DataNone, EndPass, PacketsKept, PacketsOut, InRing
<1>17. CASE DataSelect
  BY <1>17 DEF DataSelect, PacketsKept, PacketsOut, InRing
<1>18. CASE ClearMask
  BY <1>18 DEF ClearMask, PacketsKept, PacketsOut, InRing
<1>19. CASE ScanMask
  BY <1>19 DEF ScanMask, PacketsKept, PacketsOut, InRing
<1>20. CASE ClearPending
  BY <1>20 DEF ClearPending, PacketsKept, PacketsOut, InRing
<1>21. CASE FetchBegin

  <2>1. InRing("lo")' = InRing("lo") /\ InRing("lo") \in Nat
    BY <1>21, RingNumbers DEF FetchBegin, InRing
  <2>2. CASE tx' = "failed"
    <3>1. /\ freePkts' = freePkts /\ setup' = setup /\ chain' = chain /\ tx = "fetch"
          /\ lowResCb' => lowResCb \/ freePkts = 0
      BY <1>21, <2>2 DEF FetchBegin
    <3> QED BY <2>1, <2>2, <3>1, Numbers, Sizes DEF PacketsKept, PacketsOut, TypeOK
  <2>3. CASE tx' = "take"
    <3>1. /\ freePkts' = freePkts - 1 /\ setup' = setup /\ chain' = chain /\ tx = "fetch"
          /\ ~lowResCb'
      BY <1>21, <2>3 DEF FetchBegin
    <3> QED BY <2>1, <2>3, <3>1, Numbers DEF PacketsKept, PacketsOut
  <2> QED BY <1>21, <2>2, <2>3 DEF FetchBegin
<1>22. CASE FetchFailed
  BY <1>22 DEF FetchFailed, PacketsKept, PacketsOut, InRing
<1>23. CASE FetchRemove
  BY <1>23 DEF FetchRemove, PacketsKept, PacketsOut, InRing
<1>24. CASE FetchTake

  <2>1. InRing("lo")' = InRing("lo") /\ InRing("lo") \in Nat
    BY <1>24, RingNumbers DEF FetchTake, InRing
  <2> QED BY <1>24, <2>1, Numbers DEF FetchTake, PacketsKept, PacketsOut
<1>25. CASE PushData

  <2>1. InRing("lo")' = InRing("lo") + chain /\ InRing("lo") \in Nat
    BY <1>25, Pushed, RingNumbers DEF PushData
  <2> QED BY <1>25, <2>1, Numbers DEF PushData, PacketsKept, PacketsOut
<1>26. CASE CompleteTX

  <2>1. /\ CompFrame(Channel) /\ posted' = posted /\ UNCHANGED chain /\ tx = "complete"
        /\ tx' \notin {"mgmt", "complete", "take", "taken"}
    BY <1>26 DEF CompleteTX
  <2>2. /\ Returned(Channel) \in Nat /\ PacketsOut \in Nat /\ InRing("lo") \in Nat
        /\ PacketsOut' = PacketsOut - Returned(Channel)
        /\ InRing("lo")' = InRing("lo") - Returned(Channel)
        /\ lowResCb' => lowResCb /\ Returned(Channel) = 0
    BY <2>1, ChannelsOfEvent, PacketsReturned
  <2>3. chain = 0
    BY <2>1 DEF Resources, Apart
  <2>4. PacketsOut = InRing("lo")
    BY <2>1, <2>2, <2>3 DEF PacketsKept
  <2>5. lowResCb => PacketsOut > 0
    BY DEF PacketsKept
  <2> QED BY <2>1, <2>2, <2>3, <2>4, <2>5 DEF PacketsKept
<1>27. CASE TxEvent
  BY <1>27 DEF TxEvent, PacketsKept, PacketsOut, InRing
<1>28. CASE CleanInt
  BY <1>28 DEF CleanInt, PacketsKept, PacketsOut, InRing
<1>29. CASE EventComp

  <2>1. /\ CompFrame({EventChannel}) /\ posted' = posted /\ UNCHANGED chain /\ tx = "comp"
        /\ tx' \notin {"mgmt", "complete", "take", "taken"}
    BY <1>29, Evented DEF EventComp
  <2>2. /\ Returned({EventChannel}) \in Nat /\ PacketsOut \in Nat /\ InRing("lo") \in Nat
        /\ PacketsOut' = PacketsOut - Returned({EventChannel})
        /\ InRing("lo")' = InRing("lo") - Returned({EventChannel})
        /\ lowResCb' => lowResCb /\ Returned({EventChannel}) = 0
    BY <2>1, ChannelsOfEvent, PacketsReturned
  <2>3. chain = 0
    BY <2>1 DEF Resources, Apart
  <2>4. PacketsOut = InRing("lo")
    BY <2>1, <2>2, <2>3 DEF PacketsKept
  <2>5. lowResCb => PacketsOut > 0
    BY DEF PacketsKept
  <2> QED BY <2>1, <2>2, <2>3, <2>4, <2>5 DEF PacketsKept
<1>30. CASE Arm
  BY <1>30 DEF Arm, ArmFor, PacketsKept, PacketsOut, InRing
<1>31. CASE TxIsr
  BY <1>31 DEF TxIsr, PacketsKept, PacketsOut, InRing
<1>32. CASE TxIsrPost
  BY <1>32 DEF TxIsrPost, PacketsKept, PacketsOut, InRing
<1>33. ASSUME NEW c \in Channel, Consume(c) PROVE PacketsKept'

  <2>1. InRing("lo")' = InRing("lo")
    BY <1>33, Consumed, RingNumbers
  <2> QED BY <1>33, <2>1 DEF Consume, PacketsKept, PacketsOut
<1> QED BY <1>1, <1>2, <1>3, <1>4, <1>5, <1>6, <1>7, <1>8, <1>9, <1>10,
           <1>11, <1>12, <1>13, <1>14, <1>15, <1>16, <1>17, <1>18, <1>19,
           <1>20, <1>21, <1>22, <1>23, <1>24, <1>25, <1>26, <1>27, <1>28,
           <1>29, <1>30, <1>31, <1>32, <1>33
         DEF Next, Xmit, TxThread, Interrupt, Device

LEMMA ResourcesComeStep ==
  ASSUME TxIInv, Next
  PROVE  ResourcesCome'
<1>0. TypeOK /\ ResourcesCome /\ Resources /\ LowResource
  BY DEF TxIInv
<1> USE <1>0
<1>1. ASSUME NEW a \in AC, XmitStart(a) PROVE ResourcesCome'
  BY <1>1 DEF XmitStart, ResourcesCome, PassComes, Choosing, Loop, Apart
<1>2. ASSUME NEW a \in AC, XmitFull(a) PROVE ResourcesCome'
  BY <1>2 DEF XmitFull, ResourcesCome, PassComes, Choosing, Loop, Apart
<1>3. ASSUME NEW a \in AC, XmitInsert(a) PROVE ResourcesCome'
  BY <1>3 DEF XmitInsert, ResourcesCome, PassComes, Choosing, Loop, Apart
<1>4. ASSUME NEW a \in AC, XmitMask(a) PROVE ResourcesCome'
  BY <1>4 DEF XmitMask, ResourcesCome, PassComes, Choosing, Loop, Apart
<1>5. ASSUME NEW a \in AC, XmitPend(a) PROVE ResourcesCome'
  BY <1>5 DEF XmitPend, ResourcesCome, PassComes, Choosing, Loop, Apart
<1>6. ASSUME NEW a \in AC, XmitPost(a) PROVE ResourcesCome'

  BY <1>6, PassAsked DEF XmitPost, ResourcesCome, Loop, Choosing
<1>7. CASE TxMgmtFrm
  BY <1>7 DEF TxMgmtFrm, ResourcesCome, PassComes, Choosing, Loop, Apart
<1>8. CASE SuspendDataTx
  BY <1>8 DEF SuspendDataTx, ResourcesCome, PassComes, Choosing, Loop, Apart
<1>9. CASE ResumeDataTx
  BY <1>9 DEF ResumeDataTx, ResourcesCome, PassComes, Choosing, Loop, Apart
<1>10. CASE McPost

  BY <1>10, PassAsked DEF McPost, ResourcesCome, Loop, Choosing
<1>11. CASE TxFrames
  BY <1>11 DEF TxFrames, ResourcesCome, PassComes, Choosing, Loop, Apart
<1>12. CASE MgmtTake
  BY <1>12 DEF MgmtTake, ResourcesCome, PassComes, Choosing, Loop, Apart
<1>13. CASE MgmtEnd
  BY <1>13 DEF MgmtEnd, PushChain, ResourcesCome, PassComes, Choosing, Loop, Apart
<1>14. CASE DataBlocked

  <2>1. tx' = "push" /\ (uResCount < MinResData => uResCount <= Threshold)
        /\ UNCHANGED uResCount
    BY <1>14, Numbers, Sizes DEF DataBlocked, EndPass
  <2> QED BY <2>1 DEF ResourcesCome, PassComes
<1>15. CASE DataNoRes

  <2>1. tx' = "push" /\ (uResCount < MinResData => uResCount <= Threshold)
        /\ UNCHANGED uResCount
    BY <1>15, Numbers, Sizes DEF DataNoRes, EndPass
  <2> QED BY <2>1 DEF ResourcesCome, PassComes
<1>16. CASE DataNone

  <2>1. tx' = "push" /\ (uResCount < MinResData => uResCount <= Threshold)
        /\ UNCHANGED uResCount
    BY <1>16, Numbers, Sizes DEF DataNone, EndPass
  <2> QED BY <2>1 DEF ResourcesCome, PassComes
<1>17. CASE DataSelect
  BY <1>17 DEF DataSelect, ResourcesCome, PassComes, Choosing, Loop, Apart
<1>18. CASE ClearMask
  BY <1>18 DEF ClearMask, ResourcesCome, PassComes, Choosing, Loop, Apart
<1>19. CASE ScanMask
  BY <1>19 DEF ScanMask, ResourcesCome, PassComes, Choosing, Loop, Apart
<1>20. CASE ClearPending
  BY <1>20 DEF ClearPending, ResourcesCome, PassComes, Choosing, Loop, Apart
<1>21. CASE FetchBegin
  BY <1>21 DEF FetchBegin, ResourcesCome, PassComes, Choosing, Loop, Apart
<1>22. CASE FetchFailed

  <2>1. uResCount >= MinResData /\ UNCHANGED uResCount
    BY <1>22, Numbers DEF FetchFailed, Resources, Choosing
  <2> QED BY <2>1, Numbers DEF ResourcesCome
<1>23. CASE FetchRemove
  BY <1>23 DEF FetchRemove, ResourcesCome, PassComes, Choosing, Loop, Apart
<1>24. CASE FetchTake
  BY <1>24 DEF FetchTake, ResourcesCome, PassComes, Choosing, Loop, Apart
<1>25. CASE PushData

  <2>1. tx = "push" /\ UNCHANGED uResCount
    BY <1>25 DEF PushData
  <2> QED BY <1>25, <2>1, PassStays DEF ResourcesCome, Loop, Choosing
<1>26. CASE CompleteTX

  <2>1. tx = "complete" /\ UNCHANGED uResCount
    BY <1>26 DEF CompleteTX
  <2> QED BY <1>26, <2>1, PassStays DEF ResourcesCome, Loop, Choosing
<1>27. CASE TxEvent
  BY <1>27 DEF TxEvent, ResourcesCome, PassComes, Choosing, Loop, Apart
<1>28. CASE CleanInt
  BY <1>28 DEF CleanInt, ResourcesCome, PassComes, Choosing, Loop, Apart
<1>29. CASE EventComp

  <2>1. tx = "comp" /\ UNCHANGED uResCount
    BY <1>29 DEF EventComp
  <2> QED BY <1>29, <2>1, PassStays DEF ResourcesCome, Loop, Choosing
<1>30. CASE Arm
  BY <1>30 DEF Arm, ArmFor, ResourcesCome, PassComes, Choosing, Loop, Apart
<1>31. CASE TxIsr
  BY <1>31 DEF TxIsr, ResourcesCome, PassComes, Choosing, Loop, Apart
<1>32. CASE TxIsrPost
  BY <1>32 DEF TxIsrPost, ResourcesCome, PassComes, Choosing, Loop, Apart
<1>33. ASSUME NEW c \in Channel, Consume(c) PROVE ResourcesCome'
  BY <1>33 DEF Consume, ResourcesCome, PassComes, Choosing, Loop, Apart
<1> QED BY <1>1, <1>2, <1>3, <1>4, <1>5, <1>6, <1>7, <1>8, <1>9, <1>10,
           <1>11, <1>12, <1>13, <1>14, <1>15, <1>16, <1>17, <1>18, <1>19,
           <1>20, <1>21, <1>22, <1>23, <1>24, <1>25, <1>26, <1>27, <1>28,
           <1>29, <1>30, <1>31, <1>32, <1>33
         DEF Next, Xmit, TxThread, Interrupt, Device

LEMMA MgmtServedStep ==
  ASSUME TxIInv, Next
  PROVE  MgmtServed'
<1>0. TypeOK /\ MgmtServed /\ ResourcesCome /\ Resources /\ LowResource
  BY DEF TxIInv
<1> USE <1>0
<1>1. ASSUME NEW a \in AC, XmitStart(a) PROVE MgmtServed'
  BY <1>1 DEF XmitStart, MgmtServed, PassComes, Choosing, Loop, Apart
<1>2. ASSUME NEW a \in AC, XmitFull(a) PROVE MgmtServed'
  BY <1>2 DEF XmitFull, MgmtServed, PassComes, Choosing, Loop, Apart
<1>3. ASSUME NEW a \in AC, XmitInsert(a) PROVE MgmtServed'
  BY <1>3 DEF XmitInsert, MgmtServed, PassComes, Choosing, Loop, Apart
<1>4. ASSUME NEW a \in AC, XmitMask(a) PROVE MgmtServed'
  BY <1>4 DEF XmitMask, MgmtServed, PassComes, Choosing, Loop, Apart
<1>5. ASSUME NEW a \in AC, XmitPend(a) PROVE MgmtServed'
  BY <1>5 DEF XmitPend, MgmtServed, PassComes, Choosing, Loop, Apart
<1>6. ASSUME NEW a \in AC, XmitPost(a) PROVE MgmtServed'

  BY <1>6, PassAsked DEF XmitPost, MgmtServed
<1>7. CASE TxMgmtFrm
  BY <1>7 DEF TxMgmtFrm, MgmtServed, PassComes, Choosing, Loop, Apart
<1>8. CASE SuspendDataTx
  BY <1>8 DEF SuspendDataTx, MgmtServed, PassComes, Choosing, Loop, Apart
<1>9. CASE ResumeDataTx
  BY <1>9 DEF ResumeDataTx, MgmtServed, PassComes, Choosing, Loop, Apart
<1>10. CASE McPost

  <2>1. uResCount >= MinResMF => startXmit' > 0
    BY <1>10, Numbers DEF McPost
  <2>2. uResCount < MinResMF => tx \in {"mgmt", "data"} \/ PassComes
    BY Numbers DEF ResourcesCome, Resources, Loop
  <2>3. UNCHANGED <<tx, mgmtPending>>
    BY <1>10 DEF McPost
  <2> QED BY <1>10, <2>1, <2>2, <2>3, PassAsked, Numbers DEF MgmtServed, PassComes
<1>11. CASE TxFrames
  BY <1>11 DEF TxFrames, MgmtServed, PassComes, Choosing, Loop, Apart
<1>12. CASE MgmtTake
  BY <1>12 DEF MgmtTake, MgmtServed, PassComes, Choosing, Loop, Apart
<1>13. CASE MgmtEnd
  BY <1>13 DEF MgmtEnd, PushChain, MgmtServed, PassComes, Choosing, Loop, Apart
<1>14. CASE DataBlocked

  <2>1. tx' = "push" /\ (txResReq' > 0 \/ uResCount' <= Threshold)
    BY <1>14, Numbers, Sizes DEF DataBlocked, EndPass
  <2> QED BY <2>1 DEF MgmtServed, PassComes
<1>15. CASE DataNoRes
  BY <1>15 DEF DataNoRes, EndPass, MgmtServed, PassComes, Choosing, Loop, Apart
<1>16. CASE DataNone
  BY <1>16 DEF DataNone, EndPass, MgmtServed, PassComes, Choosing, Loop, Apart
<1>17. CASE DataSelect
  BY <1>17 DEF DataSelect, MgmtServed, PassComes, Choosing, Loop, Apart
<1>18. CASE ClearMask
  BY <1>18 DEF ClearMask, MgmtServed, PassComes, Choosing, Loop, Apart
<1>19. CASE ScanMask
  BY <1>19 DEF ScanMask, MgmtServed, PassComes, Choosing, Loop, Apart
<1>20. CASE ClearPending
  BY <1>20 DEF ClearPending, MgmtServed, PassComes, Choosing, Loop, Apart
<1>21. CASE FetchBegin
  BY <1>21 DEF FetchBegin, MgmtServed, PassComes, Choosing, Loop, Apart
<1>22. CASE FetchFailed
  BY <1>22 DEF FetchFailed, MgmtServed, PassComes, Choosing, Loop, Apart
<1>23. CASE FetchRemove
  BY <1>23 DEF FetchRemove, MgmtServed, PassComes, Choosing, Loop, Apart
<1>24. CASE FetchTake
  BY <1>24 DEF FetchTake, MgmtServed, PassComes, Choosing, Loop, Apart
<1>25. CASE PushData

  <2>1. tx = "push" /\ UNCHANGED <<mgmtPending, mc>>
    BY <1>25 DEF PushData
  <2> QED BY <1>25, <2>1, PassStays DEF MgmtServed
<1>26. CASE CompleteTX

  <2>1. tx = "complete" /\ UNCHANGED <<mgmtPending, mc>>
    BY <1>26 DEF CompleteTX
  <2> QED BY <1>26, <2>1, PassStays DEF MgmtServed
<1>27. CASE TxEvent
  BY <1>27 DEF TxEvent, MgmtServed, PassComes, Choosing, Loop, Apart
<1>28. CASE CleanInt
  BY <1>28 DEF CleanInt, MgmtServed, PassComes, Choosing, Loop, Apart
<1>29. CASE EventComp

  <2>1. tx = "comp" /\ UNCHANGED <<mgmtPending, mc>>
    BY <1>29 DEF EventComp
  <2> QED BY <1>29, <2>1, PassStays DEF MgmtServed
<1>30. CASE Arm
  BY <1>30 DEF Arm, ArmFor, MgmtServed, PassComes, Choosing, Loop, Apart
<1>31. CASE TxIsr
  BY <1>31 DEF TxIsr, MgmtServed, PassComes, Choosing, Loop, Apart
<1>32. CASE TxIsrPost
  BY <1>32 DEF TxIsrPost, MgmtServed, PassComes, Choosing, Loop, Apart
<1>33. ASSUME NEW c \in Channel, Consume(c) PROVE MgmtServed'
  BY <1>33 DEF Consume, MgmtServed, PassComes, Choosing, Loop, Apart
<1> QED BY <1>1, <1>2, <1>3, <1>4, <1>5, <1>6, <1>7, <1>8, <1>9, <1>10,
           <1>11, <1>12, <1>13, <1>14, <1>15, <1>16, <1>17, <1>18, <1>19,
           <1>20, <1>21, <1>22, <1>23, <1>24, <1>25, <1>26, <1>27, <1>28,
           <1>29, <1>30, <1>31, <1>32, <1>33
         DEF Next, Xmit, TxThread, Interrupt, Device

LEMMA QueueAnnouncedStep ==
  ASSUME TxIInv, Next
  PROVE  QueueAnnounced'
<1>0. TypeOK /\ QueueAnnounced
  BY DEF TxIInv
<1> USE <1>0
<1>1. ASSUME NEW a \in AC, XmitStart(a) PROVE QueueAnnounced'
  BY <1>1 DEF XmitStart, QueueAnnounced
<1>2. ASSUME NEW a \in AC, XmitFull(a) PROVE QueueAnnounced'

  BY <1>2, Refused DEF XmitFull, QueueAnnounced
<1>3. ASSUME NEW a \in AC, XmitInsert(a) PROVE QueueAnnounced'

  <2>1. UNCHANGED <<aucACMask, lowResCb, tx, ucCurrentAC>> /\ xm[a] = "insert"
    BY <1>3 DEF XmitInsert
  <2>2. ASSUME NEW b \in AC, b # a, q'[b] > 0
        PROVE  q[b] > 0 /\ xm'[b] = xm[b]
    BY <1>3, <2>2, Inserted
  <2>3. q[a] > 0 \/ xm'[a] = "mask"
    BY <1>3, Inserted, Numbers
  <2> QED BY <2>1, <2>2, <2>3 DEF QueueAnnounced
<1>4. ASSUME NEW a \in AC, XmitMask(a) PROVE QueueAnnounced'

  <2>1. UNCHANGED <<q, lowResCb, tx, ucCurrentAC>>
    BY <1>4 DEF XmitMask
  <2> QED BY <1>4, <2>1, Masked DEF QueueAnnounced
<1>5. ASSUME NEW a \in AC, XmitPend(a) PROVE QueueAnnounced'
  BY <1>5 DEF XmitPend, QueueAnnounced
<1>6. ASSUME NEW a \in AC, XmitPost(a) PROVE QueueAnnounced'
  BY <1>6 DEF XmitPost, QueueAnnounced
<1>7. CASE TxMgmtFrm
  BY <1>7 DEF TxMgmtFrm, QueueAnnounced
<1>8. CASE SuspendDataTx
  BY <1>8 DEF SuspendDataTx, QueueAnnounced
<1>9. CASE ResumeDataTx
  BY <1>9 DEF ResumeDataTx, QueueAnnounced
<1>10. CASE McPost
  BY <1>10 DEF McPost, QueueAnnounced
<1>11. CASE TxFrames
  BY <1>11 DEF TxFrames, QueueAnnounced
<1>12. CASE MgmtTake
  BY <1>12 DEF MgmtTake, QueueAnnounced
<1>13. CASE MgmtEnd
  BY <1>13 DEF MgmtEnd, PushChain, QueueAnnounced
<1>14. CASE DataBlocked
  BY <1>14 DEF DataBlocked, EndPass, QueueAnnounced
<1>15. CASE DataNoRes
  BY <1>15 DEF DataNoRes, EndPass, QueueAnnounced
<1>16. CASE DataNone
  BY <1>16 DEF DataNone, EndPass, QueueAnnounced
<1>17. CASE DataSelect
  BY <1>17 DEF DataSelect, QueueAnnounced
<1>18. CASE ClearMask
  BY <1>18 DEF ClearMask, QueueAnnounced
<1>19. CASE ScanMask
  BY <1>19 DEF ScanMask, QueueAnnounced
<1>20. CASE ClearPending
  BY <1>20 DEF ClearPending, QueueAnnounced
<1>21. CASE FetchBegin

  <2>1. /\ UNCHANGED <<q, aucACMask, xm, ucCurrentAC>> /\ tx = "fetch"
        /\ lowResCb => lowResCb'
        /\ q[ucCurrentAC] = 0 \/ lowResCb' \/ tx' = "take"
    BY <1>21 DEF FetchBegin
  <2> QED BY <2>1 DEF QueueAnnounced
<1>22. CASE FetchFailed
  BY <1>22 DEF FetchFailed, QueueAnnounced
<1>23. CASE FetchRemove
  BY <1>23 DEF FetchRemove, QueueAnnounced
<1>24. CASE FetchTake

  <2>1. UNCHANGED <<q, xm, lowResCb>>
    BY <1>24 DEF FetchTake
  <2> QED BY <1>24, <2>1, Fetched DEF QueueAnnounced
<1>25. CASE PushData
  BY <1>25 DEF PushData, PushChain, QueueAnnounced
<1>26. CASE CompleteTX

  <2>1. /\ CompFrame(Channel) /\ UNCHANGED <<q, xm>>
        /\ tx \in {"complete", "comp"}
    BY <1>26 DEF CompleteTX
  <2> QED BY <2>1, ChannelsOfEvent, CalledBack DEF QueueAnnounced
<1>27. CASE TxEvent
  BY <1>27 DEF TxEvent, QueueAnnounced
<1>28. CASE CleanInt
  BY <1>28 DEF CleanInt, QueueAnnounced
<1>29. CASE EventComp

  <2>1. /\ CompFrame({EventChannel}) /\ UNCHANGED <<q, xm>>
        /\ tx \in {"complete", "comp"}
    BY <1>29, Evented DEF EventComp
  <2> QED BY <2>1, ChannelsOfEvent, CalledBack DEF QueueAnnounced
<1>30. CASE Arm
  BY <1>30 DEF Arm, ArmFor, QueueAnnounced
<1>31. CASE TxIsr
  BY <1>31 DEF TxIsr, QueueAnnounced
<1>32. CASE TxIsrPost
  BY <1>32 DEF TxIsrPost, QueueAnnounced
<1>33. ASSUME NEW c \in Channel, Consume(c) PROVE QueueAnnounced'
  BY <1>33 DEF Consume, QueueAnnounced
<1> QED BY <1>1, <1>2, <1>3, <1>4, <1>5, <1>6, <1>7, <1>8, <1>9, <1>10,
           <1>11, <1>12, <1>13, <1>14, <1>15, <1>16, <1>17, <1>18, <1>19,
           <1>20, <1>21, <1>22, <1>23, <1>24, <1>25, <1>26, <1>27, <1>28,
           <1>29, <1>30, <1>31, <1>32, <1>33
         DEF Next, Xmit, TxThread, Interrupt, Device

LEMMA AnnouncedServedStep ==
  ASSUME TxIInv, Next
  PROVE  AnnouncedServed'
<1>0. TypeOK /\ AnnouncedServed /\ ResourcesCome /\ Resources /\ LowResource
  BY DEF TxIInv
<1> USE <1>0
<1>1. ASSUME NEW a \in AC, XmitStart(a) PROVE AnnouncedServed'
  BY <1>1 DEF XmitStart, AnnouncedServed, PassComes, Announced, Choosing, Loop, Apart
<1>2. ASSUME NEW a \in AC, XmitFull(a) PROVE AnnouncedServed'

  <2>1. /\ UNCHANGED <<ucPktPending, aucACMask, ucTxSuspended, mc, tx>>
        /\ UNCHANGED <<startXmit, txResReq, hitLowResource, uResCount>> /\ xm[a] = "full?"
    BY <1>2 DEF XmitFull
  <2> QED BY <1>2, <2>1, Refused DEF AnnouncedServed, Announced, PassComes, Loop, Choosing, Apart
<1>3. ASSUME NEW a \in AC, XmitInsert(a) PROVE AnnouncedServed'
  BY <1>3 DEF XmitInsert, AnnouncedServed, PassComes, Announced, Choosing, Loop, Apart
<1>4. ASSUME NEW a \in AC, XmitMask(a) PROVE AnnouncedServed'

  <2>1. xm'[a] \in {"lockPend", "pend"}
    BY <1>4, Masked
  <2> QED BY <2>1 DEF AnnouncedServed
<1>5. ASSUME NEW a \in AC, XmitPend(a) PROVE AnnouncedServed'
  BY <1>5 DEF XmitPend, AnnouncedServed, PassComes, Announced, Choosing, Loop, Apart
<1>6. ASSUME NEW a \in AC, XmitPost(a) PROVE AnnouncedServed'

  <2>1. /\ UNCHANGED <<ucPktPending, aucACMask, ucTxSuspended, mc, tx>>
        /\ MayStart => startXmit' > 0
    BY <1>6, Numbers DEF XmitPost
  <2>2. ~MayStart => ucTxSuspended \/ tx \in {"mgmt"} \cup Loop \/ PassComes
    BY Numbers DEF MayStart, ResourcesCome
  <2>3. startXmit' > 0 => PassComes'
    BY DEF PassComes
  <2> QED BY <1>6, <2>1, <2>2, <2>3, PassAsked DEF AnnouncedServed, Loop, Choosing
<1>7. CASE TxMgmtFrm
  BY <1>7 DEF TxMgmtFrm, AnnouncedServed, PassComes, Announced, Choosing, Loop, Apart
<1>8. CASE SuspendDataTx
  BY <1>8 DEF SuspendDataTx, AnnouncedServed, PassComes, Announced, Choosing, Loop, Apart
<1>9. CASE ResumeDataTx
  BY <1>9 DEF ResumeDataTx, AnnouncedServed, PassComes, Announced, Choosing, Loop, Apart
<1>10. CASE McPost

  <2>1. /\ UNCHANGED <<ucPktPending, aucACMask, ucTxSuspended, xm, tx>>
        /\ uResCount >= MinResMF => startXmit' > 0
    BY <1>10, Numbers DEF McPost
  <2>2. uResCount < MinResMF => tx \in {"mgmt"} \cup Loop \/ PassComes
    BY Numbers DEF ResourcesCome
  <2>3. startXmit' > 0 => PassComes'
    BY DEF PassComes
  <2> QED BY <1>10, <2>1, <2>2, <2>3, PassAsked, Numbers
         DEF AnnouncedServed, Announced, Loop, Choosing
<1>11. CASE TxFrames
  BY <1>11 DEF TxFrames, AnnouncedServed, PassComes, Announced, Choosing, Loop, Apart
<1>12. CASE MgmtTake
  BY <1>12 DEF MgmtTake, AnnouncedServed, PassComes, Announced, Choosing, Loop, Apart
<1>13. CASE MgmtEnd
  BY <1>13 DEF MgmtEnd, PushChain, AnnouncedServed, PassComes, Announced, Choosing, Loop, Apart
<1>14. CASE DataBlocked

  <2>1. tx' = "push" /\ (txResReq' > 0 \/ uResCount' <= Threshold)
    BY <1>14, Numbers, Sizes DEF DataBlocked, EndPass
  <2> QED BY <2>1 DEF AnnouncedServed, PassComes
<1>15. CASE DataNoRes

  <2>1. tx' = "push" /\ UNCHANGED <<ucTxSuspended, hitLowResource>> /\ "lo" \in Channel
    BY <1>15, RingNumbers DEF DataNoRes, EndPass
  <2>2. ~flowArg => hitLowResource["lo"]
    BY <1>15, <2>1 DEF DataNoRes, Resources, LowResource, Loop
  <2>3. ~ucTxSuspended /\ flowArg => txResReq' > 0
    BY <1>15 DEF DataNoRes, EndPass
  <2> QED BY <2>1, <2>2, <2>3 DEF AnnouncedServed, PassComes
<1>16. CASE DataNone
  BY <1>16 DEF DataNone, EndPass, AnnouncedServed, PassComes, Announced, Choosing, Loop, Apart
<1>17. CASE DataSelect
  BY <1>17 DEF DataSelect, AnnouncedServed, PassComes, Announced, Choosing, Loop, Apart
<1>18. CASE ClearMask
  BY <1>18 DEF ClearMask, AnnouncedServed, PassComes, Announced, Choosing, Loop, Apart
<1>19. CASE ScanMask
  BY <1>19 DEF ScanMask, AnnouncedServed, PassComes, Announced, Choosing, Loop, Apart
<1>20. CASE ClearPending
  BY <1>20 DEF ClearPending, AnnouncedServed, PassComes, Announced, Choosing, Loop, Apart
<1>21. CASE FetchBegin
  BY <1>21 DEF FetchBegin, AnnouncedServed, PassComes, Announced, Choosing, Loop, Apart
<1>22. CASE FetchFailed
  BY <1>22 DEF FetchFailed, AnnouncedServed, PassComes, Announced, Choosing, Loop, Apart
<1>23. CASE FetchRemove
  BY <1>23 DEF FetchRemove, AnnouncedServed, PassComes, Announced, Choosing, Loop, Apart
<1>24. CASE FetchTake
  BY <1>24 DEF FetchTake, AnnouncedServed, PassComes, Announced, Choosing, Loop, Apart
<1>25. CASE PushData

  <2>1. tx = "push" /\ UNCHANGED <<ucPktPending, aucACMask, ucTxSuspended, xm, mc>>
    BY <1>25 DEF PushData
  <2> QED BY <1>25, <2>1, PassStays DEF AnnouncedServed, Announced, Loop, Choosing
<1>26. CASE CompleteTX

  <2>1. /\ CompFrame(Channel) /\ UNCHANGED <<ucTxSuspended, xm, mc>> /\ Channel \in SUBSET Channel
        /\ tx \in {"complete", "comp"}
    BY <1>26, ChannelsOfEvent DEF CompleteTX
  <2>2. Reannounced(Channel) # {} /\ ~ucTxSuspended => PassComes'
    BY <1>26, <2>1, ReannouncedServed
  <2>3. Reannounced(Channel) = {} => (ucPktPending' <=> ucPktPending) /\ Announced' = Announced
    BY <2>1, CalledBack DEF Announced
  <2> QED BY <1>26, <2>1, <2>2, <2>3, PassStays DEF AnnouncedServed, Loop, Choosing
<1>27. CASE TxEvent
  BY <1>27 DEF TxEvent, AnnouncedServed, PassComes, Announced, Choosing, Loop, Apart
<1>28. CASE CleanInt
  BY <1>28 DEF CleanInt, AnnouncedServed, PassComes, Announced, Choosing, Loop, Apart
<1>29. CASE EventComp

  <2>1. /\ CompFrame({EventChannel}) /\ UNCHANGED <<ucTxSuspended, xm, mc>> /\ {EventChannel} \in SUBSET Channel
        /\ tx \in {"complete", "comp"}
    BY <1>29, ChannelsOfEvent DEF EventComp
  <2>2. Reannounced({EventChannel}) # {} /\ ~ucTxSuspended => PassComes'
    BY <1>29, <2>1, ReannouncedServed
  <2>3. Reannounced({EventChannel}) = {} => (ucPktPending' <=> ucPktPending) /\ Announced' = Announced
    BY <2>1, CalledBack DEF Announced
  <2> QED BY <1>29, <2>1, <2>2, <2>3, PassStays DEF AnnouncedServed, Loop, Choosing
<1>30. CASE Arm
  BY <1>30 DEF Arm, ArmFor, AnnouncedServed, PassComes, Announced, Choosing, Loop, Apart
<1>31. CASE TxIsr
  BY <1>31 DEF TxIsr, AnnouncedServed, PassComes, Announced, Choosing, Loop, Apart
<1>32. CASE TxIsrPost
  BY <1>32 DEF TxIsrPost, AnnouncedServed, PassComes, Announced, Choosing, Loop, Apart
<1>33. ASSUME NEW c \in Channel, Consume(c) PROVE AnnouncedServed'
  BY <1>33 DEF Consume, AnnouncedServed, PassComes, Announced, Choosing, Loop, Apart
<1> QED BY <1>1, <1>2, <1>3, <1>4, <1>5, <1>6, <1>7, <1>8, <1>9, <1>10,
           <1>11, <1>12, <1>13, <1>14, <1>15, <1>16, <1>17, <1>18, <1>19,
           <1>20, <1>21, <1>22, <1>23, <1>24, <1>25, <1>26, <1>27, <1>28,
           <1>29, <1>30, <1>31, <1>32, <1>33
         DEF Next, Xmit, TxThread, Interrupt, Device

LEMMA TxInit ==
  Init => TxIInv
<1> SUFFICES ASSUME Init PROVE TxIInv
  OBVIOUS
<1>1. TypeOK
  <2>1. setup \in Setups /\ freePkts = setup.pool /\ VO \in AC
    BY Sizes DEF Init
  <2>2. HddTypes
    BY <2>1, Sizes DEF Init, HddTypes
  <2>3. TlTypes
    <3>1. /\ aucACMask = [a \in AC |-> FALSE] /\ ~ucPktPending /\ ucPktPending \in BOOLEAN
          /\ ucCurrentAC = VO /\ ucCurrentWeight = 0 /\ uResCount = MinResData + 20
          /\ ucTxSuspended \in BOOLEAN /\ mgmtPending \in BOOLEAN
          /\ mgmtSent = 0 /\ mc = "idle" /\ startXmit = 0
      BY DEF Init
    <3>2. aucACMask \in [AC -> BOOLEAN]
      BY <3>1
    <3> QED BY <2>1, <3>1, <3>2, Sizes DEF TlTypes
  <2>4. PassTypes
    <3>1. /\ isrMsg \in BOOLEAN /\ tx = "idle" /\ flowArg \in BOOLEAN /\ scanned \in BOOLEAN
          /\ fetchSize = 0 /\ chain = 0 /\ txResReq = 0 /\ intSrc = {}
      BY DEF Init
    <3> QED BY <3>1, Sizes DEF PassTypes
  <2>5. DxeTypes
    <3>1. /\ lowResCb \in BOOLEAN /\ posted \in [Channel -> Nat] /\ done \in [Channel -> Nat]
          /\ flow = Channel /\ hitLowResource = [c \in Channel |-> FALSE]
          /\ rawInt = {} /\ intOn \in BOOLEAN /\ txIntEnable \in BOOLEAN /\ isr = "idle"
      BY DEF Init
    <3>2. hitLowResource \in [Channel -> BOOLEAN]
      BY <3>1
    <3> QED BY <2>1, <3>1, <3>2, Sizes DEF DxeTypes
  <2> QED BY <2>2, <2>3, <2>4, <2>5, TypeParts DEF AllTypes
<1>2. /\ \A a \in AC : q[a] = 0 /\ xm[a] = "idle" /\ ~osStopped[a]
      /\ \A c \in Channel : posted[c] = 0 /\ done[c] = 0 /\ ~hitLowResource[c]
      /\ tx = "idle" /\ mc = "idle" /\ flow = Channel /\ chain = 0 /\ ~ucPktPending
      /\ uResCount > MinResData /\ ~lowResCb /\ freePkts = setup.pool /\ ~mgmtPending
      /\ ~txIntEnable
  BY DEF Init
<1>3. \A c \in Channel : InRing(c) = 0 /\ FreeDesc(c) = Res(c) /\ Res(c) > Threshold
  BY <1>1, <1>2, RingNumbers, RingSize
<1>4. \A c \in Channel : FreeDesc(c) >= 0 /\ ~(FreeDesc(c) <= Threshold)
  BY <1>1, <1>3, RingSize, Sizes
<1>5. Queues /\ Resources /\ LowResource
  BY <1>2, <1>3, <1>4 DEF Queues, Resources, LowResource, Choosing, Loop, Apart
<1>6. InterruptArmed /\ Interrupts /\ StoppedWillWake
  BY <1>2, <1>3 DEF InterruptArmed, Interrupts, StoppedWillWake
<1>7. PacketsKept
  BY <1>1, <1>2, <1>3, RingNumbers, Numbers DEF PacketsKept, PacketsOut
<1>8. ResourcesCome /\ MgmtServed /\ QueueAnnounced /\ AnnouncedServed
  BY <1>1, <1>2, Numbers DEF ResourcesCome, MgmtServed, QueueAnnounced,
                             AnnouncedServed
<1> QED BY <1>1, <1>5, <1>6, <1>7, <1>8 DEF TxIInv

LEMMA TxStutter ==
  TxIInv /\ UNCHANGED vars => TxIInv'
<1> SUFFICES ASSUME TxIInv, UNCHANGED vars PROVE TxIInv'
  OBVIOUS
<1>1. /\ UNCHANGED <<q, osStopped, isTxSuspended, xm, sent, setup, lowResCb, freePkts>>
      /\ UNCHANGED <<aucACMask, ucPktPending, ucCurrentAC, ucCurrentWeight, uResCount>>
      /\ UNCHANGED <<ucTxSuspended, mgmtSent, mc, mgmtPending, startXmit, isrMsg, tx>>
      /\ UNCHANGED <<flowArg, scanned, fetchSize, chain, txResReq, intSrc>>
      /\ UNCHANGED <<posted, done, rawInt, flow, hitLowResource>>
      /\ UNCHANGED <<intOn, txIntEnable, isr>>
  BY DEF vars
<1>2. \A c \in Channel : InRing(c)' = InRing(c) /\ FreeDesc(c)' = FreeDesc(c)
  BY <1>1 DEF InRing, FreeDesc, Res
<1>3. "lo" \in Channel /\ "hi" \in Channel
  BY DEF Channel
<1>4. TypeOK'
  BY <1>1 DEF TxIInv, TypeOK
<1>5. Queues'
  BY <1>1 DEF TxIInv, Queues, Choosing
<1>6. Resources' /\ LowResource'
  BY <1>1, <1>2, <1>3 DEF TxIInv, Resources, LowResource, Choosing, Loop, Apart
<1>7. InterruptArmed' /\ Interrupts'
  BY <1>1, <1>2 DEF TxIInv, InterruptArmed, Interrupts, EventChannel
<1>8. StoppedWillWake' /\ PacketsKept'
  BY <1>1, <1>2, <1>3 DEF TxIInv, StoppedWillWake, PacketsKept, PacketsOut
<1>9. PassComes' <=> PassComes
  BY <1>1 DEF PassComes, Apart
<1>10. ResourcesCome' /\ MgmtServed'
  BY <1>1, <1>9 DEF TxIInv, ResourcesCome, MgmtServed, Loop, Choosing
<1>11. QueueAnnounced' /\ AnnouncedServed'
  BY <1>1, <1>9 DEF TxIInv, QueueAnnounced, AnnouncedServed, Announced, Loop, Choosing
<1> QED BY <1>4, <1>5, <1>6, <1>7, <1>8, <1>10, <1>11 DEF TxIInv

\* The queues, the rings, the interrupt and the pool of the transmit path
\* (hdd_hard_start_xmit, WDA_DS_TxFrames, dxeTXCompFrame, dxeTXISR) satisfy
\* the inductive invariant in every reachable state.
THEOREM TxIInvariant == Spec => []TxIInv
<1>1. TxIInv /\ [Next]_vars => TxIInv'
  <2> SUFFICES ASSUME TxIInv, [Next]_vars PROVE TxIInv'
    OBVIOUS
  <2>1. CASE Next
    <3>1. TypeOK' /\ Queues' /\ Resources' /\ LowResource'
      BY <2>1, TypeStep, QueuesStep, ResourcesStep, LowResourceStep
    <3>2. InterruptArmed' /\ Interrupts' /\ StoppedWillWake' /\ PacketsKept'
      BY <2>1, InterruptArmedStep, InterruptsStep, StoppedWillWakeStep, PacketsKeptStep
    <3>3. ResourcesCome' /\ MgmtServed' /\ QueueAnnounced' /\ AnnouncedServed'
      BY <2>1, ResourcesComeStep, MgmtServedStep, QueueAnnouncedStep, AnnouncedServedStep
    <3> QED BY <3>1, <3>2, <3>3 DEF TxIInv
  <2>2. CASE UNCHANGED vars
    BY <2>2, TxStutter
  <2> QED BY <2>1, <2>2
<1> QED BY <1>1, TxInit, PTL DEF Spec

\* TypeOK, and: while frames are in a ring (WLANDXE_TxFrame) the interrupt
\* that reclaims them is on its way or enabled; a queue the stack may not
\* send to (hdd_hard_start_xmit stops it) has frames that will let it go on;
\* every packet of the pool is in the pool or with a frame, and who waits
\* for one (vos_pkt_get_packet's low resource callback) waits for a frame.
THEOREM TxInvCorrect == Spec => []TxInv
<1>1. TxIInv => TxInv
  BY DEF TxIInv, TxInv
<1> QED BY <1>1, TxIInvariant, PTL

\* A ring that is off in uTxFlowMask is known to DXE as one in low resource,
\* and has frames to reclaim: dxeTXCompFrame will put it on again.
THEOREM RecoveryComesCorrect == Spec => []RecoveryComes
<1>1. TxIInv => RecoveryComes
  BY DEF TxIInv, LowResource, RecoveryComes
<1> QED BY <1>1, TxIInvariant, PTL

\* At rest both rings are empty, and no pass will come.
LEMMA AtRest ==
  ASSUME TxIInv, Quiescent
  PROVE  /\ \A c \in Channel : done[c] = 0 /\ InRing(c) = 0
         /\ ~PassComes /\ ~lowResCb
<1> USE DEF TxIInv
<1>1. tx = "idle" /\ isr = "idle" /\ ~isrMsg /\ startXmit = 0 /\ ~(intOn /\ rawInt # {})
  BY DEF Quiescent
<1>2. \A c \in Channel : posted[c] = 0 /\ done[c] \in Nat /\ InRing(c) = posted[c] + done[c]
  BY RingNumbers DEF Quiescent
<1>3. ASSUME NEW c \in Channel PROVE done[c] = 0
  <2> SUFFICES ASSUME done[c] > 0 PROVE FALSE
    BY <1>2
  <2>1. c \in rawInt
    BY <1>1 DEF Interrupts
  <2>2. InRing(c) > 0
    BY <1>2
  <2>3. intOn
    BY <1>1, <2>2 DEF InterruptArmed
  <2> QED BY <1>1, <2>1, <2>3
<1>4. \A c \in Channel : InRing(c) = 0
  BY <1>2, <1>3
<1>5. "lo" \in Channel /\ ~hitLowResource["lo"]
  BY <1>4 DEF LowResource, Channel
<1>6. ~PassComes
  BY <1>1, <1>5 DEF PassComes
<1>7. chain = 0
  BY <1>1 DEF Resources, Apart
<1>8. PacketsOut = 0
  BY <1>1, <1>4, <1>5, <1>7 DEF PacketsKept
<1>9. ~lowResCb
  BY <1>8 DEF PacketsKept
<1> QED BY <1>3, <1>4, <1>6, <1>9

\* Whatever the number of categories, and however the stack, PE, the TX
\* thread, the interrupt and the device interleave: when nothing is going on
\* no management frame waits and no frame waits to be reclaimed, and if data
\* is not suspended, frames of the stack wait only where WLANTL_STATxAuth
\* has lost ucPktPending for a category that has its bit set.
THEOREM StuckOnlyUnseenCorrect == Spec => []StuckOnlyUnseen
<1>1. TxIInv => StuckOnlyUnseen
  <2> SUFFICES ASSUME TxIInv, Quiescent
               PROVE  /\ ~mgmtPending
                      /\ \A c \in Channel : done[c] = 0
                      /\ \/ ucTxSuspended
                         \/ \A a \in AC : q[a] = 0 \/ (aucACMask[a] /\ ~ucPktPending)
    BY DEF StuckOnlyUnseen
  <2>1. tx = "idle" /\ mc = "idle" /\ \A a \in AC : xm[a] = "idle"
    BY DEF Quiescent
  <2>2. ~mgmtPending
    BY <2>1, AtRest DEF TxIInv, MgmtServed
  <2>3. ASSUME NEW a \in AC, q[a] # 0, ~ucTxSuspended PROVE aucACMask[a] /\ ~ucPktPending
    <3>1. q[a] > 0
      BY <2>3, Numbers DEF TxIInv
    <3>2. aucACMask[a]
      BY <2>1, <3>1, AtRest DEF TxIInv, QueueAnnounced
    <3>3. ~ucPktPending
      BY <2>1, <2>3, <3>2, AtRest DEF TxIInv, AnnouncedServed, Announced, Loop, Choosing
    <3> QED BY <3>2, <3>3
  <2> QED BY <2>2, <2>3, AtRest
<1> QED BY <1>1, TxIInvariant, PTL

=============================================================================
