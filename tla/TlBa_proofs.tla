---------------------------- MODULE TlBa_proofs ----------------------------
(***************************************************************************)
(* Proofs about TlBa, for any number of TIDs, buffers and frames and any   *)
(* size of the window: what the reordering does to a window, that the      *)
(* sessions, their buffers and their timers stay in step, and that TL      *)
(* keeps the promise of RxFrames.                                          *)
(***************************************************************************)
EXTENDS TlBa, FiniteSetTheorems, WellFoundedInduction, NaturalsInduction, TLAPS

(***************************************************************************)
(* Windows.                                                                *)
(***************************************************************************)
Window == [index : Slot, pending : Nat, slots : [Slot -> Frame \cup {NoFrame}]]

\* A window whose count is exact and in which no frame is twice.
IsWindow(w) ==
  /\ w \in Window
  /\ w.pending = Cardinality(Occupied(w.slots))
  /\ \A s, u \in Slot : w.slots[s] # NoFrame /\ w.slots[s] = w.slots[u] => s = u

FramesIn(w) == {w.slots[s] : s \in Occupied(w.slots)}

\* The indices that the reordering goes through.
Index == 0 .. 3 * WinSize

LEMMA SlotType ==
  ASSUME NEW i \in Nat
  PROVE  SlotOf(i) \in Slot
  BY SizeAssumption DEF SlotOf, Slot

LEMMA SlotIsOwn ==
  ASSUME NEW s \in Slot
  PROVE  SlotOf(s) = s /\ SlotOf(s + WinSize) = s
  BY SizeAssumption DEF SlotOf, Slot

\* To go through the whole window is to come to every slot.
LEMMA FullReachIsAll ==
  ASSUME NEW w \in Window
  PROVE  SlotsOf(FullReach(w)) = Slot
  <1>1. w.index \in Slot /\ WinSize \in Nat \ {0}
    BY SizeAssumption DEF Window
  <1>2. ASSUME NEW i \in FullReach(w) PROVE SlotOf(i) \in Slot
    <2>1. i \in Nat
      BY <1>1 DEF FullReach, Slot
    <2> QED BY <2>1, SlotType
  <1>3. ASSUME NEW s \in Slot PROVE \E i \in FullReach(w) : SlotOf(i) = s
    <2>1. CASE w.index <= s
      <3>1. s \in FullReach(w)
        BY <1>1, <2>1 DEF FullReach, Slot
      <3> QED BY <3>1, SlotIsOwn
    <2>2. CASE s < w.index
      <3>1. s + WinSize \in FullReach(w)
        BY <1>1, <2>2 DEF FullReach, Slot
      <3> QED BY <3>1, SlotIsOwn
    <2> QED BY <1>1, <2>1, <2>2 DEF Slot
  <1> QED BY <1>2, <1>3 DEF SlotsOf

LEMMA ReachType ==
  ASSUME NEW w \in Window, NEW fwd \in Slot
  PROVE  FullReach(w) \subseteq Index /\ Reach(w, fwd) \subseteq Index
  BY SizeAssumption DEF Window, FullReach, Reach, Index, Slot

\* The greatest of a set of indices is one of them.
LEMMA LastIsElement ==
  ASSUME NEW S \in SUBSET Index, S # {}
  PROVE  LastOf(S) \in S
  <1>1. WinSize \in Nat
    BY SizeAssumption
  <1> DEFINE Distance == {3 * WinSize - i : i \in S}
  <1>2. Distance \subseteq Nat /\ Distance # {}
    <2>1. \A i \in S : 3 * WinSize - i \in Nat
      BY <1>1 DEF Index
    <2> QED BY <2>1
  <1>3. PICK d \in Distance : \A e \in Distance : ~(<<e, d>> \in OpToRel(<, Nat))
    BY <1>2, WFMin, NatLessThanWellFounded
  <1>4. \A e \in Distance : d <= e
    <2>1. d \in Nat
      BY <1>2
    <2>2. ASSUME NEW e \in Distance PROVE d <= e
      <3>1. e \in Nat
        BY <1>2
      <3>2. ~(e < d)
        BY <1>3, <2>1, <3>1 DEF OpToRel
      <3> QED BY <2>1, <3>1, <3>2
    <2> QED BY <2>2
  <1>5. PICK i \in S : d = 3 * WinSize - i
    OBVIOUS
  <1>6. \A j \in S : j <= i
    BY <1>1, <1>4, <1>5 DEF Index
  <1> QED BY <1>6 DEF LastOf

LEMMA OccupiedFinite ==
  ASSUME NEW slots
  PROVE  IsFiniteSet(Occupied(slots)) /\ Cardinality(Occupied(slots)) \in Nat
  <1>1. IsFiniteSet(Slot)
    BY FS_Interval, SizeAssumption DEF Slot
  <1>2. Occupied(slots) \in SUBSET Slot
    BY DEF Occupied
  <1> QED BY <1>1, <1>2, FS_Subset, FS_CardinalityType

\* The frames taken out of a window and those left in it.
LEMMA UnchainedIsWindow ==
  ASSUME NEW w, IsWindow(w), NEW reach \in SUBSET Index
  PROVE  /\ IsWindow(Unchained(w, reach))
         /\ FramesIn(Unchained(w, reach)) = FramesIn(w) \ Chain(w, reach)
         /\ Chain(w, reach) \subseteq FramesIn(w)
  <1> DEFINE R == SlotsOf(reach)
             u == Unchained(w, reach)
             occ == Occupied(w.slots)
  <1>1. w \in Window
    BY DEF IsWindow
  <1>2. u.slots = [s \in Slot |-> IF s \in R THEN NoFrame ELSE w.slots[s]]
    BY DEF Unchained
  <1>3. Occupied(u.slots) = occ \ R
    BY <1>2 DEF Occupied
  <1>4. IsFiniteSet(occ) /\ Cardinality(occ) \in Nat
    BY OccupiedFinite
  <1>5. Cardinality(occ \ R) = Cardinality(occ) - Cardinality(occ \cap R)
    BY <1>4, FS_Difference
  <1>6. u.pending = Cardinality(Occupied(u.slots))
    BY <1>3, <1>5 DEF Unchained, IsWindow
  <1>7. u.pending \in Nat
    BY <1>6, OccupiedFinite
  <1>8. u.index \in Slot
    <2> DEFINE front == {i \in reach : w.slots[SlotOf(i)] # NoFrame}
    <2>1. CASE front = {}
      BY <1>1, <2>1 DEF Unchained, Window
    <2>2. CASE front # {}
      <3>0. front \in SUBSET Index
        OBVIOUS
      <3>1. LastOf(front) \in Nat
        <4> HIDE DEF front
        <4>1. LastOf(front) \in Index
          BY <2>2, <3>0, LastIsElement
        <4> QED BY <4>1, SizeAssumption DEF Index
      <3>2. SlotOf(LastOf(front) + 1) \in Slot
        BY <3>1, SlotType
      <3> QED BY <2>2, <3>2 DEF Unchained
    <2> QED BY <2>1, <2>2
  <1>9. u.slots \in [Slot -> Frame \cup {NoFrame}]
    BY <1>1, <1>2 DEF Window
  <1>10. u \in Window
    BY <1>7, <1>8, <1>9 DEF Window, Unchained
  <1>11. \A s, v \in Slot : u.slots[s] # NoFrame /\ u.slots[s] = u.slots[v] => s = v
    BY <1>2 DEF IsWindow
  <1>12. FramesIn(u) = FramesIn(w) \ Chain(w, reach)
    <2>1. ASSUME NEW s \in occ \ R PROVE w.slots[s] \notin Chain(w, reach)
      BY <2>1 DEF Chain, IsWindow, Occupied
    <2>2. FramesIn(u) = {w.slots[s] : s \in occ \ R}
      BY <1>2, <1>3 DEF FramesIn, Occupied
    <2>3. Chain(w, reach) = {w.slots[s] : s \in occ \cap R}
      BY DEF Chain
    <2> QED BY <2>1, <2>2, <2>3 DEF FramesIn
  <1>13. Chain(w, reach) \subseteq FramesIn(w)
    BY DEF Chain, FramesIn
  <1> QED BY <1>6, <1>10, <1>11, <1>12, <1>13 DEF IsWindow

LEMMA AtIsWindow ==
  ASSUME NEW w, IsWindow(w), NEW i \in Slot
  PROVE  IsWindow(At(w, i)) /\ FramesIn(At(w, i)) = FramesIn(w)
  BY DEF IsWindow, Window, At, FramesIn

\* A frame that is put into a free slot.
LEMMA QueuedIsWindow ==
  ASSUME NEW w, IsWindow(w), NEW slot \in Slot, w.slots[slot] = NoFrame,
         NEW frame \in Frame \ FramesIn(w)
  PROVE  /\ IsWindow(Queued(w, slot, frame))
         /\ FramesIn(Queued(w, slot, frame)) = FramesIn(w) \cup {frame}
  <1> DEFINE q == Queued(w, slot, frame)
             occ == Occupied(w.slots)
  <1>1. w \in Window /\ frame # NoFrame
    BY NameAssumption DEF IsWindow, Frame
  <1>2. q.slots = [w.slots EXCEPT ![slot] = frame]
    BY DEF Queued
  <1>3. q.slots \in [Slot -> Frame \cup {NoFrame}]
    BY <1>1, <1>2 DEF Window
  <1>4. \A s \in Slot : q.slots[s] = IF s = slot THEN frame ELSE w.slots[s]
    BY <1>1, <1>2 DEF Window
  <1>5. Occupied(q.slots) = occ \cup {slot} /\ slot \notin occ
    BY <1>1, <1>4 DEF Occupied
  <1>6. IsFiniteSet(occ) /\ Cardinality(occ) \in Nat
    BY OccupiedFinite
  <1>7. Cardinality(occ \cup {slot}) = Cardinality(occ) + 1
    BY <1>5, <1>6, FS_AddElement
  <1>8. q.pending = Cardinality(Occupied(q.slots))
    BY <1>5, <1>7 DEF Queued, IsWindow
  <1>9. q \in Window
    BY <1>1, <1>3, <1>6 DEF Window, Queued
  <1>10. \A s \in Slot : w.slots[s] # NoFrame => w.slots[s] # frame
    BY DEF FramesIn, Occupied
  <1>11. \A s, u \in Slot : q.slots[s] # NoFrame /\ q.slots[s] = q.slots[u] => s = u
    BY <1>1, <1>4, <1>10 DEF IsWindow
  <1>12. FramesIn(q) = FramesIn(w) \cup {frame}
    <2>1. FramesIn(q) = {q.slots[s] : s \in occ \cup {slot}}
      BY <1>5 DEF FramesIn
    <2>2. \A s \in occ : q.slots[s] = w.slots[s]
      BY <1>4, <1>5 DEF Occupied
    <2>3. q.slots[slot] = frame
      BY <1>4
    <2> HIDE DEF q, occ
    <2>4. FramesIn(w) = {w.slots[s] : s \in occ}
      BY DEF FramesIn, occ
    <2> QED BY <2>1, <2>2, <2>3, <2>4
  <1> QED BY <1>8, <1>9, <1>11, <1>12 DEF IsWindow

\* To go through the whole window empties it.
LEMMA FullChain ==
  ASSUME NEW w, IsWindow(w)
  PROVE  /\ IsWindow(Unchained(w, FullReach(w)))
         /\ Chain(w, FullReach(w)) = FramesIn(w)
         /\ FramesIn(Unchained(w, FullReach(w))) = {}
         /\ Unchained(w, FullReach(w)).slots = EmptySlots
         /\ Unchained(w, FullReach(w)).pending = 0
  <1> DEFINE u == Unchained(w, FullReach(w))
  <1>1. w \in Window
    BY DEF IsWindow
  <1>2. FullReach(w) \in SUBSET Index /\ SlotsOf(FullReach(w)) = Slot
    <2>1. 0 \in Slot
      BY SizeAssumption DEF Slot
    <2> QED BY <1>1, <2>1, ReachType, FullReachIsAll
  <1>3. IsWindow(u)
    BY <1>2, UnchainedIsWindow
  <1>4. Chain(w, FullReach(w)) = FramesIn(w)
    BY <1>2 DEF Chain, FramesIn, Occupied
  <1>5. FramesIn(u) = {}
    BY <1>2, <1>4, UnchainedIsWindow
  <1>6. u.slots = EmptySlots
    BY <1>2 DEF Unchained, EmptySlots
  <1>7. Occupied(u.slots) = {}
    BY <1>6 DEF Occupied, EmptySlots
  <1>8. u.pending = 0
    BY <1>3, <1>7, FS_EmptySet DEF IsWindow
  <1> QED BY <1>3, <1>4, <1>5, <1>6, <1>8

LEMMA MovedIsWindow ==
  ASSUME NEW w, IsWindow(w), NEW fwd \in Slot
  PROVE  /\ IsWindow(Moved(w, fwd))
         /\ FramesIn(Moved(w, fwd)) = FramesIn(w) \ Before(w, fwd)
         /\ Before(w, fwd) \subseteq FramesIn(w)
  <1>1. Reach(w, fwd) \in SUBSET Index
    BY ReachType DEF IsWindow
  <1> QED BY <1>1, UnchainedIsWindow, AtIsWindow DEF Moved, Before

\* What a frame may do to a window: the frames of the window and the new one
\* are divided among the window, the chain that goes up and what is dropped.
Divided(w, frame, o) ==
  /\ IsWindow(o.window)
  /\ FramesIn(o.window) \cup o.out \cup o.drop = FramesIn(w) \cup {frame}
  /\ FramesIn(o.window) \cap o.out = {}
  /\ o.drop \cap (FramesIn(o.window) \cup o.out) = {}

LEMMA CycledDivides ==
  ASSUME NEW w, IsWindow(w), NEW fwd \in Slot, NEW drop,
         NEW frame \in Frame \ FramesIn(w)
  PROVE  /\ IsWindow(Cycled(w, fwd, frame, drop).window)
         /\ FramesIn(Cycled(w, fwd, frame, drop).window) = {}
         /\ Cycled(w, fwd, frame, drop).out = FramesIn(w) \cup {frame}
         /\ Cycled(w, fwd, frame, drop).drop = drop
  <1> DEFINE u == Unchained(w, FullReach(w))
  <1>1. /\ IsWindow(u) /\ u.pending = 0 /\ FramesIn(u) = {}
        /\ Chain(w, FullReach(w)) = FramesIn(w)
    BY FullChain
  <1>2. [u EXCEPT !.pending = 0] = u
    BY <1>1 DEF IsWindow, Window
  <1>3. Cycled(w, fwd, frame, drop) = Outcome(u, FramesIn(w) \cup {frame}, drop)
    BY <1>1, <1>2 DEF Cycled
  <1> QED BY <1>1, <1>3 DEF Outcome

LEMMA FwdbufQueuecurDivides ==
  ASSUME NEW w, IsWindow(w), NEW slot \in Slot, NEW fwd \in Slot,
         NEW frame \in Frame \ FramesIn(w)
  PROVE  Divided(w, frame, FwdbufQueuecur(w, slot, fwd, frame))
  <1> DEFINE m == Moved(w, fwd)
             b == Before(w, fwd)
             o == FwdbufQueuecur(w, slot, fwd, frame)
  <1>1. IsWindow(m) /\ FramesIn(m) = FramesIn(w) \ b /\ b \subseteq FramesIn(w)
    BY MovedIsWindow
  <1>2. CASE m.slots[slot] # NoFrame
    <2>1. o = Cycled(m, fwd, frame, b)
      BY <1>2 DEF FwdbufQueuecur
    <2>2. IsWindow(o.window) /\ FramesIn(o.window) = {}
          /\ o.out = FramesIn(m) \cup {frame} /\ o.drop = b
      <3>1. frame \in Frame \ FramesIn(m)
        BY <1>1
      <3> HIDE DEF m, b, o
      <3> QED BY <1>1, <2>1, <3>1, CycledDivides
    <2> HIDE DEF m, b, o
    <2>3. FramesIn(o.window) \cup o.out \cup o.drop = FramesIn(w) \cup {frame}
      BY <1>1, <2>2
    <2>4. o.drop \cap (FramesIn(o.window) \cup o.out) = {}
      BY <1>1, <2>2
    <2>5. Divided(w, frame, o)
      BY <2>2, <2>3, <2>4 DEF Divided
    <2> QED BY <2>5 DEF o
  <1>3. CASE m.slots[slot] = NoFrame
    <2>1. o = Outcome(Queued(m, slot, frame), b, {})
      BY <1>3 DEF FwdbufQueuecur
    <2>2. IsWindow(Queued(m, slot, frame))
          /\ FramesIn(Queued(m, slot, frame)) = FramesIn(m) \cup {frame}
      BY <1>1, <1>3, QueuedIsWindow
    <2> QED BY <1>1, <2>1, <2>2 DEF Divided, Outcome
  <1> QED BY <1>2, <1>3

LEMMA QcurDivides ==
  ASSUME NEW w, IsWindow(w), NEW slot \in Slot, NEW fwd \in Slot,
         NEW frame \in Frame \ FramesIn(w)
  PROVE  /\ Divided(w, frame, Qcur(w, slot, fwd, frame))
         /\ Divided(w, frame, QcurFwdbuf(w, slot, fwd, frame))
  <1> DEFINE q == Queued(w, slot, frame)
             r == Reach(q, fwd)
  <1>1. CASE w.slots[slot] # NoFrame
    <2>1. Divided(w, frame, Cycled(w, fwd, frame, {}))
      <3> DEFINE o == Cycled(w, fwd, frame, {})
      <3>1. IsWindow(o.window) /\ FramesIn(o.window) = {}
            /\ o.out = FramesIn(w) \cup {frame} /\ o.drop = {}
        BY CycledDivides
      <3> HIDE DEF o
      <3>2. Divided(w, frame, o)
        BY <3>1 DEF Divided
      <3> QED BY <3>2 DEF o
    <2>2. Qcur(w, slot, fwd, frame) = Cycled(w, fwd, frame, {})
      BY <1>1 DEF Qcur
    <2>3. w.pending # 0
      <3>1. slot \in Occupied(w.slots)
        BY <1>1 DEF Occupied
      <3> QED BY <3>1, OccupiedFinite, FS_EmptySet DEF IsWindow
    <2>4. QcurFwdbuf(w, slot, fwd, frame) = Cycled(w, fwd, frame, {})
      BY <1>1, <2>3 DEF QcurFwdbuf
    <2> QED BY <2>1, <2>2, <2>4
  <1>2. CASE w.slots[slot] = NoFrame
    <2>1. IsWindow(q) /\ FramesIn(q) = FramesIn(w) \cup {frame}
      BY <1>2, QueuedIsWindow
    <2>2. Divided(w, frame, Qcur(w, slot, fwd, frame))
      BY <1>2, <2>1 DEF Qcur, Divided, Outcome
    <2>3. CASE w.pending = 0
      <3>1. SlotOf(slot + 1) \in Slot
        <4>1. slot + 1 \in Nat
          BY SizeAssumption DEF Slot
        <4> QED BY <4>1, SlotType
      <3>2. IsWindow(At(w, SlotOf(slot + 1)))
            /\ FramesIn(At(w, SlotOf(slot + 1))) = FramesIn(w)
        BY <3>1, AtIsWindow
      <3>3. QcurFwdbuf(w, slot, fwd, frame)
              = Outcome(At(w, SlotOf(slot + 1)), {frame}, {})
        BY <2>3 DEF QcurFwdbuf
      <3>4. Divided(w, frame, QcurFwdbuf(w, slot, fwd, frame))
        BY <3>2, <3>3 DEF Divided, Outcome
      <3> QED BY <2>2, <3>4
    <2>4. CASE w.pending # 0
      <3>1. r \in SUBSET Index
        BY <2>1, ReachType DEF IsWindow
      <3>2. /\ IsWindow(Unchained(q, r))
            /\ FramesIn(Unchained(q, r)) = FramesIn(q) \ Chain(q, r)
            /\ Chain(q, r) \subseteq FramesIn(q)
        BY <2>1, <3>1, UnchainedIsWindow
      <3>3. QcurFwdbuf(w, slot, fwd, frame)
              = Outcome(Unchained(q, r), Chain(q, r), {})
        BY <1>2, <2>4 DEF QcurFwdbuf
      <3>4. Divided(w, frame, QcurFwdbuf(w, slot, fwd, frame))
        BY <2>1, <3>2, <3>3 DEF Divided, Outcome
      <3> QED BY <2>2, <3>4
    <2> QED BY <2>3, <2>4
  <1> QED BY <1>1, <1>2

LEMMA FwdallDivides ==
  ASSUME NEW w, IsWindow(w), NEW slot \in Slot,
         NEW frame \in Frame \ FramesIn(w)
  PROVE  /\ Divided(w, frame, FwdallQcur(w, slot, frame))
         /\ Divided(w, frame,
              Outcome(At(Unchained(w, FullReach(w)), 0), Chain(w, FullReach(w)),
                      {frame}))
  <1> DEFINE u == Unchained(w, FullReach(w))
             q == Queued(u, slot, frame)
  <1>1. /\ IsWindow(u) /\ FramesIn(u) = {} /\ u.slots = EmptySlots
        /\ Chain(w, FullReach(w)) = FramesIn(w)
    BY FullChain
  <1>2. u.slots[slot] = NoFrame
    BY <1>1 DEF EmptySlots
  <1>3. IsWindow(q) /\ FramesIn(q) = {frame}
    BY <1>1, <1>2, QueuedIsWindow
  <1>4. IsWindow(At(q, slot)) /\ FramesIn(At(q, slot)) = {frame}
    BY <1>3, AtIsWindow
  <1>5. 0 \in Slot
    BY SizeAssumption DEF Slot
  <1>6. IsWindow(At(u, 0)) /\ FramesIn(At(u, 0)) = {}
    BY <1>1, <1>5, AtIsWindow
  <1>7. Divided(w, frame, FwdallQcur(w, slot, frame))
    BY <1>1, <1>4 DEF FwdallQcur, Divided, Outcome
  <1>8. Divided(w, frame, Outcome(At(u, 0), Chain(w, FullReach(w)), {frame}))
    BY <1>1, <1>6 DEF Divided, Outcome
  <1> QED BY <1>7, <1>8

\* Whatever the hardware tells it to do, the reordering loses no frame of the
\* window and keeps none twice.
LEMMA ReorderedDivides ==
  ASSUME NEW w, IsWindow(w), NEW op \in Opcode, NEW slot \in Slot,
         NEW fwd \in Slot, NEW frame \in Frame \ FramesIn(w)
  PROVE  Divided(w, frame, Reordered(w, op, slot, fwd, frame))
  <1>1. CASE op = "INVALID" \/ op = "DROPCUR"
    BY <1>1 DEF Reordered, Divided, Outcome
  <1>2. CASE op = "QCUR_FWDBUF" \/ op = "QCUR"
    BY <1>2, QcurDivides DEF Reordered
  <1>3. CASE op = "FWDBUF_QUEUECUR"
    BY <1>3, FwdbufQueuecurDivides DEF Reordered
  <1>4. CASE op = "FWDBUF_FWDCUR" \/ op = "FWDBUF_DROPCUR"
    <2> DEFINE m == Moved(w, fwd)
               b == Before(w, fwd)
    <2>1. IsWindow(m) /\ FramesIn(m) = FramesIn(w) \ b /\ b \subseteq FramesIn(w)
      BY MovedIsWindow
    <2> HIDE DEF m, b
    <2>2. /\ Divided(w, frame, Outcome(m, b \cup {frame}, {}))
          /\ Divided(w, frame, Outcome(m, b, {frame}))
      BY <2>1 DEF Divided, Outcome
    <2> QED BY <1>4, <2>2 DEF Reordered, m, b
  <1>5. CASE op = "FWDALL_QCUR" \/ op = "FWDALL_DROPCUR"
    BY <1>5, FwdallDivides DEF Reordered
  <1> QED BY <1>1, <1>2, <1>3, <1>4, <1>5 DEF Opcode

-----------------------------------------------------------------------------
(***************************************************************************)
(* The inductive invariant.  ReorderInv is not inductive: the aging hands  *)
(* up what the count says, so the count must be exact; a deletion gives a  *)
(* buffer back, so no session may have got it meanwhile; and a frame must  *)
(* be in one place for its session to let go of it.                        *)
(***************************************************************************)

\* A session that exists has its lock and its timer.
SessionReady ==
  \A t \in TID : ucExists[t] => lockInit[t] /\ agingTimer[t] # "unused"

\* The receive thread has a TID, and a frame, where it uses them.
RxPlace ==
  /\ rx \in {"reorder", "locked", "aging", "agingLocked"} => rxTid \in TID
  /\ rx \in {"reorder", "locked"} => rxFrame \in Frame

\* The session being deleted still has its buffer to itself.
DelPlace ==
  mc # "idle" =>
    /\ mcTid \in TID /\ ~ucExists[mcTid]
    /\ reorderBuffer[mcTid] \in Buffer /\ ~isAvailable[reorderBuffer[mcTid]]
    /\ \A t \in TID : ucExists[t] => reorderBuffer[t] # reorderBuffer[mcTid]

\* A frame is in one slot of one buffer.
OneSlot ==
  \A b, c \in Buffer, s, u \in Slot :
    arrayBuffer[b][s] # NoFrame /\ arrayBuffer[b][s] = arrayBuffer[c][u]
      => b = c /\ s = u

\* What the receive thread holds is in no buffer, and no frame is anywhere
\* before it has come in.
OnePlace ==
  /\ Buffered \cap InHand = {}
  /\ Buffered \cup InHand \cup delivered \cup returned \subseteq 1 .. arrived

SessionInv ==
  /\ TypeOK
  /\ PendingExact /\ NoFrameLeftBehind /\ OwnBuffer /\ OneSlot
  /\ AgingCovers /\ SessionReady
  /\ RxPlace /\ DelPlace /\ OnePlace

LEMMA BufferedIs ==
  ASSUME NEW f
  PROVE  f \in Buffered <=> \E b \in Buffer, s \in Slot :
                              arrayBuffer[b][s] # NoFrame /\ f = arrayBuffer[b][s]
  BY DEF Buffered, Occupied

\* A session that exists has a window, of frames that no other buffer holds.
LEMMA SessionWindow ==
  ASSUME SessionInv, NEW t \in TID, ucExists[t]
  PROVE  /\ reorderBuffer[t] \in Buffer
         /\ IsWindow(WindowOf(t))
         /\ FramesIn(WindowOf(t)) \subseteq Buffered
         /\ \A b \in Buffer \ {reorderBuffer[t]}, s \in Slot :
              arrayBuffer[b][s] # NoFrame
                => arrayBuffer[b][s] \in Buffered \ FramesIn(WindowOf(t))
  <1> DEFINE r == reorderBuffer[t]
             w == WindowOf(t)
  <1>1. r \in Buffer
    BY DEF SessionInv, OwnBuffer
  <1>2. w.slots = arrayBuffer[r]
    BY DEF WindowOf
  <1>3. arrayBuffer[r] \in [Slot -> Frame \cup {NoFrame}]
    BY <1>1 DEF SessionInv, TypeOK
  <1>4. w \in Window
    BY <1>3 DEF SessionInv, TypeOK, WindowOf, Window
  <1>5. w.pending = Cardinality(Occupied(w.slots))
    BY DEF SessionInv, PendingExact, WindowOf
  <1>6. \A s, u \in Slot : w.slots[s] # NoFrame /\ w.slots[s] = w.slots[u] => s = u
    BY <1>1, <1>2 DEF SessionInv, OneSlot
  <1>7. IsWindow(w)
    BY <1>4, <1>5, <1>6 DEF IsWindow
  <1>8. FramesIn(w) \subseteq Buffered
    BY <1>1, <1>2 DEF FramesIn, Buffered
  <1>9. ASSUME NEW b \in Buffer \ {r}, NEW s \in Slot, arrayBuffer[b][s] # NoFrame
        PROVE  arrayBuffer[b][s] \in Buffered \ FramesIn(w)
    <2>1. arrayBuffer[b][s] \in Buffered
      BY <1>9, BufferedIs
    <2>2. \A u \in Slot : arrayBuffer[b][s] # arrayBuffer[r][u]
      BY <1>1, <1>9 DEF SessionInv, OneSlot
    <2> QED BY <1>2, <2>1, <2>2 DEF FramesIn, Occupied
  <1> QED BY <1>1, <1>7, <1>8, <1>9

\* A new window for a session, none of whose frames another buffer holds.
LEMMA SetWindowStep ==
  ASSUME SessionInv, NEW t \in TID, ucExists[t],
         NEW w, IsWindow(w), SetWindow(t, w),
         FramesIn(w) \cap (Buffered \ FramesIn(WindowOf(t))) = {}
  PROVE  /\ ucCIndex' \in [TID -> Slot]
         /\ pendingFramesCount' \in [TID -> Nat]
         /\ arrayBuffer' \in [Buffer -> [Slot -> Frame \cup {NoFrame}]]
         /\ pendingFramesCount'[t] = w.pending
         /\ \A u \in TID \ {t} : pendingFramesCount'[u] = pendingFramesCount[u]
         /\ arrayBuffer'[reorderBuffer[t]] = w.slots
         /\ \A b \in Buffer \ {reorderBuffer[t]} : arrayBuffer'[b] = arrayBuffer[b]
         /\ OneSlot'
         /\ Buffered' = (Buffered \ FramesIn(WindowOf(t))) \cup FramesIn(w)
  <1> DEFINE r == reorderBuffer[t]
             old == WindowOf(t)
  <1>1. /\ r \in Buffer /\ IsWindow(old)
        /\ \A b \in Buffer \ {r}, s \in Slot :
             arrayBuffer[b][s] # NoFrame
               => arrayBuffer[b][s] \in Buffered \ FramesIn(old)
    BY SessionWindow
  <1>2. w \in Window
    BY DEF IsWindow
  <1>3. /\ ucCIndex' \in [TID -> Slot] /\ pendingFramesCount' \in [TID -> Nat]
        /\ pendingFramesCount'[t] = w.pending
        /\ \A u \in TID \ {t} : pendingFramesCount'[u] = pendingFramesCount[u]
    BY <1>2 DEF SetWindow, SessionInv, TypeOK, Window
  <1>4. /\ arrayBuffer' \in [Buffer -> [Slot -> Frame \cup {NoFrame}]]
        /\ arrayBuffer'[r] = w.slots
        /\ \A b \in Buffer \ {r} : arrayBuffer'[b] = arrayBuffer[b]
    BY <1>1, <1>2 DEF SetWindow, SessionInv, TypeOK, Window
  <1>5. \A s \in Slot : w.slots[s] # NoFrame => w.slots[s] \in FramesIn(w)
    BY DEF FramesIn, Occupied
  <1>6. OneSlot'
    <2> SUFFICES ASSUME NEW b \in Buffer, NEW c \in Buffer,
                        NEW s \in Slot, NEW u \in Slot,
                        arrayBuffer'[b][s] # NoFrame,
                        arrayBuffer'[b][s] = arrayBuffer'[c][u]
                 PROVE  b = c /\ s = u
      BY DEF OneSlot
    <2>1. CASE b = r /\ c = r
      BY <1>4, <2>1 DEF IsWindow
    <2>2. CASE b # r /\ c # r
      BY <1>4, <2>2 DEF SessionInv, OneSlot
    <2>3. CASE b = r /\ c # r
      BY <1>1, <1>4, <1>5, <2>3
    <2>4. CASE b # r /\ c = r
      BY <1>1, <1>4, <1>5, <2>4
    <2> QED BY <2>1, <2>2, <2>3, <2>4
  <1>7. ASSUME NEW f PROVE f \in Buffered' <=> f \in (Buffered \ FramesIn(old)) \cup FramesIn(w)
    <2>1. f \in Buffered' <=> \E b \in Buffer, s \in Slot :
                                arrayBuffer'[b][s] # NoFrame /\ f = arrayBuffer'[b][s]
      BY DEF Buffered, Occupied
    <2>2. f \in FramesIn(w) <=> \E s \in Slot : w.slots[s] # NoFrame /\ f = w.slots[s]
      BY DEF FramesIn, Occupied
    <2>3. old.slots = arrayBuffer[r]
      BY DEF WindowOf
    <2>4. f \in FramesIn(old)
            <=> \E s \in Slot : arrayBuffer[r][s] # NoFrame /\ f = arrayBuffer[r][s]
      BY <2>3 DEF FramesIn, Occupied
    <2>5. f \in Buffered <=> \E b \in Buffer, s \in Slot :
                              arrayBuffer[b][s] # NoFrame /\ f = arrayBuffer[b][s]
      BY BufferedIs
    <2>6. CASE f \in FramesIn(w)
      BY <1>1, <1>4, <2>1, <2>2, <2>6
    <2>7. CASE f \notin FramesIn(w)
      <3>1. ASSUME f \in Buffered' PROVE f \in Buffered \ FramesIn(old)
        BY <1>1, <1>4, <2>1, <2>2, <2>7, <3>1
      <3>2. ASSUME f \in Buffered \ FramesIn(old) PROVE f \in Buffered'
        BY <1>1, <1>4, <2>1, <2>4, <2>5, <3>2
      <3> QED BY <2>7, <3>1, <3>2
    <2> QED BY <2>6, <2>7
  <1> QED BY <1>3, <1>4, <1>6, <1>7

\* The frame that the reordering is given, and what it makes of it.
LEMMA ReorderOutcome ==
  ASSUME SessionInv, NEW op \in Opcode, NEW slot \in Slot, NEW fwd \in Slot,
         rx = "locked", ucExists[rxTid]
  PROVE  /\ rxTid \in TID /\ rxFrame \in Frame
         /\ rxFrame \notin Buffered /\ InHand = {rxFrame}
         /\ Divided(WindowOf(rxTid), rxFrame,
                    Reordered(WindowOf(rxTid), op, slot, fwd, rxFrame))
  <1>1. rxTid \in TID /\ rxFrame \in Frame
    BY DEF SessionInv, RxPlace
  <1>2. InHand = {rxFrame}
    BY DEF InHand
  <1>3. rxFrame \notin Buffered
    BY <1>2 DEF SessionInv, OnePlace
  <1>4. IsWindow(WindowOf(rxTid)) /\ FramesIn(WindowOf(rxTid)) \subseteq Buffered
    BY <1>1, SessionWindow
  <1> QED BY <1>1, <1>2, <1>3, <1>4, ReorderedDivides

LEMMA ReorderStep ==
  ASSUME SessionInv, NEW op \in Opcode, NEW slot \in Slot, NEW fwd \in Slot,
         RxReorder(op, slot, fwd)
  PROVE  /\ SessionInv'
         /\ \E drop \in SUBSET Held : /\ Held' = Held \ drop
                                     /\ returned' = returned \cup drop
  <1> DEFINE t == rxTid
             w == WindowOf(t)
             o == Reordered(w, op, slot, fwd, rxFrame)
             r == reorderBuffer[t]
  <1>1. /\ rx = "locked" /\ ucExists[t] /\ SetWindow(t, o.window)
        /\ rxOut' = o.out /\ returned' = returned \cup o.drop
        /\ agingTimer' = [agingTimer EXCEPT ![t] =
              IF PassThrough(w, op) THEN @
              ELSE TimerAfter(@, o.window.index # w.index, o.window.pending)]
        /\ rx' = "deliver"
        /\ UNCHANGED <<sessionVars, timerMsg, rxTid, rxFrame, mcVars, arrived,
                       delivered>>
    BY DEF RxReorder
  <1>2. /\ t \in TID /\ rxFrame \in Frame /\ rxFrame \notin Buffered
        /\ InHand = {rxFrame} /\ Divided(w, rxFrame, o)
    BY <1>1, ReorderOutcome
  <1>3. r \in Buffer /\ IsWindow(w) /\ FramesIn(w) \subseteq Buffered
    BY <1>1, <1>2, SessionWindow
  <1>4. /\ IsWindow(o.window)
        /\ FramesIn(o.window) \cup o.out \cup o.drop = FramesIn(w) \cup {rxFrame}
        /\ FramesIn(o.window) \cap o.out = {}
        /\ o.drop \cap (FramesIn(o.window) \cup o.out) = {}
    BY <1>2 DEF Divided
  <1>5. FramesIn(o.window) \cap (Buffered \ FramesIn(w)) = {}
    BY <1>2, <1>4
  <1> DEFINE n == o.window
  <1> HIDE DEF o, w
  <1>6. /\ ucCIndex' \in [TID -> Slot]
        /\ pendingFramesCount' \in [TID -> Nat]
        /\ arrayBuffer' \in [Buffer -> [Slot -> Frame \cup {NoFrame}]]
        /\ pendingFramesCount'[t] = n.pending
        /\ \A u \in TID \ {t} : pendingFramesCount'[u] = pendingFramesCount[u]
        /\ arrayBuffer'[r] = n.slots
        /\ \A b \in Buffer \ {r} : arrayBuffer'[b] = arrayBuffer[b]
        /\ OneSlot'
        /\ Buffered' = (Buffered \ FramesIn(w)) \cup FramesIn(n)
    BY <1>1, <1>2, <1>4, <1>5, SetWindowStep DEF w
  <1>7. InHand' = o.out
    BY <1>1 DEF InHand
  <1>8. Buffered' \cup InHand' \cup o.drop = Buffered \cup InHand
        /\ Buffered' \cap InHand' = {}
        /\ o.drop \cap (Buffered' \cup InHand') = {}
    BY <1>2, <1>3, <1>4, <1>6, <1>7
  <1>9. Buffered \cup InHand \cup delivered \cup returned \subseteq 1 .. arrived
    BY DEF SessionInv, OnePlace
  <1>10. OnePlace'
    BY <1>1, <1>8, <1>9 DEF OnePlace
  <1>11. Held' = Held \ o.drop /\ o.drop \subseteq Held
    BY <1>8 DEF Held
  <1>12. 1 .. arrived \subseteq Frame
    BY SizeAssumption DEF SessionInv, TypeOK, Frame
  <1>13. agingTimer' \in [TID -> {"unused", "stopped", "running"}]
         /\ \A u \in TID \ {t} : agingTimer'[u] = agingTimer[u]
    BY <1>1, <1>2 DEF SessionInv, TypeOK, TimerAfter
  <1>14. rxOut' \subseteq Frame /\ returned' \subseteq Frame
    BY <1>1, <1>7, <1>8, <1>9, <1>12
  <1>15. TypeOK'
    BY <1>1, <1>6, <1>13, <1>14 DEF SessionInv, TypeOK, sessionVars, mcVars
  <1>16. OwnBuffer' /\ DelPlace'
    BY <1>1 DEF SessionInv, OwnBuffer, DelPlace, sessionVars, mcVars
  <1>17. \A u \in TID \ {t} : ucExists[u] => reorderBuffer[u] \in Buffer \ {r}
    BY <1>1, <1>2 DEF SessionInv, OwnBuffer
  <1>18. PendingExact'
    <2> SUFFICES ASSUME NEW u \in TID, ucExists[u]
                 PROVE  pendingFramesCount'[u]
                          = Cardinality(Occupied(arrayBuffer'[reorderBuffer[u]]))
      BY <1>1 DEF PendingExact, sessionVars, Occupied
    <2>1. CASE u = t
      BY <1>4, <1>6, <2>1 DEF IsWindow
    <2>2. CASE u # t
      BY <1>6, <1>17, <2>2 DEF SessionInv, PendingExact
    <2> QED BY <2>1, <2>2
  <1>19. NoFrameLeftBehind'
    <2> SUFFICES ASSUME NEW b \in Buffer,
                        \A u \in TID : ucExists[u] => reorderBuffer[u] # b
                 PROVE  Occupied(arrayBuffer'[b]) = {}
      BY <1>1 DEF NoFrameLeftBehind, sessionVars, Occupied
    <2>1. b # r
      BY <1>1, <1>2
    <2> QED BY <1>6, <2>1 DEF SessionInv, NoFrameLeftBehind
  <1>20. SessionReady'
    BY <1>1, <1>2, <1>13 DEF SessionInv, TypeOK, SessionReady, sessionVars, TimerAfter
  <1>21. PassThrough(w, op) => n.pending = 0
    <2> SUFFICES ASSUME PassThrough(w, op) PROVE n.pending = 0
      OBVIOUS
    <2>1. op = "QCUR_FWDBUF" /\ w.pending = 0
      BY DEF PassThrough
    <2>2. o.window = At(w, SlotOf(slot + 1))
      BY <2>1 DEF o, Reordered, QcurFwdbuf, Outcome
    <2> QED BY <2>1, <2>2 DEF At
  <1>22. AgingCovers'
    <2> SUFFICES ASSUME NEW u \in TID, ucExists[u], pendingFramesCount'[u] > 0
                 PROVE  agingTimer'[u] = "running" \/ timerMsg[u] > 0
      BY <1>1 DEF AgingCovers, sessionVars
    <2>1. CASE u = t
      <3>1. n.pending > 0 /\ ~PassThrough(w, op)
        BY <1>6, <1>21, <2>1
      <3>2. agingTimer[t] \in {"stopped", "running"}
        BY <1>1, <1>2 DEF SessionInv, SessionReady, TypeOK
      <3> QED BY <1>1, <1>2, <2>1, <3>1, <3>2 DEF TimerAfter, SessionInv, TypeOK
    <2>2. CASE u # t
      <3>1. pendingFramesCount[u] > 0 /\ agingTimer'[u] = agingTimer[u]
        BY <1>6, <1>13, <2>2
      <3> QED BY <1>1, <3>1 DEF SessionInv, AgingCovers
    <2> QED BY <2>1, <2>2
  <1>23. RxPlace'
    BY <1>1 DEF RxPlace
  <1>24. SessionInv'
    BY <1>6, <1>10, <1>15, <1>16, <1>18, <1>19, <1>20, <1>22, <1>23 DEF SessionInv
  <1> QED BY <1>1, <1>11, <1>24

\* The buffers of the sessions when one of them hands up all it has.
LEMMA HandUpBuffers ==
  ASSUME SessionInv, NEW t \in TID, ucExists[t], HandUp(t)
  PROVE  \E frames \in SUBSET Buffered :
           /\ ucCIndex' \in [TID -> Slot]
           /\ pendingFramesCount' \in [TID -> Nat]
           /\ arrayBuffer' \in [Buffer -> [Slot -> Frame \cup {NoFrame}]]
           /\ pendingFramesCount'[t] = 0
           /\ \A u \in TID \ {t} : pendingFramesCount'[u] = pendingFramesCount[u]
           /\ Occupied(arrayBuffer'[reorderBuffer[t]]) = {}
           /\ \A b \in Buffer \ {reorderBuffer[t]} : arrayBuffer'[b] = arrayBuffer[b]
           /\ OneSlot'
           /\ Buffered' = Buffered \ frames
           /\ delivered' = delivered \cup frames
  <1> DEFINE w == WindowOf(t)
             n == Unchained(w, FullReach(w))
  <1>1. IsWindow(w) /\ FramesIn(w) \subseteq Buffered
    BY SessionWindow
  <1>2. /\ IsWindow(n) /\ Chain(w, FullReach(w)) = FramesIn(w)
        /\ FramesIn(n) = {} /\ n.slots = EmptySlots /\ n.pending = 0
    BY <1>1, FullChain
  <1>3. SetWindow(t, n) /\ delivered' = delivered \cup FramesIn(w)
    BY <1>2 DEF HandUp
  <1>4. Occupied(EmptySlots) = {}
    BY DEF Occupied, EmptySlots
  <1> HIDE DEF n
  <1>5. /\ ucCIndex' \in [TID -> Slot]
        /\ pendingFramesCount' \in [TID -> Nat]
        /\ arrayBuffer' \in [Buffer -> [Slot -> Frame \cup {NoFrame}]]
        /\ pendingFramesCount'[t] = n.pending
        /\ \A u \in TID \ {t} : pendingFramesCount'[u] = pendingFramesCount[u]
        /\ arrayBuffer'[reorderBuffer[t]] = n.slots
        /\ \A b \in Buffer \ {reorderBuffer[t]} : arrayBuffer'[b] = arrayBuffer[b]
        /\ OneSlot'
        /\ Buffered' = (Buffered \ FramesIn(w)) \cup FramesIn(n)
    BY <1>2, <1>3, SetWindowStep
  <1>6. FramesIn(w) \in SUBSET Buffered
        /\ Buffered' = Buffered \ FramesIn(w)
    BY <1>1, <1>2, <1>5
  <1> HIDE DEF w
  <1> QED BY <1>2, <1>3, <1>4, <1>5, <1>6

\* The count of a session says what its buffer holds.
LEMMA CountIsZero ==
  ASSUME SessionInv, NEW t \in TID, ucExists[t], pendingFramesCount[t] = 0
  PROVE  Occupied(arrayBuffer[reorderBuffer[t]]) = {}
  BY OccupiedFinite, FS_EmptySet DEF SessionInv, PendingExact

LEMMA FramesComeIn ==
  ASSUME SessionInv
  PROVE  1 .. arrived \subseteq Frame /\ Buffered \subseteq Frame
  <1>1. 1 .. arrived \subseteq Frame
    BY SizeAssumption DEF SessionInv, TypeOK, Frame
  <1> QED BY <1>1 DEF SessionInv, OnePlace

LEMMA AgingRunStep ==
  ASSUME SessionInv, AgingRun
  PROVE  /\ SessionInv'
         /\ \E frames \in SUBSET Held : /\ Held' = Held \ frames
                                       /\ delivered' = delivered \cup frames
         /\ UNCHANGED returned
  <1> DEFINE t == rxTid
  <1>1. /\ rx = "agingLocked" /\ rx' = "idle" /\ rxTid' = NoTid
        /\ UNCHANGED <<sessionVars, agingTimer, timerMsg, rxFrame, rxOut, mcVars,
                       arrived, returned>>
    BY DEF AgingRun
  <1>2. t \in TID /\ InHand = {} /\ InHand' = {}
    BY <1>1 DEF SessionInv, RxPlace, InHand
  <1>3. /\ SessionReady' /\ RxPlace' /\ DelPlace' /\ OwnBuffer'
    BY <1>1 DEF SessionInv, SessionReady, RxPlace, DelPlace, OwnBuffer, sessionVars,
                mcVars
  <1>4. CASE ucExists[t] /\ pendingFramesCount[t] # 0
    <2>1. PICK frames \in SUBSET Buffered :
           /\ ucCIndex' \in [TID -> Slot]
           /\ pendingFramesCount' \in [TID -> Nat]
           /\ arrayBuffer' \in [Buffer -> [Slot -> Frame \cup {NoFrame}]]
           /\ pendingFramesCount'[t] = 0
           /\ \A u \in TID \ {t} : pendingFramesCount'[u] = pendingFramesCount[u]
           /\ Occupied(arrayBuffer'[reorderBuffer[t]]) = {}
           /\ \A b \in Buffer \ {reorderBuffer[t]} : arrayBuffer'[b] = arrayBuffer[b]
           /\ OneSlot'
           /\ Buffered' = Buffered \ frames
           /\ delivered' = delivered \cup frames
      BY <1>2, <1>4, HandUpBuffers DEF AgingRun
    <2>2. OnePlace'
      BY <1>1, <1>2, <2>1 DEF SessionInv, OnePlace
    <2>3. TypeOK'
      <3>1. delivered' \subseteq Frame
        BY <2>1, FramesComeIn DEF SessionInv, TypeOK
      <3> QED BY <1>1, <2>1, <3>1 DEF SessionInv, TypeOK, sessionVars, mcVars
    <2>4. \A u \in TID \ {t} : ucExists[u] =>
            reorderBuffer[u] \in Buffer \ {reorderBuffer[t]}
      BY <1>2, <1>4 DEF SessionInv, OwnBuffer
    <2>5. PendingExact'
      <3> SUFFICES ASSUME NEW u \in TID, ucExists[u]
                   PROVE  pendingFramesCount'[u]
                            = Cardinality(Occupied(arrayBuffer'[reorderBuffer[u]]))
        BY <1>1 DEF PendingExact, sessionVars, Occupied
      <3>1. CASE u = t
        BY <2>1, <3>1, FS_EmptySet
      <3>2. CASE u # t
        BY <2>1, <2>4, <3>2 DEF SessionInv, PendingExact
      <3> QED BY <3>1, <3>2
    <2>6. NoFrameLeftBehind'
      <3> SUFFICES ASSUME NEW b \in Buffer,
                          \A u \in TID : ucExists[u] => reorderBuffer[u] # b
                   PROVE  Occupied(arrayBuffer'[b]) = {}
        BY <1>1 DEF NoFrameLeftBehind, sessionVars, Occupied
      <3>1. b # reorderBuffer[t]
        BY <1>2, <1>4
      <3> QED BY <2>1, <3>1 DEF SessionInv, NoFrameLeftBehind
    <2>7. AgingCovers'
      BY <1>1, <1>2, <2>1 DEF SessionInv, AgingCovers, sessionVars
    <2>8. SessionInv'
      BY <1>3, <2>1, <2>2, <2>3, <2>5, <2>6, <2>7 DEF SessionInv
    <2>9. frames \in SUBSET Held /\ Held' = Held \ frames
      BY <1>2, <2>1 DEF Held
    <2> QED BY <1>1, <2>1, <2>8, <2>9
  <1>5. CASE ~(ucExists[t] /\ pendingFramesCount[t] # 0)
    <2>1. UNCHANGED <<reorderVars, delivered>>
      BY <1>5 DEF AgingRun
    <2>2. Buffered' = Buffered
      BY <2>1 DEF Buffered, Occupied, reorderVars
    <2>3. OnePlace'
      BY <1>1, <1>2, <2>1, <2>2 DEF SessionInv, OnePlace
    <2>4. TypeOK'
      BY <1>1, <2>1 DEF SessionInv, TypeOK, sessionVars, mcVars, reorderVars
    <2>5. PendingExact' /\ NoFrameLeftBehind' /\ OneSlot'
      BY <1>1, <2>1 DEF SessionInv, PendingExact, NoFrameLeftBehind, OneSlot, sessionVars,
                        reorderVars, Occupied
    <2>6. AgingCovers'
      BY <1>1, <1>2, <1>5, <2>1 DEF SessionInv, TypeOK, AgingCovers, sessionVars, reorderVars
    <2>7. SessionInv'
      BY <1>3, <2>3, <2>4, <2>5, <2>6 DEF SessionInv
    <2>8. {} \in SUBSET Held /\ Held' = Held \ {} /\ delivered' = delivered \cup {}
      BY <1>2, <2>1, <2>2 DEF Held
    <2> QED BY <1>1, <2>7, <2>8
  <1> QED BY <1>4, <1>5

LEMMA DelInvalidateStep ==
  ASSUME SessionInv, NEW t \in TID, DelInvalidate(t)
  PROVE  /\ SessionInv'
         /\ \E frames \in SUBSET Held : /\ Held' = Held \ frames
                                       /\ delivered' = delivered \cup frames
         /\ UNCHANGED returned
  <1>1. /\ mc = "idle" /\ ucExists[t] /\ mc' = "readTimer" /\ mcTid' = t
        /\ ucExists' = [ucExists EXCEPT ![t] = FALSE]
        /\ UNCHANGED <<setup, reorderBuffer, lockInit, isAvailable, agingTimer,
                       timerMsg, rxVars, arrived, returned>>
    BY DEF DelInvalidate
  <1>2. \A u \in TID : ucExists'[u] <=> (u # t /\ ucExists[u])
    BY <1>1 DEF SessionInv, TypeOK
  <1>3. ucExists' \in [TID -> BOOLEAN]
    BY <1>1 DEF SessionInv, TypeOK
  <1>4. InHand' = InHand
    BY <1>1 DEF InHand, rxVars
  <1>5. SessionReady' /\ RxPlace' /\ DelPlace' /\ OwnBuffer'
    BY <1>1, <1>2 DEF SessionInv, SessionReady, RxPlace, DelPlace, OwnBuffer, rxVars
  <1>6. \A u \in TID \ {t} : ucExists[u] =>
          reorderBuffer[u] \in Buffer \ {reorderBuffer[t]}
    BY <1>1 DEF SessionInv, OwnBuffer
  <1>7. PICK frames \in SUBSET Buffered :
          /\ ucCIndex' \in [TID -> Slot]
          /\ pendingFramesCount' \in [TID -> Nat]
          /\ arrayBuffer' \in [Buffer -> [Slot -> Frame \cup {NoFrame}]]
          /\ \A u \in TID \ {t} : pendingFramesCount'[u] = pendingFramesCount[u]
          /\ Occupied(arrayBuffer'[reorderBuffer[t]]) = {}
          /\ \A b \in Buffer \ {reorderBuffer[t]} : arrayBuffer'[b] = arrayBuffer[b]
          /\ OneSlot'
          /\ Buffered' = Buffered \ frames
          /\ delivered' = delivered \cup frames
    <2>1. CASE pendingFramesCount[t] # 0
      BY <1>1, <2>1, HandUpBuffers DEF DelInvalidate
    <2>2. CASE pendingFramesCount[t] = 0
      <3>1. UNCHANGED <<reorderVars, delivered>>
        BY <2>2 DEF DelInvalidate
      <3>2. Buffered' = Buffered /\ OneSlot'
        BY <3>1 DEF Buffered, Occupied, reorderVars, SessionInv, OneSlot
      <3>3. Occupied(arrayBuffer'[reorderBuffer[t]]) = {}
        BY <1>1, <2>2, <3>1, CountIsZero DEF reorderVars
      <3>4. Buffered' = Buffered \ {} /\ delivered' = delivered \cup {}
        BY <3>1, <3>2
      <3>5. /\ ucCIndex' \in [TID -> Slot]
            /\ pendingFramesCount' \in [TID -> Nat]
            /\ arrayBuffer' \in [Buffer -> [Slot -> Frame \cup {NoFrame}]]
        BY <3>1 DEF SessionInv, TypeOK, reorderVars
      <3>6. {} \in SUBSET Buffered
        OBVIOUS
      <3> QED BY <3>1, <3>2, <3>3, <3>4, <3>5, <3>6 DEF reorderVars
    <2> QED BY <2>1, <2>2
  <1>8. frames \cap InHand = {}
    BY <1>7 DEF SessionInv, OnePlace
  <1>9. Held' = Held \ frames /\ frames \in SUBSET Held
    BY <1>4, <1>7, <1>8 DEF Held
  <1>10. OnePlace'
    BY <1>1, <1>4, <1>7 DEF SessionInv, OnePlace
  <1>11. delivered' \subseteq Frame
    BY <1>7, FramesComeIn DEF SessionInv, TypeOK
  <1>12. TypeOK'
    BY <1>1, <1>3, <1>7, <1>11 DEF SessionInv, TypeOK, rxVars
  <1>13. PendingExact'
    <2> SUFFICES ASSUME NEW u \in TID, u # t, ucExists[u]
                 PROVE  pendingFramesCount'[u]
                          = Cardinality(Occupied(arrayBuffer'[reorderBuffer[u]]))
      BY <1>1, <1>2 DEF PendingExact, Occupied
    <2> QED BY <1>6, <1>7 DEF SessionInv, PendingExact
  <1>14. NoFrameLeftBehind'
    <2> SUFFICES ASSUME NEW b \in Buffer,
                        \A u \in TID \ {t} : ucExists[u] => reorderBuffer[u] # b
                 PROVE  Occupied(arrayBuffer'[b]) = {}
      BY <1>1, <1>2 DEF NoFrameLeftBehind, Occupied
    <2>1. CASE b = reorderBuffer[t]
      BY <1>7, <2>1
    <2>2. CASE b # reorderBuffer[t]
      <3>1. \A u \in TID : ucExists[u] => reorderBuffer[u] # b
        BY <2>2
      <3> QED BY <1>7, <2>2, <3>1 DEF SessionInv, NoFrameLeftBehind
    <2> QED BY <2>1, <2>2
  <1>15. AgingCovers'
    BY <1>1, <1>2, <1>7 DEF SessionInv, AgingCovers, rxVars
  <1>16. SessionInv'
    BY <1>5, <1>7, <1>10, <1>12, <1>13, <1>14, <1>15 DEF SessionInv
  <1> QED BY <1>1, <1>7, <1>9, <1>16

\* A buffer of the pool is in no session, and empty.
LEMMA AvailableIsEmpty ==
  ASSUME SessionInv, NEW b \in Buffer, isAvailable[b]
  PROVE  /\ \A u \in TID : ucExists[u] => reorderBuffer[u] # b
         /\ Occupied(arrayBuffer[b]) = {}
  BY DEF SessionInv, OwnBuffer, NoFrameLeftBehind

LEMMA BaSessionAddStep ==
  ASSUME SessionInv, NEW t \in TID, NEW b \in Buffer, BaSessionAdd(t, b)
  PROVE  /\ SessionInv'
         /\ UNCHANGED <<Held, delivered, returned>>
  <1>1. /\ mc = "idle" /\ ~ucExists[t] /\ isAvailable[b]
        /\ isAvailable' = [isAvailable EXCEPT ![b] = FALSE]
        /\ reorderBuffer' = [reorderBuffer EXCEPT ![t] = b]
        /\ agingTimer' = [agingTimer EXCEPT ![t] = "stopped"]
        /\ UNCHANGED <<setup, arrayBuffer, timerMsg, rxVars, mcVars, frameVars>>
    BY DEF BaSessionAdd
  <1>2. CASE lockInit[t]
    <2>1. UNCHANGED <<ucExists, lockInit, ucCIndex, pendingFramesCount>>
      BY <1>2 DEF BaSessionAdd
    <2>2. \A u \in TID : ucExists[u] =>
            reorderBuffer'[u] = reorderBuffer[u] /\ agingTimer'[u] = agingTimer[u]
      BY <1>1 DEF SessionInv, TypeOK
    <2>3. \A c \in Buffer : ~isAvailable[c] => ~isAvailable'[c]
      BY <1>1 DEF SessionInv, TypeOK
    <2>4. TypeOK'
      BY <1>1, <2>1 DEF SessionInv, TypeOK, rxVars, mcVars, frameVars
    <2>5. OwnBuffer' /\ SessionReady' /\ OneSlot' /\ RxPlace' /\ DelPlace'
      BY <1>1, <2>1, <2>2, <2>3 DEF SessionInv, OwnBuffer, SessionReady, OneSlot, RxPlace,
                                    DelPlace, rxVars, mcVars
    <2>6. PendingExact' /\ NoFrameLeftBehind'
      BY <1>1, <2>1, <2>2 DEF SessionInv, PendingExact, NoFrameLeftBehind, Occupied
    <2>7. AgingCovers'
      BY <1>1, <2>1, <2>2 DEF SessionInv, AgingCovers, rxVars
    <2>8. Buffered' = Buffered /\ InHand' = InHand
      BY <1>1 DEF Buffered, Occupied, InHand, rxVars
    <2>9. OnePlace'
      BY <1>1, <2>8 DEF SessionInv, OnePlace, frameVars
    <2> QED
      BY <1>1, <2>4, <2>5, <2>6, <2>7, <2>8, <2>9 DEF SessionInv, Held, frameVars
  <1>3. CASE ~lockInit[t]
    <2>1. /\ lockInit' = [lockInit EXCEPT ![t] = TRUE]
          /\ ucExists' = [ucExists EXCEPT ![t] = TRUE]
          /\ ucCIndex' = [ucCIndex EXCEPT ![t] = 0]
          /\ pendingFramesCount' = [pendingFramesCount EXCEPT ![t] = 0]
      BY <1>3 DEF BaSessionAdd
    <2>2. /\ \A u \in TID \ {t} :
               /\ ucExists'[u] = ucExists[u] /\ lockInit'[u] = lockInit[u]
               /\ reorderBuffer'[u] = reorderBuffer[u]
               /\ agingTimer'[u] = agingTimer[u]
               /\ pendingFramesCount'[u] = pendingFramesCount[u]
          /\ ucExists'[t] /\ lockInit'[t] /\ reorderBuffer'[t] = b
          /\ agingTimer'[t] = "stopped" /\ pendingFramesCount'[t] = 0
      BY <1>1, <2>1 DEF SessionInv, TypeOK
    <2>3. \A c \in Buffer : isAvailable'[c] <=> (c # b /\ isAvailable[c])
      BY <1>1 DEF SessionInv, TypeOK
    <2>4. TypeOK'
      <3>1. 0 \in Slot
        BY SizeAssumption DEF Slot
      <3> QED
        BY <1>1, <2>1, <3>1 DEF SessionInv, TypeOK, rxVars, mcVars, frameVars
    <2>5. OwnBuffer'
      <3> SUFFICES ASSUME NEW u \in TID, ucExists'[u]
                   PROVE  /\ reorderBuffer'[u] \in Buffer
                          /\ ~isAvailable'[reorderBuffer'[u]]
                          /\ \A v \in TID \ {u} : ucExists'[v]
                                => reorderBuffer'[v] # reorderBuffer'[u]
        BY DEF OwnBuffer
      <3>1. \A v \in TID : ucExists[v] => reorderBuffer[v] # b
        BY <1>1, AvailableIsEmpty
      <3> QED BY <2>2, <2>3, <3>1 DEF SessionInv, OwnBuffer
    <2>6. SessionReady' /\ OneSlot' /\ RxPlace' /\ DelPlace'
      BY <1>1, <2>2 DEF SessionInv, SessionReady, OneSlot, RxPlace, DelPlace, rxVars,
                        mcVars
    <2>7. PendingExact'
      <3> SUFFICES ASSUME NEW u \in TID, ucExists'[u]
                   PROVE  pendingFramesCount'[u]
                            = Cardinality(Occupied(arrayBuffer[reorderBuffer'[u]]))
        BY <1>1 DEF PendingExact, Occupied
      <3>1. CASE u = t
        BY <1>1, <2>2, <3>1, AvailableIsEmpty, FS_EmptySet
      <3>2. CASE u # t
        BY <2>2, <3>2 DEF SessionInv, PendingExact
      <3> QED BY <3>1, <3>2
    <2>8. NoFrameLeftBehind'
      BY <1>1, <2>2 DEF SessionInv, NoFrameLeftBehind, Occupied
    <2>9. AgingCovers'
      BY <1>1, <2>2 DEF SessionInv, AgingCovers, rxVars
    <2>10. Buffered' = Buffered /\ InHand' = InHand
      BY <1>1 DEF Buffered, Occupied, InHand, rxVars
    <2>11. OnePlace'
      BY <1>1, <2>10 DEF SessionInv, OnePlace, frameVars
    <2> QED
      BY <1>1, <2>4, <2>5, <2>6, <2>7, <2>8, <2>9, <2>10, <2>11
      DEF SessionInv, Held, frameVars
  <1> QED BY <1>2, <1>3

\* The buffer that a deletion clears is empty already.
LEMMA DelFinishStep ==
  ASSUME SessionInv, DelFinish
  PROVE  /\ SessionInv'
         /\ UNCHANGED <<Held, delivered, returned>>
  <1> DEFINE t == mcTid
             r == reorderBuffer[t]
  <1>1. /\ mc = "finish" /\ mc' = "idle" /\ mcTid' = NoTid
        /\ agingTimer' = [agingTimer EXCEPT ![t] = "unused"]
        /\ ucCIndex' = [ucCIndex EXCEPT ![t] = 0]
        /\ lockInit' = [lockInit EXCEPT ![t] = RxHoldsLock(t)]
        /\ isAvailable' = [isAvailable EXCEPT ![r] = TRUE]
        /\ UNCHANGED <<setup, ucExists, pendingFramesCount, reorderBuffer, timerMsg,
                       rxVars, frameVars>>
    BY DEF DelFinish
  <1>2. /\ t \in TID /\ ~ucExists[t] /\ r \in Buffer
        /\ \A u \in TID : ucExists[u] => reorderBuffer[u] # r
    BY <1>1 DEF SessionInv, DelPlace
  <1>3. arrayBuffer' = arrayBuffer
    <2>1. Occupied(arrayBuffer[r]) = {}
      BY <1>2 DEF SessionInv, NoFrameLeftBehind
    <2>2. arrayBuffer[r] = EmptySlots
      BY <1>2, <2>1 DEF SessionInv, TypeOK, Occupied, EmptySlots
    <2>3. arrayBuffer' = [arrayBuffer EXCEPT ![r] = EmptySlots]
      BY DEF DelFinish
    <2>4. arrayBuffer \in [Buffer -> [Slot -> Frame \cup {NoFrame}]]
      BY DEF SessionInv, TypeOK
    <2> QED BY <1>2, <2>2, <2>3, <2>4
  <1>4. TypeOK'
    <2>1. 0 \in Slot
      BY SizeAssumption DEF Slot
    <2>2. RxHoldsLock(t) \in BOOLEAN
      BY DEF RxHoldsLock
    <2> QED
      BY <1>1, <1>2, <1>3, <2>1, <2>2 DEF SessionInv, TypeOK, rxVars, frameVars
  <1>5. \A u \in TID : ucExists[u] =>
          lockInit'[u] = lockInit[u] /\ agingTimer'[u] = agingTimer[u]
    BY <1>1, <1>2 DEF SessionInv, TypeOK
  <1>6. \A u \in TID : ucExists[u] => ~isAvailable'[reorderBuffer[u]]
    BY <1>1, <1>2 DEF SessionInv, TypeOK, OwnBuffer
  <1>7. OwnBuffer' /\ SessionReady' /\ OneSlot' /\ RxPlace' /\ DelPlace'
    BY <1>1, <1>3, <1>5, <1>6 DEF SessionInv, OwnBuffer, SessionReady, OneSlot, RxPlace,
                                  DelPlace, rxVars
  <1>8. PendingExact' /\ NoFrameLeftBehind'
    BY <1>1, <1>3 DEF SessionInv, PendingExact, NoFrameLeftBehind, Occupied
  <1>9. AgingCovers'
    BY <1>1, <1>5 DEF SessionInv, AgingCovers, rxVars
  <1>10. Buffered' = Buffered /\ InHand' = InHand
    BY <1>1, <1>3 DEF Buffered, Occupied, InHand, rxVars
  <1>11. OnePlace'
    BY <1>1, <1>10 DEF SessionInv, OnePlace, frameVars
  <1> QED
    BY <1>1, <1>4, <1>7, <1>8, <1>9, <1>10, <1>11 DEF SessionInv, Held, frameVars

\* The steps that leave the sessions and their windows alone.
LEMMA QuietBuffers ==
  ASSUME SessionInv, UNCHANGED <<sessionVars, reorderVars>>
  PROVE  /\ PendingExact' /\ NoFrameLeftBehind' /\ OwnBuffer' /\ OneSlot'
         /\ Buffered' = Buffered
  <1>1. PendingExact' /\ NoFrameLeftBehind'
    BY DEF SessionInv, PendingExact, NoFrameLeftBehind, Occupied, sessionVars, reorderVars
  <1>2. OwnBuffer' /\ OneSlot' /\ Buffered' = Buffered
    BY DEF SessionInv, OwnBuffer, OneSlot, Buffered, Occupied, sessionVars, reorderVars
  <1> QED BY <1>1, <1>2

\* A frame comes in.
LEMMA RxFrameStep ==
  ASSUME SessionInv, NEW t \in TID, RxFrame(t)
  PROVE  /\ SessionInv'
         /\ \E frame \in Frame \ (Held \cup delivered \cup returned) :
              Held' = Held \cup {frame}
         /\ UNCHANGED <<delivered, returned>>
  <1>0. setup \in Setups /\ setup.frames \in 0 .. MaxFrame
    BY SetupAssumption DEF SessionInv, TypeOK
  <1>1. /\ rx = "idle" /\ arrived < setup.frames /\ arrived' = arrived + 1
        /\ rxFrame' = arrived + 1 /\ rxTid' = t
        /\ IF ucExists[t] THEN rx' = "reorder" /\ UNCHANGED rxOut
                          ELSE rx' = "deliver" /\ rxOut' = {arrived + 1}
        /\ UNCHANGED <<sessionVars, reorderVars, agingTimer, timerMsg, mcVars,
                       delivered, returned>>
    BY DEF RxFrame
  <1>2. arrived \in 0 .. MaxFrame /\ arrived + 1 \in Frame /\ MaxFrame \in Nat
    BY <1>0, <1>1, SizeAssumption DEF SessionInv, TypeOK, Frame
  <1>3. /\ PendingExact' /\ NoFrameLeftBehind' /\ OwnBuffer' /\ OneSlot'
        /\ Buffered' = Buffered
    BY <1>1, QuietBuffers
  <1>4. InHand = {} /\ InHand' = {arrived + 1}
    BY <1>1 DEF InHand
  <1>5. Buffered \cup InHand \cup delivered \cup returned \subseteq 1 .. arrived
    BY DEF SessionInv, OnePlace
  <1>6. arrived + 1 \notin 1 .. arrived /\ 1 .. arrived' = 1 .. arrived \cup {arrived + 1}
    BY <1>1, <1>2
  <1>7. OnePlace'
    BY <1>1, <1>3, <1>4, <1>5, <1>6 DEF OnePlace
  <1>8. TypeOK'
    <2>1. arrived' \in 0 .. MaxFrame
      BY <1>0, <1>1, <1>2
    <2> QED BY <1>1, <1>2, <2>1 DEF SessionInv, TypeOK, sessionVars, reorderVars, mcVars
  <1>9. AgingCovers' /\ SessionReady'
    BY <1>1 DEF SessionInv, AgingCovers, SessionReady, sessionVars, reorderVars
  <1>10. RxPlace' /\ DelPlace'
    BY <1>1, <1>2 DEF SessionInv, RxPlace, DelPlace, sessionVars, mcVars
  <1>11. arrived + 1 \in Frame \ (Held \cup delivered \cup returned)
         /\ Held' = Held \cup {arrived + 1}
    BY <1>2, <1>3, <1>4, <1>5, <1>6 DEF Held
  <1> QED BY <1>1, <1>3, <1>7, <1>8, <1>9, <1>10, <1>11 DEF SessionInv

\* pfnSTARx takes what the receive thread holds.
LEMMA RxDeliverStep ==
  ASSUME SessionInv, RxDeliver
  PROVE  /\ SessionInv'
         /\ \E frames \in SUBSET Held : /\ Held' = Held \ frames
                                       /\ delivered' = delivered \cup frames
         /\ UNCHANGED returned
  <1>1. /\ rx = "deliver" /\ delivered' = delivered \cup rxOut
        /\ rx' = "idle" /\ rxTid' = NoTid /\ rxFrame' = NoFrame /\ rxOut' = {}
        /\ UNCHANGED <<sessionVars, reorderVars, agingTimer, timerMsg, mcVars,
                       arrived, returned>>
    BY DEF RxDeliver
  <1>2. /\ PendingExact' /\ NoFrameLeftBehind' /\ OwnBuffer' /\ OneSlot'
        /\ Buffered' = Buffered
    BY <1>1, QuietBuffers
  <1>3. InHand = rxOut /\ InHand' = {}
    BY <1>1 DEF InHand
  <1>4. OnePlace'
    BY <1>1, <1>2, <1>3 DEF SessionInv, OnePlace
  <1>5. TypeOK'
    BY <1>1 DEF SessionInv, TypeOK, sessionVars, reorderVars, mcVars
  <1>6. AgingCovers' /\ SessionReady'
    BY <1>1 DEF SessionInv, AgingCovers, SessionReady, sessionVars, reorderVars
  <1>7. RxPlace' /\ DelPlace'
    BY <1>1 DEF SessionInv, RxPlace, DelPlace, sessionVars, mcVars
  <1>8. rxOut \in SUBSET Held /\ Held' = Held \ rxOut
    BY <1>2, <1>3 DEF Held, SessionInv, OnePlace
  <1> QED BY <1>1, <1>2, <1>4, <1>5, <1>6, <1>7, <1>8 DEF SessionInv

\* The steps that move no frame.
Quiet ==
  \/ RxLock \/ RxGone \/ AgingLock \/ DelReadTimer \/ DelStopTimer
  \/ \E t \in TID : AgingStart(t) \/ TimerExpire(t)
  \/ UNCHANGED vars

LEMMA QuietStep ==
  ASSUME SessionInv, Quiet
  PROVE  SessionInv' /\ UNCHANGED <<Held, delivered, returned>>
  <1>1. UNCHANGED <<sessionVars, reorderVars, rxFrame, frameVars>>
    BY DEF Quiet, RxLock, RxGone, AgingLock, DelReadTimer, DelStopTimer, AgingStart,
           TimerExpire, vars, rxVars
  <1>2. /\ PendingExact' /\ NoFrameLeftBehind' /\ OwnBuffer' /\ OneSlot'
        /\ Buffered' = Buffered
    BY <1>1, QuietBuffers
  <1>3. InHand' = InHand
    BY DEF Quiet, InHand, RxLock, RxGone, AgingLock, DelReadTimer, DelStopTimer, AgingStart,
           TimerExpire, vars, rxVars
  <1>4. OnePlace'
    BY <1>1, <1>2, <1>3 DEF SessionInv, OnePlace, frameVars
  <1>5. RxPlace'
    BY DEF SessionInv, Quiet, RxPlace, RxLock, RxGone, AgingLock, DelReadTimer,
           DelStopTimer, AgingStart, TimerExpire, vars, rxVars
  <1>6. DelPlace'
    BY DEF SessionInv, Quiet, DelPlace, RxLock, RxGone, AgingLock, DelReadTimer,
           DelStopTimer, AgingStart, TimerExpire, vars, mcVars, sessionVars
  <1>7. TypeOK'
    <2>1. \A f \in Frame : {f} \subseteq Frame
      OBVIOUS
    <2>2. rx' = "deliver" /\ rx # "deliver" => rxFrame \in Frame /\ rxOut' = {rxFrame}
      BY DEF SessionInv, Quiet, RxPlace, RxLock, RxGone, AgingLock, DelReadTimer,
             DelStopTimer, AgingStart, TimerExpire, vars, rxVars
    <2>3. rxOut' \subseteq Frame
      BY <2>1, <2>2 DEF SessionInv, TypeOK, Quiet, RxLock, RxGone, AgingLock, DelReadTimer,
             DelStopTimer, AgingStart, TimerExpire, vars, rxVars
    <2>4. rx' \in {"idle", "reorder", "locked", "deliver", "aging", "agingLocked"}
          /\ rxTid' \in TID \cup {NoTid}
      BY DEF SessionInv, TypeOK, Quiet, RxLock, RxGone, AgingLock, DelReadTimer,
             DelStopTimer, AgingStart, TimerExpire, vars, rxVars
    <2>5. mc' \in {"idle", "readTimer", "stopTimer", "finish"}
          /\ mcTid' \in TID \cup {NoTid}
      BY DEF SessionInv, TypeOK, Quiet, RxLock, RxGone, AgingLock, DelReadTimer,
             DelStopTimer, AgingStart, TimerExpire, vars, mcVars
    <2>6. agingTimer' \in [TID -> {"unused", "stopped", "running"}]
          /\ timerMsg' \in [TID -> Nat]
      BY DEF SessionInv, TypeOK, Quiet, RxLock, RxGone, AgingLock, DelReadTimer,
             DelStopTimer, AgingStart, TimerExpire, vars
    <2> QED
      BY <1>1, <2>3, <2>4, <2>5, <2>6 DEF SessionInv, TypeOK, sessionVars, reorderVars, frameVars
  <1>8. AgingCovers'
    BY <1>1 DEF SessionInv, TypeOK, AgingCovers, SessionReady, DelPlace, Quiet, RxLock, RxGone,
           AgingLock, DelReadTimer, DelStopTimer, AgingStart, TimerExpire, vars, rxVars,
           sessionVars, reorderVars
  <1>9. SessionReady'
    BY <1>1 DEF SessionInv, TypeOK, SessionReady, DelPlace, Quiet, RxLock, RxGone, AgingLock,
           DelReadTimer, DelStopTimer, AgingStart, TimerExpire, vars, sessionVars
  <1> QED
    BY <1>1, <1>2, <1>3, <1>4, <1>5, <1>6, <1>7, <1>8, <1>9
    DEF SessionInv, Held, frameVars

LEMMA NextIsCovered ==
  ASSUME [Next]_vars
  PROVE  \/ Quiet \/ AgingRun \/ RxDeliver \/ DelFinish
         \/ \E op \in Opcode, slot, fwd \in setup.slots : RxReorder(op, slot, fwd)
         \/ \E t \in TID : \/ RxFrame(t) \/ DelInvalidate(t)
                         \/ \E b \in Buffer : BaSessionAdd(t, b)
  BY DEF Next, RxStep, DelStep, Quiet

\* The slots that frames have in a run are slots of the window.
LEMMA SlotsOfSetup ==
  ASSUME TypeOK
  PROVE  setup.slots \subseteq Slot
  BY SetupAssumption DEF TypeOK, Slot

\* Every step keeps the invariant and is a step of RxFrames.
LEMMA SessionStep ==
  ASSUME SessionInv, [Next]_vars
  PROVE  SessionInv' /\ [Promise!Next]_<<Held, delivered, returned>>
  <1> USE DEF Promise!Next, Promise!Receive, Promise!Deliver, Promise!Return
  <1>1. CASE \E t \in TID : RxFrame(t)
    BY <1>1, RxFrameStep
  <1>2. Held \subseteq Frame
    BY FramesComeIn DEF Held, SessionInv, OnePlace
  <1>3. CASE AgingRun \/ RxDeliver \/ \E t \in TID : DelInvalidate(t)
    <2>1. SessionInv' /\ UNCHANGED returned
          /\ \E frames \in SUBSET Held : /\ Held' = Held \ frames
                                        /\ delivered' = delivered \cup frames
      BY <1>3, AgingRunStep, RxDeliverStep, DelInvalidateStep
    <2> QED BY <1>2, <2>1
  <1>4. CASE \E op \in Opcode, slot, fwd \in setup.slots : RxReorder(op, slot, fwd)
    <2>0. setup.slots \subseteq Slot
      BY SlotsOfSetup DEF SessionInv
    <2>1. SessionInv' /\ UNCHANGED delivered
          /\ \E drop \in SUBSET Held : /\ Held' = Held \ drop
                                      /\ returned' = returned \cup drop
      BY <1>4, <2>0, ReorderStep DEF RxReorder
    <2> QED BY <1>2, <2>1
  <1>5. CASE Quiet \/ DelFinish \/ \E t \in TID, b \in Buffer : BaSessionAdd(t, b)
    BY <1>5, QuietStep, DelFinishStep, BaSessionAddStep
  <1> QED BY <1>1, <1>3, <1>4, <1>5, NextIsCovered

LEMMA SessionInit ==
  ASSUME Init
  PROVE  SessionInv /\ Promise!Init
  <1>1. Buffered = {} /\ InHand = {} /\ Held = {}
    BY DEF Init, Buffered, Occupied, EmptySlots, InHand, Held
  <1>2. 0 \in Slot /\ 0 \in 0 .. MaxFrame
    BY SizeAssumption DEF Slot
  <1>3. TypeOK
    BY <1>2 DEF Init, TypeOK, EmptySlots
  <1>4. NoFrameLeftBehind /\ OneSlot
    BY DEF Init, NoFrameLeftBehind, OneSlot, Occupied, EmptySlots
  <1>5. PendingExact /\ OwnBuffer /\ AgingCovers /\ SessionReady /\ RxPlace /\ DelPlace
    BY DEF Init, PendingExact, OwnBuffer, AgingCovers, SessionReady, RxPlace, DelPlace
  <1>6. OnePlace
    BY <1>1 DEF Init, OnePlace
  <1> QED BY <1>1, <1>3, <1>4, <1>5, <1>6 DEF SessionInv, Init, Promise!Init

\* The inductive invariant of the sessions, their buffers and their frames.
THEOREM SessionCorrect == Spec => []SessionInv
  BY SessionInit, SessionStep, PTL DEF Spec

\* For any number of TIDs, buffers and frames and any size of the window, every
\* session has a buffer of its own, a buffer outside a session holds no frame,
\* and what waits behind a hole is being aged.
THEOREM ReorderCorrect == Spec => []ReorderInv
  <1>1. SessionInv => ReorderInv
    BY DEF SessionInv, ReorderInv
  <1> QED BY <1>1, SessionCorrect, PTL

\* The count by which the aging and the deletion decide whether to look for
\* frames is exact, whatever the hardware tells the reordering to do.
THEOREM PendingCorrect == Spec => []PendingExact
  <1>1. SessionInv => PendingExact
    BY DEF SessionInv
  <1> QED BY <1>1, SessionCorrect, PTL

\* TL keeps the promise of RxFrames: no frame is lost, and none is handed up or
\* returned twice, however sessions are deleted while frames are reordered.
THEOREM ImplementsFrames == Spec => FramesKept
  <1>1. Init => Promise!Init
    BY SessionInit
  <1>2. SessionInv /\ [Next]_vars => [Promise!Next]_<<Held, delivered, returned>>
    BY SessionStep
  <1>3. Spec => Promise!Spec
    BY <1>1, <1>2, SessionCorrect, PTL DEF Spec, Promise!Spec, Promise!frameVars
  <1> QED BY <1>3 DEF FramesKept

=============================================================================
