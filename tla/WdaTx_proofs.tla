---------------------------- MODULE WdaTx_proofs ----------------------------
(***************************************************************************)
(* Proofs about WdaTx, for any set of situations: any number of frames,    *)
(* disassociations and scans.                                              *)
(***************************************************************************)
EXTENDS WdaTx, SequenceTheorems, TLAPS

-----------------------------------------------------------------------------
(***************************************************************************)
(* The inductive invariant.                                                *)
(***************************************************************************)
Sending == {"reset", "store", "hand", "kick", "wait", "noCallback", "tagging"}
Completing == {"tagged", "called", "swapped", "freed"}

McType == [pc: Sending \cup {"idle", "scanWait", "scanTimeout", "scanSuspended"},
           frame: {None} \cup Frame, ack: BOOLEAN]
WdaType == [txCb: BOOLEAN, ackCb: BOOLEAN, toFree: {None} \cup Frame,
            event: BOOLEAN, timer: 0 .. 2, txStatus: BOOLEAN,
            suspEvent: BOOLEAN, timedOut: BOOLEAN]
LimType == [req: {None} \cup Request, unsent: BOOLEAN, freed: BOOLEAN,
            timer: BOOLEAN, scan: {"none", "init", "on", "finish"}]
TlType == [slot: {None} \cup Frame, suspended: BOOLEAN, asked: Nat]
TxType == [pc: Completing \cup {"idle", "crashed", "answered", "woken", "late"},
           frame: {None} \cup Frame]
FramesType == [tag: SUBSET Frame, freed: [Frame -> Nat], ack: SUBSET Frame,
               air: SUBSET Frame, next: Nat]
MsgsType == [ind: Nat, wdaTimeout: Nat, limTimeout: Nat]
LeftType == [plain: Nat, requests: Nat, scans: Nat]

\* Of what every variable is, and which frames the two threads are busy with.
Types ==
  /\ mc \in McType /\ wda \in WdaType /\ lim \in LimType /\ tl \in TlType
  /\ tx \in TxType /\ ring \in Seq(Frame) /\ frames \in FramesType
  /\ msgs \in MsgsType /\ setup \in Setups /\ left \in LeftType
  /\ mc.pc \in Sending => mc.frame \in Frame
  /\ tx.pc \in Completing => tx.frame \in Frame
  /\ tx.pc \notin Completing \cup {"crashed"} => tx.frame = None
  \* Frames are numbered as they are sent; a request may be without one.
  /\ left.plain <= setup.plain /\ left.requests <= setup.requests
  /\ 1 <= frames.next
  /\ frames.next <= 1 + (setup.plain - left.plain) + (setup.requests - left.requests)

\* Where a frame is that has been made and not been freed
InRing(f) == \E i \in 1 .. Len(ring) : ring[i] = f
InTx(f)   == f = tx.frame /\ tx.pc \in {"tagged", "called", "swapped"}
WithMc(f) == f = mc.frame /\ mc.pc \in {"reset", "store", "hand"}

\* A frame is in one place, until it is freed.
OnePlace ==
  /\ \A i, j \in 1 .. Len(ring) : ring[i] = ring[j] => i = j
  /\ \A f \in Frame :
       /\ ~(f = tl.slot /\ InRing(f)) /\ ~(f = tl.slot /\ InTx(f))
       /\ ~(InRing(f) /\ InTx(f))
       /\ WithMc(f) => f # tl.slot /\ ~InRing(f) /\ ~InTx(f)
       /\ frames.freed[f] \in {0, 1}
       /\ frames.freed[f] = 1 => f # tl.slot /\ ~InRing(f) /\ ~InTx(f) /\ ~WithMc(f)
       /\ f >= frames.next =>
            /\ f # tl.slot /\ ~InRing(f) /\ ~InTx(f) /\ frames.freed[f] = 0
            /\ mc.pc \in Sending => f # mc.frame

\* The MC thread waits for a frame, or it has given it up and tagged it.
Tagged ==
  /\ \A f \in Frame : f = tl.slot \/ InRing(f) \/ InTx(f) =>
       f \in frames.tag \/ (f = mc.frame /\ mc.pc \in {"kick", "wait", "noCallback"})
  /\ mc.pc = "tagging" => mc.frame \in frames.tag
  /\ mc.pc \in {"hand", "kick", "wait"} => mc.frame \notin frames.tag
  /\ mc.pc \in {"reset", "store", "hand", "kick", "wait"} => wda.txCb

\* The TX thread completes the frame that the MC thread waits for, and it is
\* the one to be freed until the TX thread has claimed it.
InStep ==
  /\ tx.pc # "crashed"
  /\ tx.pc \in Completing =>
       mc.pc \in {"kick", "wait"} /\ tx.frame = mc.frame /\ ~wda.event
  /\ tx.pc = "freed" => frames.freed[tx.frame] = 1
  /\ wda.event => mc.pc \in {"kick", "wait"} /\ frames.freed[mc.frame] = 1
  /\ mc.pc \in {"hand", "kick", "wait"} /\ frames.freed[mc.frame] = 0 /\ tx.pc # "swapped"
       => wda.toFree = mc.frame
  /\ mc.pc \in {"kick", "wait"} /\ ~wda.event =>
       tl.slot = mc.frame \/ InRing(mc.frame) \/ InTx(mc.frame) \/ tx.pc = "freed"

\* A suspension of the data.
Suspension ==
  /\ tl.asked \in {0, 1}
  /\ tl.asked = 1 => /\ tl.suspended
                     /\ mc.pc \in {"scanWait", "scanTimeout"} \/ wda.timedOut
  /\ lim.scan # "none" =>
       /\ tl.suspended /\ tl.asked = 0 /\ ~wda.timedOut
       /\ tx.pc \notin {"answered", "late"}
       /\ mc.pc \notin {"scanWait", "scanTimeout", "scanSuspended"}
  /\ wda.timedOut => /\ tl.suspended \/ tx.pc = "late"
                     /\ mc.pc \notin {"scanWait", "scanTimeout"}
  /\ tx.pc = "late" => wda.timedOut /\ tl.asked = 0
  /\ tx.pc = "answered" =>
       tl.suspended /\ tl.asked = 0 /\ (wda.timedOut \/ mc.pc = "scanWait")
  /\ tx.pc = "woken" /\ wda.timedOut => tl.asked = 0

\* How far the MC thread has got with it
Suspending ==
  /\ mc.pc \in {"scanWait", "scanTimeout", "scanSuspended"} => tl.suspended
  /\ mc.pc = "scanWait" =>
       /\ tx.pc = "answered" \/ wda.suspEvent => wda.txStatus
       /\ wda.suspEvent => tl.asked = 0 /\ tx.pc # "answered"
       /\ ~wda.suspEvent /\ tx.pc # "answered" =>
            ~wda.txStatus /\ (~setup.lost => tl.asked = 1)
  /\ mc.pc = "scanTimeout" =>
       ~wda.txStatus /\ ~InSuspendCb /\ (~setup.lost => tl.asked = 1)
  /\ mc.pc = "scanSuspended" =>
       IF wda.timedOut THEN ~wda.txStatus /\ ~InSuspendCb
                       ELSE tl.asked = 0 /\ tx.pc \notin {"answered", "late"}
  /\ ~setup.lost => SuspendAnswered

WdaIInv ==
  /\ Types
  /\ ~setup.racing => OnePlace /\ Tagged /\ InStep /\ Suspension /\ Suspending

-----------------------------------------------------------------------------
(***************************************************************************)
(* Facts about the data.                                                   *)
(***************************************************************************)
LEMMA SetupType ==
  /\ \A s \in Setups : s.plain \in Nat /\ s.requests \in Nat /\ s.scans \in Nat
                         /\ s.racing \in BOOLEAN /\ s.lost \in BOOLEAN
                         /\ s.peers \in BOOLEAN /\ s.scarce \in BOOLEAN
  /\ \A s \in Setups : \A n \in 1 .. (s.plain + s.requests) : n \in Frame
  /\ \A s \in Setups : \A n \in 1 .. s.requests : n \in Request
  /\ \A f \in Frame : f \in Nat /\ f > 0 /\ f # None
  /\ None \in Nat
  <1>1. \A s \in Setups : s.plain \in Nat /\ s.requests \in Nat /\ s.scans \in Nat
                         /\ s.racing \in BOOLEAN /\ s.lost \in BOOLEAN
                         /\ s.peers \in BOOLEAN /\ s.scarce \in BOOLEAN
    BY SetupsAssumption
  <1>2. \A s \in Setups : \A n \in 1 .. (s.plain + s.requests) : n \in Frame
    BY DEF Frame
  <1>3. ASSUME NEW f \in Frame PROVE f \in Nat /\ f > 0
    <2>1. PICK s \in Setups : f \in 1 .. (s.plain + s.requests)
      BY DEF Frame
    <2> QED BY <2>1, <1>1
  <1>4. \A s \in Setups : \A n \in 1 .. s.requests : n \in Request
    BY DEF Request
  <1> QED BY <1>1, <1>2, <1>3, <1>4 DEF None

\* What appending and taking away a frame does to a ring
LEMMA AppendRing ==
  ASSUME NEW s \in Seq(Frame), NEW e \in Frame
  PROVE  /\ Append(s, e) \in Seq(Frame)
         /\ \A f : (\E i \in 1 .. Len(Append(s, e)) : Append(s, e)[i] = f)
                  <=> (\E i \in 1 .. Len(s) : s[i] = f) \/ f = e
         /\ (\A i, j \in 1 .. Len(s) : s[i] = s[j] => i = j)
              /\ ~(\E i \in 1 .. Len(s) : s[i] = e)
              => \A i, j \in 1 .. Len(Append(s, e)) :
                   Append(s, e)[i] = Append(s, e)[j] => i = j
  <1> DEFINE t == Append(s, e)
  <1>1. /\ t \in Seq(Frame) /\ Len(s) \in Nat /\ Len(t) = Len(s) + 1
        /\ t[Len(s) + 1] = e /\ \A i \in 1 .. Len(s) : t[i] = s[i]
    OBVIOUS
  <1> HIDE DEF t
  <1>2. \A i \in 1 .. Len(t) : i \in 1 .. Len(s) \/ i = Len(s) + 1
    BY <1>1
  <1>3. \A i \in 1 .. Len(s) : i \in 1 .. Len(t)
    BY <1>1
  <1>4. Len(s) + 1 \in 1 .. Len(t)
    BY <1>1
  <1>5. \A f : (\E i \in 1 .. Len(t) : t[i] = f)
                  <=> (\E i \in 1 .. Len(s) : s[i] = f) \/ f = e
    BY <1>1, <1>2, <1>3, <1>4
  <1>6. ASSUME \A i, j \in 1 .. Len(s) : s[i] = s[j] => i = j,
               ~(\E i \in 1 .. Len(s) : s[i] = e)
        PROVE  \A i, j \in 1 .. Len(t) : t[i] = t[j] => i = j
    BY <1>1, <1>2, <1>6
  <1> QED BY <1>1, <1>5, <1>6 DEF t

LEMMA TailRing ==
  ASSUME NEW s \in Seq(Frame), s # <<>>
  PROVE  /\ Tail(s) \in Seq(Frame) /\ Head(s) \in Frame
         /\ \E i \in 1 .. Len(s) : s[i] = Head(s)
         /\ \A f : (\E i \in 1 .. Len(Tail(s)) : Tail(s)[i] = f)
                  => \E i \in 1 .. Len(s) : s[i] = f
         /\ (\A i, j \in 1 .. Len(s) : s[i] = s[j] => i = j)
              => /\ \A i, j \in 1 .. Len(Tail(s)) : Tail(s)[i] = Tail(s)[j] => i = j
                 /\ \A f : (\E i \in 1 .. Len(Tail(s)) : Tail(s)[i] = f)
                         <=> (\E i \in 1 .. Len(s) : s[i] = f) /\ f # Head(s)
  <1> DEFINE t == Tail(s)
  <1>1. /\ t \in Seq(Frame) /\ Len(s) \in Nat /\ Len(s) > 0
        /\ Len(t) = Len(s) - 1
        /\ Head(s) = s[1] /\ s[1] \in Frame
        /\ \A i \in 1 .. Len(t) : t[i] = s[i + 1]
    OBVIOUS
  <1> HIDE DEF t
  <1>2. \A i \in 1 .. Len(t) : i + 1 \in 1 .. Len(s) /\ i + 1 # 1
    BY <1>1
  <1>3. \A i \in 1 .. Len(s) : i = 1 \/ (i - 1 \in 1 .. Len(t) /\ (i - 1) + 1 = i)
    BY <1>1
  <1>4. \A i \in 1 .. Len(s) : i = 1 \/ s[i] = t[i - 1]
    BY <1>1, <1>3
  <1>5. 1 \in 1 .. Len(s)
    BY <1>1
  <1>6. \A f : (\E i \in 1 .. Len(t) : t[i] = f) => \E i \in 1 .. Len(s) : s[i] = f
    BY <1>1, <1>2
  <1>7. ASSUME \A i, j \in 1 .. Len(s) : s[i] = s[j] => i = j
        PROVE  /\ \A i, j \in 1 .. Len(t) : t[i] = t[j] => i = j
               /\ \A f : (\E i \in 1 .. Len(t) : t[i] = f)
                       <=> (\E i \in 1 .. Len(s) : s[i] = f) /\ f # Head(s)
    <2>1. ASSUME NEW i \in 1 .. Len(t), NEW j \in 1 .. Len(t), t[i] = t[j]
          PROVE  i = j
      <3>1. i + 1 \in 1 .. Len(s) /\ j + 1 \in 1 .. Len(s) /\ s[i + 1] = s[j + 1]
        BY <1>1, <1>2, <2>1
      <3>2. i + 1 = j + 1
        BY <3>1, <1>7
      <3> QED BY <3>2, <1>1
    <2>2. \A i \in 1 .. Len(t) : t[i] # Head(s)
      BY <1>1, <1>2, <1>5, <1>7
    <2>3. \A f : (\E i \in 1 .. Len(s) : s[i] = f) /\ f # Head(s)
                => \E i \in 1 .. Len(t) : t[i] = f
      BY <1>1, <1>3, <1>4
    <2> QED BY <2>1, <2>2, <2>3, <1>6
  <1> QED BY <1>1, <1>5, <1>6, <1>7 DEF t

\* The fields of the variables
LEMMA Fields ==
  ASSUME Types
  PROVE  /\ mc.pc \in Sending \cup {"idle", "scanWait", "scanTimeout", "scanSuspended"}
         /\ mc.frame \in {None} \cup Frame /\ mc.ack \in BOOLEAN
         /\ wda.txCb \in BOOLEAN /\ wda.ackCb \in BOOLEAN
         /\ wda.toFree \in {None} \cup Frame /\ wda.event \in BOOLEAN
         /\ wda.timer \in 0 .. 2 /\ wda.txStatus \in BOOLEAN
         /\ wda.suspEvent \in BOOLEAN /\ wda.timedOut \in BOOLEAN
         /\ lim.req \in {None} \cup Request /\ lim.timer \in BOOLEAN
         /\ lim.unsent \in BOOLEAN /\ lim.freed \in BOOLEAN
         /\ lim.scan \in {"none", "init", "on", "finish"}
         /\ tl.slot \in {None} \cup Frame /\ tl.suspended \in BOOLEAN
         /\ tl.asked \in Nat
         /\ tx.pc \in Completing \cup {"idle", "crashed", "answered", "woken", "late"}
         /\ tx.frame \in {None} \cup Frame
         /\ frames.tag \in SUBSET Frame /\ frames.freed \in [Frame -> Nat]
         /\ frames.ack \in SUBSET Frame /\ frames.air \in SUBSET Frame
         /\ frames.next \in Nat
         /\ msgs.ind \in Nat /\ msgs.wdaTimeout \in Nat /\ msgs.limTimeout \in Nat
         /\ left.plain \in Nat /\ left.requests \in Nat /\ left.scans \in Nat
         /\ setup.plain \in Nat /\ setup.requests \in Nat
         /\ setup.racing \in BOOLEAN /\ setup.lost \in BOOLEAN
         /\ setup.scarce \in BOOLEAN
  BY SetupType DEF Types, McType, WdaType, LimType, TlType, TxType, FramesType,
     MsgsType, LeftType

LEMMA InitInv == Init => WdaIInv
  <1> SUFFICES ASSUME Init PROVE WdaIInv
    OBVIOUS
  <1>1. Types
    <2>1. setup.plain \in Nat /\ setup.requests \in Nat /\ setup.scans \in Nat
      BY SetupType DEF Init
    <2>2. left \in LeftType /\ left.plain = setup.plain /\ left.requests = setup.requests
      BY <2>1 DEF Init, LeftType
    <2>3. frames \in FramesType /\ frames.next = 1
      BY DEF Init, FramesType
    <2> QED BY <2>1, <2>2, <2>3 DEF Init, Types, McType, WdaType, LimType, TlType,
               TxType, MsgsType, Sending, Completing
  <1>2. /\ \A f : ~InRing(f) /\ ~InTx(f) /\ ~WithMc(f)
        /\ \A f \in Frame : f # tl.slot /\ frames.freed[f] = 0
        /\ Len(ring) = 0
    BY SetupType DEF Init, InRing, InTx, WithMc
  <1>3. OnePlace
    BY <1>2 DEF Init, OnePlace, Sending
  <1>4. Tagged /\ InStep
    BY <1>2 DEF Init, Tagged, InStep, Completing
  <1>5. Suspension /\ Suspending
    BY DEF Init, Suspension, Suspending, SuspendAnswered
  <1> QED BY <1>1, <1>3, <1>4, <1>5 DEF WdaIInv

-----------------------------------------------------------------------------
(***************************************************************************)
(* What the two halves of the invariant depend on.                         *)
(***************************************************************************)
\* The frames do not notice a step of a scan, nor of the acknowledgements.
LEMMA FramesUnmoved ==
  ASSUME OnePlace, Tagged, InStep,
         \/ mc'.pc = mc.pc /\ mc'.frame = mc.frame
         \/ mc.pc \notin Sending /\ mc'.pc \notin Sending,
         \/ tx'.pc = tx.pc /\ tx'.frame = tx.frame
         \/ tx.pc \notin Completing /\ tx'.pc \notin Completing \cup {"crashed"},
         tl'.slot = tl.slot, ring' = ring, frames'.tag = frames.tag,
         frames'.freed = frames.freed, frames'.next = frames.next,
         wda'.txCb = wda.txCb, wda'.event = wda.event, wda'.toFree = wda.toFree
  PROVE  OnePlace' /\ Tagged' /\ InStep'
  <1>1. \A f : /\ InRing(f)' <=> InRing(f)
               /\ InTx(f)' <=> InTx(f)
               /\ WithMc(f)' <=> WithMc(f)
    BY DEF InRing, InTx, WithMc, Sending, Completing
  <1>2. OnePlace'
    BY <1>1 DEF OnePlace, Sending
  <1>3. Tagged'
    BY <1>1 DEF Tagged, Sending
  <1>4. InStep'
    BY <1>1 DEF InStep, Sending, Completing
  <1> QED BY <1>2, <1>3, <1>4

\* Nor does a suspension notice the sending of a frame.
LEMMA SuspensionUnmoved ==
  ASSUME Suspension, Suspending,
         \/ mc'.pc = mc.pc
         \/ /\ mc.pc \notin {"scanWait", "scanTimeout", "scanSuspended"}
            /\ mc'.pc \notin {"scanWait", "scanTimeout", "scanSuspended"},
         \/ tx'.pc = tx.pc
         \/ /\ tx.pc \notin {"answered", "woken", "late"}
            /\ tx'.pc \notin {"answered", "woken", "late"},
         tl'.suspended = tl.suspended, tl'.asked = tl.asked,
         wda'.txStatus = wda.txStatus, wda'.suspEvent = wda.suspEvent,
         wda'.timedOut = wda.timedOut, lim'.scan = lim.scan, setup' = setup
  PROVE  Suspension' /\ Suspending'
  <1>1. Suspension'
    BY DEF Suspension
  <1>2. Suspending'
    BY DEF Suspending, SuspendAnswered, InSuspendCb
  <1> QED BY <1>1, <1>2

\* What moves neither a frame nor a suspension keeps the invariant.
LEMMA ElsewhereKeeps ==
  ASSUME WdaIInv, lim' \in LimType, lim'.scan = lim.scan, wda' \in WdaType,
         wda'.txCb = wda.txCb, wda'.event = wda.event, wda'.toFree = wda.toFree,
         wda'.txStatus = wda.txStatus, wda'.suspEvent = wda.suspEvent,
         wda'.timedOut = wda.timedOut, msgs' \in MsgsType,
         frames' \in FramesType, frames'.tag = frames.tag,
         frames'.freed = frames.freed, frames'.next = frames.next,
         UNCHANGED <<mc, tl, tx, ring, setup>>,
         \/ UNCHANGED left
         \/ /\ left' \in LeftType /\ left'.plain <= left.plain
            /\ left'.requests <= left.requests
  PROVE  WdaIInv'
  <1>1. Types'
    <2> DEFINE P == setup.plain  R == setup.requests  lp == left.plain
               lr == left.requests  p == left'.plain  r == left'.requests
    <2>1. Types
      BY DEF WdaIInv
    <2>l. /\ left' \in LeftType /\ left'.plain <= left.plain
          /\ left'.requests <= left.requests
      BY <2>1, Fields DEF Types
    <2>2. /\ P \in Nat /\ R \in Nat /\ lp \in Nat /\ lr \in Nat /\ p \in Nat
          /\ r \in Nat /\ frames.next \in Nat /\ p <= lp /\ r <= lr
          /\ lp <= P /\ lr <= R /\ 1 <= frames.next
          /\ frames.next <= 1 + (P - lp) + (R - lr)
      BY <2>1, <2>l, Fields DEF Types, LeftType
    <2>3. p <= P /\ r <= R /\ frames.next <= 1 + (P - p) + (R - r)
      <3> HIDE DEF P, R, lp, lr, p, r
      <3> QED BY <2>2
    <2> QED BY <2>1, <2>l, <2>2, <2>3 DEF Types
  <1> SUFFICES ASSUME ~setup.racing
               PROVE  OnePlace' /\ Tagged' /\ InStep' /\ Suspension' /\ Suspending'
    BY <1>1 DEF WdaIInv
  <1>2. OnePlace /\ Tagged /\ InStep /\ Suspension /\ Suspending
    BY DEF WdaIInv
  <1>3. OnePlace' /\ Tagged' /\ InStep'
    BY <1>2, FramesUnmoved
  <1>4. Suspension' /\ Suspending'
    BY <1>2, SuspensionUnmoved
  <1> QED BY <1>3, <1>4

-----------------------------------------------------------------------------
(***************************************************************************)
(* The MC thread sends a frame.                                            *)
(***************************************************************************)
LEMMA BeginFrameKeeps ==
  ASSUME WdaIInv, NEW ack \in BOOLEAN, BeginFrame(ack), setup' = setup,
         LET what == IF ack THEN "requests" ELSE "plain"
         IN  left[what] > 0 /\ left' = [left EXCEPT ![what] = @ - 1],
         lim' \in LimType, lim'.scan = lim.scan
  PROVE  WdaIInv'
  <1> USE DEF BeginFrame
  <1>1. Types
    BY DEF WdaIInv
  <1>2. /\ left' \in LeftType /\ left'.plain <= left.plain
        /\ left'.requests <= left.requests
        /\ left'.plain + left'.requests + 1 = left.plain + left.requests
    <2>1. left \in LeftType
      BY <1>1 DEF Types
    <2>2. CASE ack
      <3>1. left.requests > 0 /\ left' = [left EXCEPT !.requests = @ - 1]
        BY <2>2
      <3> QED BY <3>1, <2>1 DEF LeftType
    <2>3. CASE ~ack
      <3>1. left.plain > 0 /\ left' = [left EXCEPT !.plain = @ - 1]
        BY <2>3
      <3> QED BY <3>1, <2>1 DEF LeftType
    <2> QED BY <2>2, <2>3
  <1> DEFINE P == setup.plain  R == setup.requests
             lp == left.plain  lr == left.requests
             p == left'.plain  r == left'.requests
  <1>n. /\ P \in Nat /\ R \in Nat /\ lp \in Nat /\ lr \in Nat /\ p \in Nat /\ r \in Nat
        /\ p <= lp /\ r <= lr /\ p + r + 1 = lp + lr
        /\ lp <= P /\ lr <= R /\ frames.next \in Nat
        /\ 1 <= frames.next /\ frames.next <= 1 + (P - lp) + (R - lr)
    BY <1>1, <1>2, Fields DEF Types, LeftType
  <1>3. frames.next \in Frame
    <2>1. frames.next \in 1 .. (P + R)
      <3> HIDE DEF P, R, lp, lr, p, r
      <3> QED BY <1>n
    <2> QED BY <2>1, <1>1, SetupType DEF Types
  <1>4. wda' \in WdaType /\ wda'.txCb /\ wda'.event = wda.event
        /\ wda'.toFree = wda.toFree /\ wda'.txStatus = wda.txStatus
        /\ wda'.suspEvent = wda.suspEvent /\ wda'.timedOut = wda.timedOut
    <2>1. wda \in WdaType
      BY <1>1 DEF Types
    <2> DEFINE w1 == [wda EXCEPT !.txCb = TRUE]
               w2 == IF wda.ackCb THEN [w1 EXCEPT !.timer = 0] ELSE w1
               w3 == [w2 EXCEPT !.ackCb = TRUE]
    <2>2. w1 \in WdaType /\ w1.txCb /\ w1.event = wda.event
          /\ w1.toFree = wda.toFree /\ w1.txStatus = wda.txStatus
          /\ w1.suspEvent = wda.suspEvent /\ w1.timedOut = wda.timedOut
      BY <2>1 DEF WdaType
    <2>3. w3 \in WdaType /\ w3.txCb /\ w3.event = wda.event
          /\ w3.toFree = wda.toFree /\ w3.txStatus = wda.txStatus
          /\ w3.suspEvent = wda.suspEvent /\ w3.timedOut = wda.timedOut
      <3>1. w2 \in WdaType /\ w2.txCb /\ w2.event = wda.event
            /\ w2.toFree = wda.toFree /\ w2.txStatus = wda.txStatus
            /\ w2.suspEvent = wda.suspEvent /\ w2.timedOut = wda.timedOut
        <4>1. CASE wda.ackCb
          <5>1. w2 = [w1 EXCEPT !.timer = 0]
            BY <4>1
          <5> HIDE DEF w1, w2
          <5> QED BY <5>1, <2>2 DEF WdaType
        <4>2. CASE ~wda.ackCb
          <5>1. w2 = w1
            BY <4>2
          <5> HIDE DEF w1, w2
          <5> QED BY <5>1, <2>2
        <4> QED BY <4>1, <4>2
      <3> HIDE DEF w2
      <3> QED BY <3>1 DEF WdaType
    <2>4. wda' = IF ~ack THEN w1 ELSE StartWdaTimer(w3)
      BY DEF StoreCallbacks, StopWdaTimer
    <2> HIDE DEF w1, w3
    <2>5. StartWdaTimer(w3) \in WdaType /\ StartWdaTimer(w3).txCb
          /\ StartWdaTimer(w3).event = w3.event
          /\ StartWdaTimer(w3).toFree = w3.toFree
          /\ StartWdaTimer(w3).txStatus = w3.txStatus
          /\ StartWdaTimer(w3).suspEvent = w3.suspEvent
          /\ StartWdaTimer(w3).timedOut = w3.timedOut
      BY <2>3 DEF StartWdaTimer, WdaType
    <2>6. CASE ~ack
      BY <2>2, <2>4, <2>6
    <2>7. CASE ack
      BY <2>3, <2>4, <2>5, <2>7
    <2> QED BY <2>6, <2>7
  <1>5. /\ mc' \in McType /\ mc'.pc = "reset" /\ mc'.frame = frames.next
    BY <1>3 DEF McType, Sending
  <1>6. /\ frames' \in FramesType /\ frames'.next = frames.next + 1
        /\ frames'.tag = frames.tag /\ frames'.freed = frames.freed
    <2>1. frames \in FramesType /\ frames.next \in Nat
      BY <1>1 DEF Types, FramesType
    <2> DEFINE a == IF ack THEN frames.ack \cup {frames.next} ELSE frames.ack
    <2>2. a \in SUBSET Frame
      BY <2>1, <1>3 DEF FramesType
    <2>3. frames' = [frames EXCEPT !.next = frames.next + 1, !.ack = a]
      OBVIOUS
    <2>4. frames.next + 1 \in Nat
      BY <2>1
    <2> HIDE DEF a, BeginFrame
    <2> QED BY <2>1, <2>2, <2>3, <2>4 DEF FramesType
  <1>7. Types'
    <2>1. /\ p <= P /\ r <= R /\ 1 <= frames'.next
          /\ frames'.next <= 1 + (P - p) + (R - r)
      <3> HIDE DEF P, R, lp, lr, p, r
      <3> QED BY <1>n, <1>6
    <2>2. setup' = setup /\ tl' = tl /\ tx' = tx /\ ring' = ring /\ msgs' = msgs
      OBVIOUS
    <2> HIDE DEF BeginFrame
    <2> QED BY <2>1, <2>2, <1>1, <1>2, <1>3, <1>4, <1>5, <1>6 DEF Types
  <1> SUFFICES ASSUME ~setup.racing
               PROVE  OnePlace' /\ Tagged' /\ InStep' /\ Suspension' /\ Suspending'
    BY <1>7 DEF WdaIInv
  <1>8. OnePlace /\ Tagged /\ InStep /\ Suspension /\ Suspending /\ mc.pc = "idle"
    BY DEF WdaIInv
  <1>9. \A f : /\ InRing(f)' <=> InRing(f)
               /\ InTx(f)' <=> InTx(f)
               /\ WithMc(f)' <=> f = frames.next
               /\ ~WithMc(f)
    BY <1>5, <1>8 DEF InRing, InTx, WithMc
  <1>10. frames.next \in Nat /\ \A f \in Frame : f \in Nat
    BY <1>3, SetupType
  <1>11. OnePlace'
    BY <1>3, <1>5, <1>6, <1>8, <1>9, <1>10 DEF OnePlace
  <1>12. Tagged'
    BY <1>4, <1>5, <1>6, <1>8, <1>9 DEF Tagged
  <1>13. InStep'
    BY <1>4, <1>5, <1>6, <1>8, <1>9 DEF InStep, Completing
  <1>14. Suspension' /\ Suspending'
    BY <1>4, <1>5, <1>8, SuspensionUnmoved
  <1> QED BY <1>11, <1>12, <1>13, <1>14

LEMMA SendPlainKeeps == WdaIInv /\ SendPlain => WdaIInv'
  <1> SUFFICES ASSUME WdaIInv, SendPlain PROVE WdaIInv'
    OBVIOUS
  <1>1. lim' \in LimType /\ lim'.scan = lim.scan
    BY DEF SendPlain, WdaIInv, Types
  <1> QED BY <1>1, BeginFrameKeeps DEF SendPlain, Spend

LEMMA ConfirmFields ==
  ASSUME NEW l \in LimType, NEW m \in SendDisassocCnf(l)
  PROVE  m \in LimType /\ m.scan = l.scan
  <1>1. m \in {l, [l EXCEPT !.req = None, !.timer = FALSE, !.freed = FALSE],
                [l EXCEPT !.timer = FALSE, !.freed = TRUE]}
    BY DEF SendDisassocCnf
  <1> QED BY <1>1 DEF LimType

LEMMA DisassociateKeeps == WdaIInv /\ Disassociate => WdaIInv'
  <1> SUFFICES ASSUME WdaIInv, Disassociate PROVE WdaIInv'
    OBVIOUS
  <1>1. Types
    BY DEF WdaIInv
  <1> DEFINE r == setup.requests - left.requests + 1
             l == [lim EXCEPT !.req = r, !.freed = FALSE, !.unsent = FALSE]
  <1>2. /\ left.requests > 0 /\ left' = [left EXCEPT !.requests = @ - 1]
        /\ setup' = setup
    BY DEF Disassociate, Spend
  <1>3. l \in LimType /\ l.scan = lim.scan
    <2>1. r \in Request
      <3>1. /\ setup.requests \in Nat /\ left.requests \in Nat
            /\ left.requests <= setup.requests /\ setup \in Setups
        BY <1>1, Fields DEF Types
      <3>2. r \in 1 .. setup.requests
        BY <1>2, <3>1
      <3> HIDE DEF r
      <3> QED BY <3>1, <3>2, SetupType
    <2> HIDE DEF r
    <2>2. lim \in LimType
      BY <1>1 DEF Types
    <2> QED BY <2>1, <2>2 DEF LimType
  <1>4. CASE /\ BeginFrame(TRUE)
             /\ lim' \in IF wda.ackCb THEN SendDisassocCnf(l) ELSE {l}
    <2>1. lim' \in LimType /\ lim'.scan = lim.scan
      <3> HIDE DEF l
      <3> QED BY <1>3, <1>4, ConfirmFields
    <2> HIDE DEF l
    <2> QED BY <1>2, <1>4, <2>1, BeginFrameKeeps
  \* No frame is made for the request.
  <1>5. CASE /\ lim' = [l EXCEPT !.unsent = TRUE]
             /\ UNCHANGED <<mc, wda, tl, tx, ring, frames, msgs>>
    <2>1. lim' \in LimType /\ lim'.scan = lim.scan
      <3> HIDE DEF l
      <3> QED BY <1>3, <1>5 DEF LimType
    <2>2. /\ left' \in LeftType /\ left'.plain = left.plain
          /\ left'.requests <= left.requests
      <3>1. left \in LeftType
        BY <1>1 DEF Types
      <3> QED BY <1>2, <3>1 DEF LeftType
    <2>3. left.plain <= left.plain
      BY <1>1, Fields
    <2> QED BY <1>1, <1>2, <1>5, <2>1, <2>2, <2>3, ElsewhereKeeps DEF Types
  <1> QED BY <1>4, <1>5 DEF Disassociate

LEMMA ResetEventKeeps == WdaIInv /\ ResetEvent => WdaIInv'
  <1> SUFFICES ASSUME WdaIInv, ResetEvent PROVE WdaIInv'
    OBVIOUS
  <1> USE DEF ResetEvent
  <1>1. Types /\ mc \in McType /\ wda \in WdaType
    BY DEF WdaIInv, Types
  <1>2. /\ mc' \in McType /\ mc'.pc = "store" /\ mc'.frame = mc.frame
        /\ wda' \in WdaType /\ wda'.event = FALSE /\ wda'.txCb = wda.txCb
        /\ wda'.toFree = wda.toFree /\ wda'.txStatus = wda.txStatus
        /\ wda'.suspEvent = wda.suspEvent /\ wda'.timedOut = wda.timedOut
    BY <1>1 DEF McType, WdaType, Sending
  <1>3. Types'
    BY <1>1, <1>2 DEF Types, Sending
  <1> SUFFICES ASSUME ~setup.racing
               PROVE  OnePlace' /\ Tagged' /\ InStep' /\ Suspension' /\ Suspending'
    BY <1>3 DEF WdaIInv
  <1>4. OnePlace /\ Tagged /\ InStep /\ Suspension /\ Suspending
    BY DEF WdaIInv
  <1>5. \A f : /\ InRing(f)' <=> InRing(f)
               /\ InTx(f)' <=> InTx(f)
               /\ WithMc(f)' <=> WithMc(f)
    BY <1>2 DEF InRing, InTx, WithMc
  <1>6. OnePlace'
    BY <1>2, <1>4, <1>5 DEF OnePlace, Sending
  <1>7. Tagged'
    BY <1>2, <1>4, <1>5 DEF Tagged
  <1>8. InStep'
    BY <1>2, <1>4, <1>5 DEF InStep, Completing
  <1>9. Suspension' /\ Suspending'
    BY <1>2, <1>4, SuspensionUnmoved
  <1> QED BY <1>6, <1>7, <1>8, <1>9

LEMMA StorePacketKeeps == WdaIInv /\ StorePacket => WdaIInv'
  <1> SUFFICES ASSUME WdaIInv, StorePacket PROVE WdaIInv'
    OBVIOUS
  <1> USE DEF StorePacket
  <1>1. /\ Types /\ mc \in McType /\ wda \in WdaType /\ frames \in FramesType
        /\ mc.frame \in Frame
    BY DEF WdaIInv, Types, Sending
  <1>2. /\ mc' \in McType /\ mc'.pc = "hand" /\ mc'.frame = mc.frame
        /\ wda' \in WdaType /\ wda'.event = wda.event /\ wda'.txCb = wda.txCb
        /\ wda'.toFree = mc.frame /\ wda'.txStatus = wda.txStatus
        /\ wda'.suspEvent = wda.suspEvent /\ wda'.timedOut = wda.timedOut
        /\ frames' \in FramesType /\ frames'.tag = frames.tag \ {mc.frame}
        /\ frames'.freed = frames.freed /\ frames'.next = frames.next
    BY <1>1 DEF McType, WdaType, FramesType, Sending
  <1>3. Types'
    BY <1>1, <1>2 DEF Types, Sending
  <1> SUFFICES ASSUME ~setup.racing
               PROVE  OnePlace' /\ Tagged' /\ InStep' /\ Suspension' /\ Suspending'
    BY <1>3 DEF WdaIInv
  <1>4. OnePlace /\ Tagged /\ InStep /\ Suspension /\ Suspending
    BY DEF WdaIInv
  <1>5. \A f : /\ InRing(f)' <=> InRing(f)
               /\ InTx(f)' <=> InTx(f)
               /\ WithMc(f)' <=> WithMc(f)
    BY <1>2 DEF InRing, InTx, WithMc
  <1>6. OnePlace'
    BY <1>2, <1>4, <1>5 DEF OnePlace, Sending
  <1>7. Tagged'
    <2>1. WithMc(mc.frame)
      BY DEF WithMc
    <2>2. mc.frame # tl.slot /\ ~InRing(mc.frame) /\ ~InTx(mc.frame)
      BY <2>1, <1>1, <1>4 DEF OnePlace
    <2> QED BY <2>2, <1>1, <1>2, <1>4, <1>5 DEF Tagged
  <1>8. InStep'
    BY <1>2, <1>4, <1>5 DEF InStep, Completing
  <1>9. Suspension' /\ Suspending'
    BY <1>2, <1>4, SuspensionUnmoved
  <1> QED BY <1>6, <1>7, <1>8, <1>9

\* The end of WDA_TxPacket: only what is named here changes.
LEMMA SentFields ==
  ASSUME Types, Sent
  PROVE  /\ mc' \in McType /\ mc'.pc = "idle"
         /\ lim' \in LimType /\ lim'.scan = lim.scan
  <1>1. lim \in LimType /\ mc.ack \in BOOLEAN
    BY Fields DEF Types
  <1> QED BY <1>1 DEF Sent, McType, LimType

LEMMA ForgetFields ==
  ASSUME Types, wda' = ForgetAck([wda EXCEPT !.toFree = None])
  PROVE  /\ wda' \in WdaType /\ wda'.toFree = None /\ wda'.txCb = wda.txCb
         /\ wda'.event = wda.event /\ wda'.txStatus = wda.txStatus
         /\ wda'.suspEvent = wda.suspEvent /\ wda'.timedOut = wda.timedOut
  <1> DEFINE w == [wda EXCEPT !.toFree = None]
  <1>1. w \in WdaType /\ w.toFree = None /\ w.txCb = wda.txCb
        /\ w.event = wda.event /\ w.txStatus = wda.txStatus
        /\ w.suspEvent = wda.suspEvent /\ w.timedOut = wda.timedOut
    BY DEF Types, WdaType
  <1>2. wda' = IF mc.ack THEN [[w EXCEPT !.ackCb = FALSE] EXCEPT !.timer = 0] ELSE w
    BY DEF ForgetAck, StopWdaTimer
  <1> HIDE DEF w
  <1> DEFINE v == [w EXCEPT !.ackCb = FALSE]
  <1>3. v \in WdaType /\ v.toFree = None /\ v.txCb = wda.txCb
        /\ v.event = wda.event /\ v.txStatus = wda.txStatus
        /\ v.suspEvent = wda.suspEvent /\ v.timedOut = wda.timedOut
    BY <1>1 DEF WdaType
  <1>4. wda' = IF mc.ack THEN [v EXCEPT !.timer = 0] ELSE w
    BY <1>2
  <1> HIDE DEF v
  <1>5. CASE ~mc.ack
    BY <1>1, <1>4, <1>5
  <1>6. CASE mc.ack
    <2>1. wda' = [v EXCEPT !.timer = 0]
      BY <1>4, <1>6
    <2> QED BY <1>3, <2>1 DEF WdaType
  <1> QED BY <1>5, <1>6

LEMMA FreeFields ==
  ASSUME Types, NEW f \in Frame, Free(f)
  PROVE  /\ frames' \in FramesType /\ frames'.tag = frames.tag
         /\ frames'.next = frames.next
         /\ frames'.freed[f] = frames.freed[f] + 1
         /\ \A g \in Frame : g # f => frames'.freed[g] = frames.freed[g]
  <1>1. frames \in FramesType /\ frames.freed \in [Frame -> Nat]
    BY Fields DEF Types
  <1> DEFINE h == [frames.freed EXCEPT ![f] = @ + 1]
  <1>2. /\ h \in [Frame -> Nat] /\ h[f] = frames.freed[f] + 1
        /\ \A g \in Frame : g # f => h[g] = frames.freed[g]
    BY <1>1
  <1>3. frames' = [frames EXCEPT !.freed = h]
    BY DEF Free
  <1> HIDE DEF h
  <1>4. /\ frames' \in FramesType /\ frames'.tag = frames.tag
        /\ frames'.next = frames.next /\ frames'.freed = h
    BY <1>1, <1>2, <1>3 DEF FramesType
  <1> QED BY <1>2, <1>4

\* The frame could not be sent: it is freed, and nobody has it any more.
LEMMA RefusedKeeps ==
  ASSUME WdaIInv, Refused, mc.pc \in {"hand", "kick"},
         tl' \in TlType, tl'.suspended = tl.suspended, tl'.asked = tl.asked,
         tl'.slot = IF mc.pc = "kick" THEN None ELSE tl.slot,
         mc.pc = "kick" => setup.racing \/ tl.slot = mc.frame,
         UNCHANGED <<tx, ring, msgs, setup, left>>
  PROVE  WdaIInv'
  <1>1. Types /\ mc.frame \in Frame
    BY DEF WdaIInv, Types, Sending
  <1>2. /\ mc' \in McType /\ mc'.pc = "idle"
        /\ lim' \in LimType /\ lim'.scan = lim.scan
    BY <1>1, SentFields DEF Refused
  <1>3. /\ wda' \in WdaType /\ wda'.toFree = None /\ wda'.txCb = wda.txCb
        /\ wda'.event = wda.event /\ wda'.txStatus = wda.txStatus
        /\ wda'.suspEvent = wda.suspEvent /\ wda'.timedOut = wda.timedOut
    BY <1>1, ForgetFields DEF Refused
  <1>4. /\ frames' \in FramesType /\ frames'.tag = frames.tag
        /\ frames'.next = frames.next
        /\ frames'.freed[mc.frame] = frames.freed[mc.frame] + 1
        /\ \A g \in Frame : g # mc.frame => frames'.freed[g] = frames.freed[g]
    BY <1>1, FreeFields DEF Refused
  <1>5. Types'
    BY <1>1, <1>2, <1>3, <1>4 DEF Types, Sending
  <1> SUFFICES ASSUME ~setup.racing
               PROVE  OnePlace' /\ Tagged' /\ InStep' /\ Suspension' /\ Suspending'
    BY <1>5 DEF WdaIInv
  <1>6. OnePlace /\ Tagged /\ InStep /\ Suspension /\ Suspending
    BY DEF WdaIInv
  <1>7. \A f \in Frame : /\ InRing(f)' <=> InRing(f)
                         /\ InTx(f)' <=> InTx(f)
                         /\ ~WithMc(f)'
                         /\ f = tl'.slot => f = tl.slot
    BY <1>2, SetupType DEF InRing, InTx, WithMc
  \* The frame was here or with TL, and is now nowhere.
  <1>8. /\ mc.frame # tl'.slot /\ ~InRing(mc.frame) /\ ~InTx(mc.frame)
        /\ frames.freed[mc.frame] = 0 /\ mc.frame < frames.next
    <2>1. mc.frame = tl.slot \/ WithMc(mc.frame)
      BY <1>6 DEF Tagged, WithMc
    <2>2. mc.frame \in Nat /\ frames.next \in Nat /\ mc.frame # None
      BY <1>1, SetupType, Fields
    <2> QED BY <1>1, <1>6, <2>1, <2>2 DEF OnePlace, WithMc, Sending
  <1>9. OnePlace'
    <2>1. \A i, j \in 1 .. Len(ring') : ring'[i] = ring'[j] => i = j
      BY <1>6 DEF OnePlace
    <2>2. mc'.pc \notin Sending
      BY <1>2 DEF Sending
    <2>3. \A f \in Frame : f \in Nat /\ frames.next \in Nat
      BY <1>1, SetupType, Fields
    <2> QED BY <1>1, <1>4, <1>6, <1>7, <1>8, <2>1, <2>2, <2>3 DEF OnePlace
  <1>10. Tagged'
    BY <1>1, <1>2, <1>4, <1>6, <1>7, <1>8 DEF Tagged
  <1>11. InStep'
    <2>1. ~wda.event
      BY <1>6, <1>8 DEF InStep
    <2>2. tx.pc \notin Completing
      <3>1. tx.pc \in Completing => tx.frame = mc.frame
        BY <1>6 DEF InStep
      <3>2. tx.pc = "freed" => frames.freed[tx.frame] = 1
        BY <1>6 DEF InStep
      <3> QED BY <1>8, <3>1, <3>2 DEF InTx, Completing
    <2> QED BY <1>2, <1>3, <1>6, <2>1, <2>2 DEF InStep, Completing
  <1>12. Suspension' /\ Suspending'
    BY <1>2, <1>3, <1>6, SuspensionUnmoved
  <1> QED BY <1>9, <1>10, <1>11, <1>12

LEMMA HandToTlKeeps == WdaIInv /\ HandToTl => WdaIInv'
  <1> SUFFICES ASSUME WdaIInv, HandToTl PROVE WdaIInv'
    OBVIOUS
  <1>1. Types /\ mc \in McType /\ mc.frame \in Frame /\ tl \in TlType /\ mc.pc = "hand"
    BY DEF WdaIInv, Types, Sending, HandToTl
  <1>2. CASE tl.slot # None
    BY <1>1, <1>2, RefusedKeeps DEF HandToTl
  <1>3. CASE tl.slot = None
    <2>1. /\ mc' \in McType /\ mc'.pc = "kick" /\ mc'.frame = mc.frame
          /\ tl' \in TlType /\ tl'.slot = mc.frame /\ tl'.asked = tl.asked
          /\ tl'.suspended = tl.suspended
          /\ UNCHANGED <<wda, lim, frames, tx, ring, msgs, setup, left>>
      BY <1>1, <1>3 DEF HandToTl, McType, TlType, Sending
    <2>2. Types'
      BY <1>1, <2>1 DEF Types, Sending
    <2> SUFFICES ASSUME ~setup.racing
                 PROVE  OnePlace' /\ Tagged' /\ InStep' /\ Suspension' /\ Suspending'
      BY <2>1, <2>2 DEF WdaIInv
    <2>3. OnePlace /\ Tagged /\ InStep /\ Suspension /\ Suspending
      BY DEF WdaIInv
    <2>4. \A f : /\ InRing(f)' <=> InRing(f)
                 /\ InTx(f)' <=> InTx(f)
                 /\ ~WithMc(f)'
      BY <2>1 DEF InRing, InTx, WithMc
    <2>5. /\ ~InRing(mc.frame) /\ ~InTx(mc.frame)
          /\ frames.freed[mc.frame] = 0 /\ ~(mc.frame >= frames.next)
      <3>1. WithMc(mc.frame)
        BY <1>1 DEF WithMc
      <3> QED BY <1>1, <2>3, <3>1 DEF OnePlace, Sending
    <2>6. OnePlace'
      BY <1>1, <2>1, <2>3, <2>4, <2>5 DEF OnePlace, Sending
    <2>7. Tagged'
      BY <1>1, <1>3, SetupType, <2>1, <2>3, <2>4 DEF Tagged
    <2>8. InStep'
      BY <1>1, <2>1, <2>3, <2>4 DEF InStep, Completing
    <2>9. Suspension' /\ Suspending'
      BY <1>1, <2>1, <2>3, SuspensionUnmoved
    <2> QED BY <2>6, <2>7, <2>8, <2>9
  <1> QED BY <1>2, <1>3

LEMMA KickKeeps == WdaIInv /\ Kick => WdaIInv'
  <1> SUFFICES ASSUME WdaIInv, Kick PROVE WdaIInv'
    OBVIOUS
  <1>1. Types /\ mc \in McType /\ mc.frame \in Frame /\ tl \in TlType /\ mc.pc = "kick"
    BY DEF WdaIInv, Types, Sending, Kick
  <1>2. CASE /\ tl' = [tl EXCEPT !.slot = None] /\ Refused
             /\ setup.racing \/ tl.slot = mc.frame
    <2>1. tl' \in TlType /\ tl'.slot = None /\ tl'.asked = tl.asked
          /\ tl'.suspended = tl.suspended
      BY <1>1, <1>2 DEF TlType
    <2>2. UNCHANGED <<tx, ring, msgs, setup, left>>
      BY DEF Kick
    <2> QED BY <1>1, <1>2, <2>1, <2>2, RefusedKeeps
  <1>3. CASE mc' = [mc EXCEPT !.pc = "wait"] /\ UNCHANGED <<wda, lim, tl, frames>>
    <2>1. /\ mc' \in McType /\ mc'.pc = "wait" /\ mc'.frame = mc.frame
          /\ UNCHANGED <<wda, lim, tl, frames, tx, ring, msgs, setup, left>>
      BY <1>1, <1>3 DEF Kick, McType, Sending
    <2>2. Types'
      BY <1>1, <2>1 DEF Types, Sending
    <2> SUFFICES ASSUME ~setup.racing
                 PROVE  OnePlace' /\ Tagged' /\ InStep' /\ Suspension' /\ Suspending'
      BY <2>1, <2>2 DEF WdaIInv
    <2>3. OnePlace /\ Tagged /\ InStep /\ Suspension /\ Suspending
      BY DEF WdaIInv
    <2>4. \A f : /\ InRing(f)' <=> InRing(f)
                 /\ InTx(f)' <=> InTx(f)
                 /\ ~WithMc(f)'
      BY <2>1 DEF InRing, InTx, WithMc
    <2>6. OnePlace'
      BY <1>1, <2>1, <2>3, <2>4 DEF OnePlace, Sending
    <2>7. Tagged'
      BY <1>1, <2>1, <2>3, <2>4 DEF Tagged
    <2>8. InStep'
      BY <1>1, <2>1, <2>3, <2>4 DEF InStep, Completing, Tagged
    <2>9. Suspension' /\ Suspending'
      BY <1>1, <2>1, <2>3, SuspensionUnmoved
    <2> QED BY <2>6, <2>7, <2>8, <2>9
  <1> QED BY <1>2, <1>3 DEF Kick

LEMMA FrameEventKeeps == WdaIInv /\ FrameEvent => WdaIInv'
  <1> SUFFICES ASSUME WdaIInv, FrameEvent PROVE WdaIInv'
    OBVIOUS
  <1>1. Types /\ mc.frame \in Frame /\ mc.pc = "wait" /\ wda.event
    BY DEF WdaIInv, Types, Sending, FrameEvent
  <1>2. /\ mc' \in McType /\ mc'.pc = "idle"
        /\ lim' \in LimType /\ lim'.scan = lim.scan
    BY <1>1, SentFields DEF FrameEvent
  <1>3. /\ wda' \in WdaType /\ wda'.event = FALSE /\ wda'.txCb = wda.txCb
        /\ wda'.toFree = wda.toFree /\ wda'.txStatus = wda.txStatus
        /\ wda'.suspEvent = wda.suspEvent /\ wda'.timedOut = wda.timedOut
        /\ UNCHANGED <<tl, tx, ring, frames, msgs, setup, left>>
    BY <1>1 DEF FrameEvent, WdaType, Types
  <1>4. Types'
    BY <1>1, <1>2, <1>3 DEF Types, Sending
  <1> SUFFICES ASSUME ~setup.racing
               PROVE  OnePlace' /\ Tagged' /\ InStep' /\ Suspension' /\ Suspending'
    BY <1>3, <1>4 DEF WdaIInv
  <1>5. OnePlace /\ Tagged /\ InStep /\ Suspension /\ Suspending
    BY DEF WdaIInv
  <1>6. \A f : /\ InRing(f)' <=> InRing(f)
               /\ InTx(f)' <=> InTx(f)
               /\ ~WithMc(f)'
    BY <1>2, <1>3 DEF InRing, InTx, WithMc
  <1>7. OnePlace'
    BY <1>2, <1>3, <1>5, <1>6 DEF OnePlace, Sending
  <1>8. Tagged'
    <2>1. mc.frame # tl.slot /\ ~InRing(mc.frame) /\ ~InTx(mc.frame)
      BY <1>1, <1>5 DEF OnePlace, InStep
    <2> QED BY <1>1, <1>2, <1>3, <1>5, <1>6, <2>1 DEF Tagged
  <1>9. InStep'
    BY <1>1, <1>2, <1>3, <1>5 DEF InStep
  <1>10. Suspension' /\ Suspending'
    BY <1>1, <1>2, <1>3, <1>5, SuspensionUnmoved
  <1> QED BY <1>7, <1>8, <1>9, <1>10

LEMMA FrameTimeoutKeeps == WdaIInv /\ FrameTimeout => WdaIInv'
  <1> SUFFICES ASSUME WdaIInv, FrameTimeout PROVE WdaIInv'
    OBVIOUS
  <1>1. Types /\ mc.frame \in Frame /\ mc.pc = "wait" /\ ~wda.event
        /\ mc \in McType /\ wda \in WdaType
    BY DEF WdaIInv, Types, Sending, FrameTimeout
  <1>2. /\ mc' \in McType /\ mc'.pc = "noCallback" /\ mc'.frame = mc.frame
        /\ wda' \in WdaType /\ wda'.event = wda.event
        /\ wda'.toFree = wda.toFree /\ wda'.txStatus = wda.txStatus
        /\ wda'.suspEvent = wda.suspEvent /\ wda'.timedOut = wda.timedOut
        /\ UNCHANGED <<lim, tl, tx, ring, frames, msgs, setup, left>>
    BY <1>1 DEF FrameTimeout, WdaType, McType, Sending
  <1>4. Types'
    BY <1>1, <1>2 DEF Types, Sending
  <1> SUFFICES ASSUME ~setup.racing
               PROVE  OnePlace' /\ Tagged' /\ InStep' /\ Suspension' /\ Suspending'
    BY <1>2, <1>4 DEF WdaIInv
  <1>5. OnePlace /\ Tagged /\ InStep /\ Suspension /\ Suspending
    BY DEF WdaIInv
  <1>6. \A f : /\ InRing(f)' <=> InRing(f)
               /\ InTx(f)' <=> InTx(f)
               /\ ~WithMc(f)'
    BY <1>2 DEF InRing, InTx, WithMc
  <1>7. OnePlace'
    BY <1>1, <1>2, <1>5, <1>6 DEF OnePlace, Sending
  <1>8. Tagged'
    BY <1>1, <1>2, <1>5, <1>6 DEF Tagged
  <1>9. InStep'
    BY <1>1, <1>2, <1>5 DEF InStep, FrameTimeout, InTxComplete, Completing
  <1>10. Suspension' /\ Suspending'
    BY <1>1, <1>2, <1>5, SuspensionUnmoved
  <1> QED BY <1>7, <1>8, <1>9, <1>10

LEMMA TagFrameKeeps == WdaIInv /\ TagFrame => WdaIInv'
  <1> SUFFICES ASSUME WdaIInv, TagFrame PROVE WdaIInv'
    OBVIOUS
  <1>1. Types /\ mc.frame \in Frame /\ mc.pc = "noCallback"
        /\ mc \in McType /\ frames \in FramesType
    BY DEF WdaIInv, Types, Sending, TagFrame
  <1>2. /\ mc' \in McType /\ mc'.pc = "tagging" /\ mc'.frame = mc.frame
        /\ frames' \in FramesType /\ frames'.tag = frames.tag \cup {mc.frame}
        /\ frames'.freed = frames.freed /\ frames'.next = frames.next
        /\ UNCHANGED <<wda, lim, tl, tx, ring, msgs, setup, left>>
    BY <1>1 DEF TagFrame, FramesType, McType, Sending
  <1>4. Types'
    BY <1>1, <1>2 DEF Types, Sending
  <1> SUFFICES ASSUME ~setup.racing
               PROVE  OnePlace' /\ Tagged' /\ InStep' /\ Suspension' /\ Suspending'
    BY <1>2, <1>4 DEF WdaIInv
  <1>5. OnePlace /\ Tagged /\ InStep /\ Suspension /\ Suspending
    BY DEF WdaIInv
  <1>6. \A f : /\ InRing(f)' <=> InRing(f)
               /\ InTx(f)' <=> InTx(f)
               /\ ~WithMc(f)'
    BY <1>2 DEF InRing, InTx, WithMc
  <1>7. OnePlace'
    BY <1>1, <1>2, <1>5, <1>6 DEF OnePlace, Sending
  <1>8. Tagged'
    BY <1>1, <1>2, <1>5, <1>6 DEF Tagged
  <1>9. InStep'
    BY <1>1, <1>2, <1>5 DEF InStep
  <1>10. Suspension' /\ Suspending'
    BY <1>1, <1>2, <1>5, SuspensionUnmoved
  <1> QED BY <1>7, <1>8, <1>9, <1>10

LEMMA GiveUpFrameKeeps == WdaIInv /\ GiveUpFrame => WdaIInv'
  <1> SUFFICES ASSUME WdaIInv, GiveUpFrame PROVE WdaIInv'
    OBVIOUS
  <1>1. Types /\ mc.frame \in Frame /\ mc.pc = "tagging"
    BY DEF WdaIInv, Types, Sending, GiveUpFrame
  <1>2. /\ mc' \in McType /\ mc'.pc = "idle"
        /\ lim' \in LimType /\ lim'.scan = lim.scan
        /\ UNCHANGED <<tl, tx, ring, frames, msgs, setup, left>>
    BY <1>1, SentFields DEF GiveUpFrame
  <1>3. /\ wda' \in WdaType /\ wda'.toFree = None /\ wda'.txCb = wda.txCb
        /\ wda'.event = wda.event /\ wda'.txStatus = wda.txStatus
        /\ wda'.suspEvent = wda.suspEvent /\ wda'.timedOut = wda.timedOut
    BY <1>1, ForgetFields DEF GiveUpFrame
  <1>4. Types'
    BY <1>1, <1>2, <1>3 DEF Types, Sending
  <1> SUFFICES ASSUME ~setup.racing
               PROVE  OnePlace' /\ Tagged' /\ InStep' /\ Suspension' /\ Suspending'
    BY <1>2, <1>4 DEF WdaIInv
  <1>5. OnePlace /\ Tagged /\ InStep /\ Suspension /\ Suspending
    BY DEF WdaIInv
  <1>6. \A f : /\ InRing(f)' <=> InRing(f)
               /\ InTx(f)' <=> InTx(f)
               /\ ~WithMc(f)'
    BY <1>2 DEF InRing, InTx, WithMc
  <1>7. OnePlace'
    BY <1>1, <1>2, <1>5, <1>6 DEF OnePlace, Sending
  <1>8. Tagged'
    BY <1>1, <1>2, <1>3, <1>5, <1>6 DEF Tagged
  <1>9. InStep'
    BY <1>1, <1>2, <1>3, <1>5 DEF InStep
  <1>10. Suspension' /\ Suspending'
    BY <1>1, <1>2, <1>3, <1>5, SuspensionUnmoved
  <1> QED BY <1>7, <1>8, <1>9, <1>10

-----------------------------------------------------------------------------
(***************************************************************************)
(* The TX thread sends and completes the frames.                           *)
(***************************************************************************)
LEMMA FetchKeeps == WdaIInv /\ Fetch => WdaIInv'
  <1> SUFFICES ASSUME WdaIInv, Fetch PROVE WdaIInv'
    OBVIOUS
  <1>1. Types /\ tl \in TlType /\ frames \in FramesType /\ ring \in Seq(Frame)
    BY DEF WdaIInv, Types
  <1>2. tl.slot \in Frame
    BY <1>1 DEF Fetch, TlType
  <1>3. /\ tl' \in TlType /\ tl'.slot = None /\ tl'.asked = tl.asked
        /\ tl'.suspended = tl.suspended
        /\ UNCHANGED <<mc, wda, lim, tx, msgs, setup, left>>
    BY <1>1 DEF Fetch, TlType
  <1>4. frames' \in FramesType /\ frames'.tag = frames.tag
        /\ frames'.freed = frames.freed /\ frames'.next = frames.next
    <2>1. frames.air \cup ({tl.slot} \cap frames.ack) \in SUBSET Frame
      BY <1>1, <1>2, Fields
    <2>2. frames' = [frames EXCEPT !.air = frames.air \cup ({tl.slot} \cap frames.ack)]
      BY DEF Fetch
    <2> QED BY <1>1, <2>1, <2>2 DEF FramesType
  <1>5. ring' \in Seq(Frame) /\ ring' = Append(ring, tl.slot)
    BY <1>1, <1>2, AppendRing DEF Fetch
  <1>6. Types'
    BY <1>1, <1>3, <1>4, <1>5 DEF Types
  <1> SUFFICES ASSUME ~setup.racing
               PROVE  OnePlace' /\ Tagged' /\ InStep' /\ Suspension' /\ Suspending'
    BY <1>3, <1>6 DEF WdaIInv
  <1>7. OnePlace /\ Tagged /\ InStep /\ Suspension /\ Suspending
    BY DEF WdaIInv
  <1>8. \A f : /\ InRing(f)' <=> InRing(f) \/ f = tl.slot
               /\ InTx(f)' <=> InTx(f)
               /\ WithMc(f)' <=> WithMc(f)
    BY <1>1, <1>2, <1>3, <1>5, AppendRing DEF InRing, InTx, WithMc
  <1>9. OnePlace'
    <2>1. \A i, j \in 1 .. Len(ring') : ring'[i] = ring'[j] => i = j
      <3>1. ~(\E i \in 1 .. Len(ring) : ring[i] = tl.slot)
        BY <1>2, <1>7 DEF OnePlace, InRing
      <3>2. \A i, j \in 1 .. Len(ring) : ring[i] = ring[j] => i = j
        BY <1>7 DEF OnePlace
      <3> QED BY <3>1, <3>2, <1>1, <1>2, <1>5, AppendRing
    <2> QED BY <2>1, <1>2, <1>3, <1>4, <1>7, <1>8, SetupType DEF OnePlace
  <1>10. Tagged'
    BY <1>2, <1>3, <1>4, <1>7, <1>8, SetupType DEF Tagged, Fetch
  <1>11. InStep'
    BY <1>2, <1>3, <1>4, <1>7, <1>8 DEF InStep
  <1>12. Suspension' /\ Suspending'
    BY <1>3, <1>7, SuspensionUnmoved
  <1> QED BY <1>9, <1>10, <1>11, <1>12

LEMMA TxCompleteKeeps == WdaIInv /\ TxComplete => WdaIInv'
  <1> SUFFICES ASSUME WdaIInv, TxComplete PROVE WdaIInv'
    OBVIOUS
  <1> DEFINE h == Head(ring)
  <1>1. /\ Types /\ ring \in Seq(Frame) /\ ring # <<>> /\ tx.pc = "idle"
        /\ ring' = Tail(ring) /\ UNCHANGED <<mc, wda, lim, tl, msgs, setup, left>>
    BY DEF WdaIInv, Types, TxComplete
  <1>2. ring' \in Seq(Frame) /\ h \in Frame /\ InRing(h)
    BY <1>1, TailRing DEF InRing
  <1>3. \/ /\ h \in frames.tag /\ Free(h) /\ UNCHANGED tx
        \/ /\ h \notin frames.tag /\ UNCHANGED frames
           /\ tx' \in TxType /\ tx'.pc = "tagged" /\ tx'.frame = h
    BY <1>2 DEF TxComplete, TxType, Completing
  <1>t. \/ /\ h \in frames.tag /\ frames' \in FramesType /\ frames'.tag = frames.tag
           /\ frames'.next = frames.next
           /\ frames'.freed[h] = frames.freed[h] + 1
           /\ \A g \in Frame : g # h => frames'.freed[g] = frames.freed[g]
           /\ UNCHANGED tx
        \/ /\ h \notin frames.tag /\ UNCHANGED frames
           /\ tx' \in TxType /\ tx'.pc = "tagged" /\ tx'.frame = h
    BY <1>1, <1>2, <1>3, FreeFields
  <1> HIDE DEF h
  <1>4. Types'
    BY <1>1, <1>2, <1>t DEF Types, Completing
  <1> SUFFICES ASSUME ~setup.racing
               PROVE  OnePlace' /\ Tagged' /\ InStep' /\ Suspension' /\ Suspending'
    BY <1>1, <1>4 DEF WdaIInv
  <1>5. OnePlace /\ Tagged /\ InStep /\ Suspension /\ Suspending
    BY DEF WdaIInv
  <1>6. \A i, j \in 1 .. Len(ring) : ring[i] = ring[j] => i = j
    BY <1>5 DEF OnePlace
  <1>7. /\ \A i, j \in 1 .. Len(ring') : ring'[i] = ring'[j] => i = j
        /\ \A f : /\ InRing(f)' <=> InRing(f) /\ f # h
                  /\ WithMc(f)' <=> WithMc(f)
                  /\ ~InTx(f)
    <2>1. /\ \A i, j \in 1 .. Len(ring') : ring'[i] = ring'[j] => i = j
          /\ \A f : (\E i \in 1 .. Len(ring') : ring'[i] = f)
                  <=> (\E i \in 1 .. Len(ring) : ring[i] = f) /\ f # h
      <3>1. /\ \A i, j \in 1 .. Len(Tail(ring)) : Tail(ring)[i] = Tail(ring)[j] => i = j
            /\ \A f : (\E i \in 1 .. Len(Tail(ring)) : Tail(ring)[i] = f)
                    <=> (\E i \in 1 .. Len(ring) : ring[i] = f) /\ f # Head(ring)
        <4>1. ring \in Seq(Frame) /\ ring # <<>>
          BY <1>1
        <4> QED BY <4>1, <1>6, TailRing
      <3> QED BY <3>1, <1>1 DEF h
    <2>2. \A f : InRing(f)' <=> InRing(f) /\ f # h
      BY <2>1 DEF InRing
    <2>3. \A f : (WithMc(f)' <=> WithMc(f)) /\ ~InTx(f)
      BY <1>1 DEF WithMc, InTx
    <2> QED BY <2>1, <2>2, <2>3
  <1>8. frames.freed[h] = 0 /\ h # tl.slot /\ ~WithMc(h) /\ h \in Nat
        /\ frames.next \in Nat /\ h < frames.next
    <2>1. h \in Nat /\ frames.next \in Nat
      BY <1>1, <1>2, Fields, SetupType
    <2>2. frames.freed[h] = 0 /\ h # tl.slot /\ ~WithMc(h) /\ ~(h >= frames.next)
      BY <1>2, <1>5 DEF OnePlace
    <2> QED BY <2>1, <2>2
  <1>9. CASE h \in frames.tag
    <2>1. /\ UNCHANGED tx /\ frames' \in FramesType /\ frames'.tag = frames.tag
          /\ frames'.next = frames.next /\ frames'.freed[h] = 1
          /\ \A g \in Frame : g # h => frames'.freed[g] = frames.freed[g]
      BY <1>t, <1>8, <1>9
    <2>2. \A f : ~InTx(f)'
      BY <1>7, <2>1 DEF InTx
    <2>3. \A f \in Frame : f \in Nat
      BY SetupType
    <2>4. OnePlace'
      BY <1>1, <1>2, <1>5, <1>7, <1>8, <2>1, <2>2, <2>3 DEF OnePlace
    <2>5. Tagged'
      BY <1>1, <1>2, <1>5, <1>7, <1>8, <2>1, <2>2 DEF Tagged
    <2>6. InStep'
      <3>1. mc.pc \in Sending => mc.frame \in Frame
        BY <1>1 DEF Types
      <3>2. mc.pc \in {"hand", "kick", "wait"} => mc.frame # h
        BY <1>5, <1>9 DEF Tagged
      <3>3. \A f \in Frame : frames'.freed[f] = frames.freed[f] \/ f = h
        BY <2>1
      <3> QED BY <1>1, <1>2, <1>5, <1>7, <2>1, <2>2, <3>1, <3>2, <3>3
          DEF InStep, Completing, Sending
    <2>7. Suspension' /\ Suspending'
      BY <1>1, <1>5, <2>1, SuspensionUnmoved
    <2> QED BY <2>4, <2>5, <2>6, <2>7
  \* A frame that has not been given up is the one the MC thread waits for.
  <1>10. CASE h \notin frames.tag
    <2>1. /\ UNCHANGED frames /\ tx'.pc = "tagged" /\ tx'.frame = h
      BY <1>t, <1>10
    <2>2. h = mc.frame /\ mc.pc \in {"kick", "wait"}
      BY <1>1, <1>2, <1>5, <1>8, <1>10 DEF Tagged, TxComplete, GivingUpFrame
    <2>3. \A f : InTx(f)' <=> f = h
      BY <2>1 DEF InTx
    <2>4. OnePlace'
      BY <1>1, <1>2, <1>5, <1>7, <1>8, <2>1, <2>3 DEF OnePlace
    <2>5. Tagged'
      BY <1>1, <1>2, <1>5, <1>7, <1>8, <2>1, <2>2, <2>3 DEF Tagged
    <2>6. InStep'
      BY <1>1, <1>2, <1>5, <1>7, <1>8, <2>1, <2>2, <2>3 DEF InStep, Completing
    <2>7. Suspension' /\ Suspending'
      BY <1>1, <1>5, <2>1, SuspensionUnmoved
    <2> QED BY <2>4, <2>5, <2>6, <2>7
  <1> QED BY <1>9, <1>10

LEMMA LookForCallbackKeeps == WdaIInv /\ LookForCallback => WdaIInv'
  <1> SUFFICES ASSUME WdaIInv, LookForCallback PROVE WdaIInv'
    OBVIOUS
  <1>1. Types /\ tx \in TxType /\ tx.pc = "tagged" /\ tx.frame \in Frame
    BY DEF WdaIInv, Types, LookForCallback, Completing
  <1>2. /\ tx' \in TxType /\ tx'.pc = (IF wda.txCb THEN "called" ELSE "freed")
        /\ tx'.frame = tx.frame
        /\ UNCHANGED <<mc, wda, lim, tl, ring, frames, msgs, setup, left>>
    BY <1>1 DEF LookForCallback, TxType, Completing
  <1>3. Types'
    BY <1>1, <1>2 DEF Types, Completing
  <1> SUFFICES ASSUME ~setup.racing
               PROVE  OnePlace' /\ Tagged' /\ InStep' /\ Suspension' /\ Suspending'
    BY <1>2, <1>3 DEF WdaIInv
  <1>4. OnePlace /\ Tagged /\ InStep /\ Suspension /\ Suspending
    BY DEF WdaIInv
  <1>5. wda.txCb /\ tx'.pc = "called"
    BY <1>1, <1>2, <1>4 DEF InStep, Tagged, Completing
  <1>6. \A f : /\ InRing(f)' <=> InRing(f)
               /\ InTx(f)' <=> InTx(f)
               /\ WithMc(f)' <=> WithMc(f)
    BY <1>1, <1>2, <1>5 DEF InRing, InTx, WithMc
  <1>7. OnePlace'
    BY <1>2, <1>4, <1>6 DEF OnePlace
  <1>8. Tagged'
    BY <1>2, <1>4, <1>6 DEF Tagged
  <1>9. InStep'
    BY <1>1, <1>2, <1>4, <1>5, <1>6 DEF InStep, Completing
  <1>10. Suspension' /\ Suspending'
    BY <1>1, <1>2, <1>4, <1>5, SuspensionUnmoved
  <1> QED BY <1>7, <1>8, <1>9, <1>10

LEMMA ClaimPacketKeeps == WdaIInv /\ ClaimPacket => WdaIInv'
  <1> SUFFICES ASSUME WdaIInv, ClaimPacket PROVE WdaIInv'
    OBVIOUS
  <1>1. /\ Types /\ tx \in TxType /\ tx.pc = "called" /\ tx.frame \in Frame
        /\ wda \in WdaType
    BY DEF WdaIInv, Types, ClaimPacket, Completing
  <1>2. /\ tx' \in TxType
        /\ \/ wda.toFree = tx.frame /\ tx'.pc = "swapped" /\ tx'.frame = tx.frame
           \/ wda.toFree # tx.frame /\ tx'.pc = "idle" /\ tx'.frame = None
        /\ UNCHANGED <<mc, lim, tl, ring, frames, msgs, setup, left>>
    BY <1>1 DEF ClaimPacket, TxType, Completing
  <1>3. /\ wda' \in WdaType /\ wda'.toFree = None /\ wda'.txCb = wda.txCb
        /\ wda'.event = wda.event /\ wda'.txStatus = wda.txStatus
        /\ wda'.suspEvent = wda.suspEvent /\ wda'.timedOut = wda.timedOut
    BY <1>1 DEF ClaimPacket, WdaType
  <1>4. Types'
    BY <1>1, <1>2, <1>3 DEF Types, Completing
  <1> SUFFICES ASSUME ~setup.racing
               PROVE  OnePlace' /\ Tagged' /\ InStep' /\ Suspension' /\ Suspending'
    BY <1>2, <1>4 DEF WdaIInv
  <1>5. OnePlace /\ Tagged /\ InStep /\ Suspension /\ Suspending
    BY DEF WdaIInv
  \* The frame it completes is the one to be freed.
  <1>6. wda.toFree = tx.frame
    <2>1. InTx(tx.frame)
      BY <1>1 DEF InTx
    <2>2. frames.freed[tx.frame] = 0
      BY <1>1, <1>5, <2>1 DEF OnePlace
    <2> QED BY <1>1, <1>5, <2>2 DEF InStep, Completing
  <1>7. tx'.pc = "swapped" /\ tx'.frame = tx.frame
    BY <1>2, <1>6
  <1>8. \A f : /\ InRing(f)' <=> InRing(f)
               /\ InTx(f)' <=> InTx(f)
               /\ WithMc(f)' <=> WithMc(f)
    BY <1>1, <1>2, <1>7 DEF InRing, InTx, WithMc
  <1>9. OnePlace'
    BY <1>2, <1>5, <1>8 DEF OnePlace
  <1>10. Tagged'
    BY <1>2, <1>3, <1>5, <1>8 DEF Tagged
  <1>11. InStep'
    BY <1>1, <1>2, <1>3, <1>5, <1>7, <1>8 DEF InStep, Completing
  <1>12. Suspension' /\ Suspending'
    BY <1>1, <1>2, <1>3, <1>5, <1>7, SuspensionUnmoved
  <1> QED BY <1>9, <1>10, <1>11, <1>12

LEMMA CallTxCompleteKeeps == WdaIInv /\ CallTxComplete => WdaIInv'
  <1> SUFFICES ASSUME WdaIInv, CallTxComplete PROVE WdaIInv'
    OBVIOUS
  <1>1. /\ Types /\ tx \in TxType /\ tx.pc = "swapped" /\ tx.frame \in Frame
        /\ UNCHANGED <<mc, wda, lim, tl, ring, msgs, setup, left>>
    BY DEF WdaIInv, Types, CallTxComplete, Completing
  <1>2. /\ tx' \in TxType /\ tx'.frame = tx.frame
        /\ \/ wda.txCb /\ tx'.pc = "freed" /\ Free(tx.frame)
           \/ ~wda.txCb /\ tx'.pc = "crashed" /\ UNCHANGED frames
    BY <1>1 DEF CallTxComplete, TxType, Completing
  <1>3. /\ frames' \in FramesType /\ frames'.tag = frames.tag
        /\ frames'.next = frames.next
        /\ wda.txCb =>
             /\ frames'.freed[tx.frame] = frames.freed[tx.frame] + 1
             /\ \A g \in Frame : g # tx.frame => frames'.freed[g] = frames.freed[g]
    <2>1. frames \in FramesType
      BY <1>1 DEF Types
    <2> QED BY <2>1, <1>1, <1>2, FreeFields
  <1>4. Types'
    BY <1>1, <1>2, <1>3 DEF Types, Completing
  <1> SUFFICES ASSUME ~setup.racing
               PROVE  OnePlace' /\ Tagged' /\ InStep' /\ Suspension' /\ Suspending'
    BY <1>1, <1>4 DEF WdaIInv
  <1>5. OnePlace /\ Tagged /\ InStep /\ Suspension /\ Suspending
    BY DEF WdaIInv
  <1>6. InTx(tx.frame) /\ mc.pc \in {"kick", "wait"} /\ tx.frame = mc.frame /\ wda.txCb
    BY <1>1, <1>5 DEF InTx, InStep, Tagged, Completing
  <1>7. /\ frames.freed[tx.frame] = 0 /\ tx.frame # tl.slot /\ ~InRing(tx.frame)
        /\ ~WithMc(tx.frame) /\ ~(tx.frame >= frames.next)
    BY <1>1, <1>5, <1>6 DEF OnePlace
  <1>8. tx'.pc = "freed" /\ frames'.freed[tx.frame] = 1
    BY <1>2, <1>3, <1>6, <1>7
  <1>9. \A f : /\ InRing(f)' <=> InRing(f)
               /\ ~InTx(f)'
               /\ WithMc(f)' <=> WithMc(f)
    BY <1>1, <1>8 DEF InRing, InTx, WithMc
  <1>10. OnePlace'
    BY <1>1, <1>3, <1>5, <1>6, <1>7, <1>8, <1>9 DEF OnePlace
  <1>11. Tagged'
    BY <1>1, <1>3, <1>5, <1>9 DEF Tagged
  <1>12. InStep'
    BY <1>1, <1>2, <1>3, <1>5, <1>6, <1>8 DEF InStep, Completing
  <1>13. Suspension' /\ Suspending'
    BY <1>1, <1>5, <1>8, SuspensionUnmoved
  <1> QED BY <1>10, <1>11, <1>12, <1>13

LEMMA SetFrameEventKeeps == WdaIInv /\ SetFrameEvent => WdaIInv'
  <1> SUFFICES ASSUME WdaIInv, SetFrameEvent PROVE WdaIInv'
    OBVIOUS
  <1>1. /\ Types /\ tx.pc = "freed" /\ wda \in WdaType
        /\ UNCHANGED <<mc, lim, tl, ring, frames, msgs, setup, left>>
    BY DEF WdaIInv, Types, SetFrameEvent
  <1>2. /\ tx' \in TxType /\ tx'.pc = "idle" /\ tx'.frame = None
        /\ wda' \in WdaType /\ wda'.event /\ wda'.txCb = wda.txCb
        /\ wda'.toFree = wda.toFree /\ wda'.txStatus = wda.txStatus
        /\ wda'.suspEvent = wda.suspEvent /\ wda'.timedOut = wda.timedOut
    BY <1>1 DEF SetFrameEvent, WdaType, TxType
  <1>3. Types'
    BY <1>1, <1>2 DEF Types, Completing
  <1> SUFFICES ASSUME ~setup.racing
               PROVE  OnePlace' /\ Tagged' /\ InStep' /\ Suspension' /\ Suspending'
    BY <1>1, <1>3 DEF WdaIInv
  <1>4. OnePlace /\ Tagged /\ InStep /\ Suspension /\ Suspending
    BY DEF WdaIInv
  <1>5. \A f : /\ InRing(f)' <=> InRing(f)
               /\ InTx(f)' <=> InTx(f)
               /\ WithMc(f)' <=> WithMc(f)
    BY <1>1, <1>2 DEF InRing, InTx, WithMc
  <1>6. OnePlace'
    BY <1>1, <1>4, <1>5 DEF OnePlace
  <1>7. Tagged'
    BY <1>1, <1>2, <1>4, <1>5 DEF Tagged
  <1>8. InStep'
    BY <1>1, <1>2, <1>4 DEF InStep, Completing
  <1>9. Suspension' /\ Suspending'
    BY <1>1, <1>2, <1>4, SuspensionUnmoved
  <1> QED BY <1>6, <1>7, <1>8, <1>9

-----------------------------------------------------------------------------
(***************************************************************************)
(* A scan suspends the data.                                               *)
(***************************************************************************)
LEMMA InitScanKeeps == WdaIInv /\ InitScan => WdaIInv'
  <1> SUFFICES ASSUME WdaIInv, InitScan PROVE WdaIInv'
    OBVIOUS
  <1>1. /\ Types /\ mc \in McType /\ wda \in WdaType /\ tl \in TlType
        /\ mc.pc = "idle" /\ lim.scan = "none"
        /\ UNCHANGED <<lim, tx, ring, frames, msgs, setup>>
    BY DEF WdaIInv, Types, InitScan, Spend
  <1>2. /\ left' \in LeftType /\ left'.plain = left.plain
        /\ left'.requests = left.requests
    <2>1. left \in LeftType /\ left.scans > 0
          /\ left' = [left EXCEPT !.scans = left.scans - 1]
      BY <1>1 DEF InitScan, Spend, Types
    <2> QED BY <2>1 DEF LeftType
  \* Data that is suspended is not asked to be suspended again.
  <1>3. \/ /\ UNCHANGED <<mc, tl>> /\ (wda.timedOut \/ tl.suspended)
        \/ /\ ~wda.timedOut /\ ~tl.suspended /\ ~wda'.suspEvent
           /\ mc' \in McType /\ mc'.pc = "scanWait"
           /\ tl' \in TlType /\ tl'.slot = tl.slot /\ tl'.suspended
           /\ tl'.asked \in {tl.asked, tl.asked + 1}
           /\ ~setup.lost => tl'.asked = tl.asked + 1
    <2>1. CASE wda.timedOut \/ tl.suspended
      BY <2>1 DEF InitScan
    <2>2. CASE ~wda.timedOut /\ ~tl.suspended
      <3>1. mc' = [mc EXCEPT !.pc = "scanWait"]
        BY <2>2 DEF InitScan
      <3>2. PICK n \in IF setup.lost THEN {0, 1} ELSE {1} :
              tl' = [tl EXCEPT !.suspended = TRUE, !.asked = @ + n]
        BY <2>2 DEF InitScan
      <3>3. ~wda'.suspEvent
        <4>1. wda' = [wda EXCEPT !.txStatus = FALSE, !.suspEvent = FALSE]
          BY <2>2 DEF InitScan
        <4> QED BY <4>1, <1>1 DEF WdaType
      <3>4. n \in {0, 1} /\ (~setup.lost => n = 1)
        OBVIOUS
      <3>5. tl' \in TlType /\ tl'.slot = tl.slot /\ tl'.suspended
            /\ tl'.asked = tl.asked + n
        <4>1. tl.asked + n \in Nat
          BY <1>1, <3>4 DEF TlType
        <4>2. tl' = [tl EXCEPT !.suspended = TRUE, !.asked = tl.asked + n]
          BY <3>2
        <4> QED BY <1>1, <4>1, <4>2 DEF TlType
      <3>6. mc' \in McType /\ mc'.pc = "scanWait"
        BY <1>1, <3>1 DEF McType
      <3>7. tl.asked \in Nat
        BY <1>1 DEF TlType
      <3> QED BY <2>2, <3>3, <3>4, <3>5, <3>6, <3>7
    <2> QED BY <2>1, <2>2
  <1>4. /\ wda' \in WdaType /\ wda'.txCb = wda.txCb /\ wda'.event = wda.event
        /\ wda'.toFree = wda.toFree /\ ~wda'.txStatus
        /\ wda'.timedOut = wda.timedOut
    <2>1. CASE wda.timedOut
      <3>1. wda' = [wda EXCEPT !.txStatus = FALSE]
        BY <2>1 DEF InitScan
      <3> QED BY <1>1, <3>1 DEF WdaType
    <2>2. CASE ~wda.timedOut
      <3>1. wda' = [wda EXCEPT !.txStatus = FALSE, !.suspEvent = FALSE]
        BY <2>2 DEF InitScan
      <3> QED BY <1>1, <3>1 DEF WdaType
    <2> QED BY <2>1, <2>2
  <1>5. Types'
    <2>1. mc' \in McType /\ tl' \in TlType /\ (mc'.pc \in Sending => mc'.frame \in Frame)
      BY <1>1, <1>3 DEF Sending
    <2> QED BY <1>1, <1>2, <1>4, <2>1 DEF Types
  <1> SUFFICES ASSUME ~setup.racing
               PROVE  OnePlace' /\ Tagged' /\ InStep' /\ Suspension' /\ Suspending'
    BY <1>1, <1>5 DEF WdaIInv
  <1>6. OnePlace /\ Tagged /\ InStep /\ Suspension /\ Suspending
    BY DEF WdaIInv
  <1>7. OnePlace' /\ Tagged' /\ InStep'
    BY <1>1, <1>3, <1>4, <1>6, FramesUnmoved DEF Sending
  <1>8. CASE UNCHANGED <<mc, tl>>
    <2>1. Suspension'
      BY <1>1, <1>4, <1>6, <1>8 DEF Suspension
    <2>2. Suspending'
      BY <1>1, <1>4, <1>6, <1>8 DEF Suspending, SuspendAnswered, InSuspendCb
    <2> QED BY <1>7, <2>1, <2>2
  <1>9. CASE /\ ~wda.timedOut /\ ~tl.suspended /\ ~wda'.suspEvent
             /\ mc'.pc = "scanWait" /\ tl'.suspended
             /\ tl'.asked \in {tl.asked, tl.asked + 1}
             /\ ~setup.lost => tl'.asked = tl.asked + 1
    <2>1. tl.asked = 0 /\ tx.pc \notin {"answered", "late"}
      BY <1>6, <1>9 DEF Suspension
    <2>2. tl'.asked \in {0, 1} /\ (~setup.lost => tl'.asked = 1)
      BY <1>9, <2>1
    <2>3. Suspension'
      BY <1>1, <1>4, <1>6, <1>9, <2>1, <2>2 DEF Suspension
    <2>4. Suspending'
      BY <1>1, <1>4, <1>9, <2>1, <2>2 DEF Suspending, SuspendAnswered, InSuspendCb
    <2> QED BY <1>7, <2>3, <2>4
  <1> QED BY <1>3, <1>8, <1>9

LEMMA SuspendEventKeeps == WdaIInv /\ SuspendEvent => WdaIInv'
  <1> SUFFICES ASSUME WdaIInv, SuspendEvent PROVE WdaIInv'
    OBVIOUS
  <1>1. /\ Types /\ mc \in McType /\ wda \in WdaType
        /\ mc.pc = "scanWait" /\ wda.suspEvent
        /\ UNCHANGED <<lim, tl, tx, ring, frames, msgs, setup, left>>
    BY DEF WdaIInv, Types, SuspendEvent
  <1>2. /\ mc' \in McType /\ mc'.pc = "scanSuspended"
        /\ wda' \in WdaType /\ wda'.event = wda.event /\ wda'.txCb = wda.txCb
        /\ wda'.toFree = wda.toFree /\ ~wda'.suspEvent /\ ~wda'.timedOut
        /\ wda'.txStatus = wda.txStatus
    BY <1>1 DEF SuspendEvent, McType, WdaType
  <1>3. Types'
    BY <1>1, <1>2 DEF Types, Sending
  <1> SUFFICES ASSUME ~setup.racing
               PROVE  OnePlace' /\ Tagged' /\ InStep' /\ Suspension' /\ Suspending'
    BY <1>1, <1>3 DEF WdaIInv
  <1>4. OnePlace /\ Tagged /\ InStep /\ Suspension /\ Suspending
    BY DEF WdaIInv
  <1>5. OnePlace' /\ Tagged' /\ InStep'
    BY <1>1, <1>2, <1>4, FramesUnmoved DEF Sending
  <1>6. tl.suspended /\ tl.asked = 0 /\ tx.pc \notin {"answered", "late"}
    BY <1>1, <1>4 DEF Suspending, Suspension
  <1>7. Suspension'
    BY <1>1, <1>2, <1>4, <1>6 DEF Suspension
  <1>8. Suspending'
    BY <1>1, <1>2, <1>6 DEF Suspending, SuspendAnswered
  <1> QED BY <1>5, <1>7, <1>8

LEMMA SuspendTimeoutKeeps == WdaIInv /\ SuspendTimeout => WdaIInv'
  <1> SUFFICES ASSUME WdaIInv, SuspendTimeout PROVE WdaIInv'
    OBVIOUS
  <1>1. /\ Types /\ mc \in McType /\ mc.pc = "scanWait" /\ ~wda.suspEvent
        /\ UNCHANGED <<wda, lim, tl, tx, ring, frames, msgs, setup, left>>
    BY DEF WdaIInv, Types, SuspendTimeout
  <1>2. mc' \in McType /\ mc'.pc = "scanTimeout"
    BY <1>1 DEF SuspendTimeout, McType
  <1>3. Types'
    BY <1>1, <1>2 DEF Types, Sending
  <1> SUFFICES ASSUME ~setup.racing
               PROVE  OnePlace' /\ Tagged' /\ InStep' /\ Suspension' /\ Suspending'
    BY <1>1, <1>3 DEF WdaIInv
  <1>4. OnePlace /\ Tagged /\ InStep /\ Suspension /\ Suspending
    BY DEF WdaIInv
  <1>5. OnePlace' /\ Tagged' /\ InStep'
    BY <1>1, <1>2, <1>4, FramesUnmoved DEF Sending
  <1>6. ~InSuspendCb
    BY <1>1 DEF SuspendTimeout
  <1>7. Suspension'
    BY <1>1, <1>2, <1>4, <1>6 DEF Suspension, InSuspendCb
  <1>8. Suspending'
    BY <1>1, <1>2, <1>4, <1>6 DEF Suspending, SuspendAnswered, InSuspendCb
  <1> QED BY <1>5, <1>7, <1>8

LEMMA SetTimedOutKeeps == WdaIInv /\ SetTimedOut => WdaIInv'
  <1> SUFFICES ASSUME WdaIInv, SetTimedOut PROVE WdaIInv'
    OBVIOUS
  <1>1. /\ Types /\ mc \in McType /\ wda \in WdaType /\ mc.pc = "scanTimeout"
        /\ UNCHANGED <<lim, tl, tx, ring, frames, msgs, setup, left>>
    BY DEF WdaIInv, Types, SetTimedOut
  <1>2. /\ mc' \in McType /\ mc'.pc = "scanSuspended"
        /\ wda' \in WdaType /\ wda'.event = wda.event /\ wda'.txCb = wda.txCb
        /\ wda'.toFree = wda.toFree /\ wda'.timedOut
        /\ wda'.suspEvent = wda.suspEvent /\ wda'.txStatus = wda.txStatus
    BY <1>1 DEF SetTimedOut, McType, WdaType
  <1>3. Types'
    BY <1>1, <1>2 DEF Types, Sending
  <1> SUFFICES ASSUME ~setup.racing
               PROVE  OnePlace' /\ Tagged' /\ InStep' /\ Suspension' /\ Suspending'
    BY <1>1, <1>3 DEF WdaIInv
  <1>4. OnePlace /\ Tagged /\ InStep /\ Suspension /\ Suspending
    BY DEF WdaIInv
  <1>5. OnePlace' /\ Tagged' /\ InStep'
    BY <1>1, <1>2, <1>4, FramesUnmoved DEF Sending
  <1>6. ~InSuspendCb /\ ~wda.txStatus /\ tl.suspended /\ (~setup.lost => tl.asked = 1)
    BY <1>1, <1>4 DEF Suspending
  <1>7. Suspension'
    BY <1>1, <1>2, <1>4, <1>6 DEF Suspension, InSuspendCb
  <1>8. Suspending'
    BY <1>1, <1>2, <1>6 DEF Suspending, SuspendAnswered, InSuspendCb
  <1> QED BY <1>5, <1>7, <1>8

\* TL sends data again.
LEMMA ResumeFields ==
  ASSUME Types, ResumeDataTx
  PROVE  tl' \in TlType /\ tl'.slot = tl.slot /\ tl'.asked = tl.asked /\ ~tl'.suspended
  BY DEF Types, TlType, ResumeDataTx

LEMMA StartScanKeeps == WdaIInv /\ StartScan => WdaIInv'
  <1> SUFFICES ASSUME WdaIInv, StartScan PROVE WdaIInv'
    OBVIOUS
  <1>1. /\ Types /\ mc \in McType /\ mc.pc = "scanSuspended" /\ tl \in TlType
        /\ lim \in LimType
        /\ UNCHANGED <<wda, tx, ring, frames, msgs, setup, left>>
    BY DEF WdaIInv, Types, StartScan
  <1>2. mc' \in McType /\ mc'.pc = "idle"
    BY <1>1 DEF StartScan, McType
  <1>3. \/ /\ ~wda.txStatus /\ UNCHANGED <<lim, tl>>
        \/ /\ wda.txStatus /\ UNCHANGED tl /\ lim' \in LimType /\ lim'.scan = "init"
        \/ /\ wda.txStatus /\ UNCHANGED lim /\ tl' \in TlType
           /\ tl'.slot = tl.slot /\ tl'.asked = tl.asked /\ ~tl'.suspended
    BY <1>1, ResumeFields DEF StartScan, LimType
  <1>4. Types'
    BY <1>1, <1>2, <1>3 DEF Types, Sending
  <1> SUFFICES ASSUME ~setup.racing
               PROVE  OnePlace' /\ Tagged' /\ InStep' /\ Suspension' /\ Suspending'
    BY <1>1, <1>4 DEF WdaIInv
  <1>5. OnePlace /\ Tagged /\ InStep /\ Suspension /\ Suspending
    BY DEF WdaIInv
  <1>6. OnePlace' /\ Tagged' /\ InStep'
    BY <1>1, <1>2, <1>3, <1>5, FramesUnmoved DEF Sending
  \* A scan starts only when the suspension has been answered for good.
  <1>7. wda.txStatus => ~wda.timedOut /\ tl.asked = 0 /\ tx.pc \notin {"answered", "late"}
                        /\ tl.suspended
    BY <1>1, <1>5 DEF Suspending
  <1>8. lim.scan = "none"
    BY <1>1, <1>5 DEF Suspension
  <1>9. Suspension'
    BY <1>1, <1>2, <1>3, <1>5, <1>7, <1>8 DEF Suspension
  <1>10. Suspending'
    BY <1>1, <1>2, <1>3, <1>5, <1>7 DEF Suspending, SuspendAnswered, InSuspendCb
  <1> QED BY <1>6, <1>9, <1>10

\* The answers of WDI and the end of the scan
LEMMA ScanGoesOnKeeps == WdaIInv /\ ScanGoesOn => WdaIInv'
  <1> SUFFICES ASSUME WdaIInv, ScanGoesOn PROVE WdaIInv'
    OBVIOUS
  <1>1. /\ Types /\ tl \in TlType /\ lim \in LimType /\ lim.scan # "none"
        /\ UNCHANGED <<mc, wda, tx, ring, frames, msgs, setup, left>>
    BY DEF WdaIInv, Types, ScanGoesOn, FinishScan, FinishScanRsp, InitScanRsp
  <1>2. /\ lim' \in LimType
        /\ \/ UNCHANGED tl
           \/ /\ tl' \in TlType /\ tl'.slot = tl.slot /\ tl'.asked = tl.asked
              /\ ~tl'.suspended /\ lim'.scan = "none"
    <2>1. CASE FinishScan
      BY <1>1, <2>1 DEF FinishScan, LimType
    <2>2. CASE FinishScanRsp
      BY <1>1, <2>2, ResumeFields DEF FinishScanRsp, LimType
    <2>3. ASSUME NEW ok \in BOOLEAN, InitScanRsp(ok)
          PROVE  /\ lim' \in LimType
                 /\ \/ UNCHANGED tl
                    \/ /\ tl' \in TlType /\ tl'.slot = tl.slot /\ tl'.asked = tl.asked
                       /\ ~tl'.suspended /\ lim'.scan = "none"
      BY <1>1, <2>3, ResumeFields DEF InitScanRsp, LimType
    <2> QED BY <2>1, <2>2, <2>3 DEF ScanGoesOn
  <1>3. Types'
    BY <1>1, <1>2 DEF Types
  <1> SUFFICES ASSUME ~setup.racing
               PROVE  OnePlace' /\ Tagged' /\ InStep' /\ Suspension' /\ Suspending'
    BY <1>1, <1>3 DEF WdaIInv
  <1>4. OnePlace /\ Tagged /\ InStep /\ Suspension /\ Suspending
    BY DEF WdaIInv
  <1>5. OnePlace' /\ Tagged' /\ InStep'
    BY <1>1, <1>2, <1>4, FramesUnmoved
  <1>6. Suspension'
    BY <1>1, <1>2, <1>4 DEF Suspension
  <1>7. Suspending'
    BY <1>1, <1>2, <1>4 DEF Suspension, Suspending, SuspendAnswered, InSuspendCb
  <1> QED BY <1>5, <1>6, <1>7

LEMMA SuspendCbKeeps == WdaIInv /\ SuspendCb => WdaIInv'
  <1> SUFFICES ASSUME WdaIInv, SuspendCb PROVE WdaIInv'
    OBVIOUS
  <1>1. /\ Types /\ tx \in TxType /\ wda \in WdaType /\ tl \in TlType
        /\ tx.pc = "idle" /\ tl.asked > 0
        /\ UNCHANGED <<mc, lim, ring, frames, msgs, setup, left>>
    BY DEF WdaIInv, Types, SuspendCb
  <1>2. /\ tx' \in TxType /\ tx'.pc = "answered" /\ tx'.frame = tx.frame
        /\ tl' \in TlType /\ tl'.slot = tl.slot /\ tl'.suspended = tl.suspended
        /\ tl'.asked = tl.asked - 1
        /\ wda' \in WdaType /\ wda'.event = wda.event /\ wda'.txCb = wda.txCb
        /\ wda'.toFree = wda.toFree /\ wda'.timedOut = wda.timedOut
        /\ wda'.suspEvent = wda.suspEvent /\ wda'.txStatus
    <2>1. tl.asked - 1 \in Nat /\ tl' = [tl EXCEPT !.asked = tl.asked - 1]
      BY <1>1 DEF SuspendCb, TlType
    <2>2. /\ tl' \in TlType /\ tl'.slot = tl.slot /\ tl'.suspended = tl.suspended
          /\ tl'.asked = tl.asked - 1
      BY <1>1, <2>1 DEF TlType
    <2> QED BY <1>1, <2>2 DEF SuspendCb, TxType, WdaType
  <1>3. Types'
    BY <1>1, <1>2 DEF Types, Completing
  <1> SUFFICES ASSUME ~setup.racing
               PROVE  OnePlace' /\ Tagged' /\ InStep' /\ Suspension' /\ Suspending'
    BY <1>1, <1>3 DEF WdaIInv
  <1>4. OnePlace /\ Tagged /\ InStep /\ Suspension /\ Suspending
    BY DEF WdaIInv
  <1>5. OnePlace' /\ Tagged' /\ InStep'
    BY <1>1, <1>2, <1>4, FramesUnmoved DEF Completing
  <1>6. /\ tl.asked = 1 /\ tl'.asked = 0 /\ tl.suspended
        /\ mc.pc \notin {"scanTimeout", "scanSuspended"} \/ wda.timedOut
        /\ mc.pc # "scanTimeout"
    BY <1>1, <1>2, <1>4 DEF Suspension, Suspending, SuspendCb, GivingUpTl
  <1>7. mc.pc # "scanSuspended"
    BY <1>1, <1>4 DEF SuspendCb, GivingUpTl
  <1>8. Suspension'
    BY <1>1, <1>2, <1>4, <1>6, <1>7 DEF Suspension
  <1>9. Suspending'
    BY <1>1, <1>2, <1>4, <1>6, <1>7 DEF Suspending, SuspendAnswered, InSuspendCb
  <1> QED BY <1>5, <1>8, <1>9

LEMMA SetSuspendEventKeeps == WdaIInv /\ SetSuspendEvent => WdaIInv'
  <1> SUFFICES ASSUME WdaIInv, SetSuspendEvent PROVE WdaIInv'
    OBVIOUS
  <1>1. /\ Types /\ tx \in TxType /\ wda \in WdaType /\ tx.pc = "answered"
        /\ UNCHANGED <<mc, lim, tl, ring, frames, msgs, setup, left>>
    BY DEF WdaIInv, Types, SetSuspendEvent
  <1>2. /\ tx' \in TxType /\ tx'.pc = "woken" /\ tx'.frame = tx.frame
        /\ wda' \in WdaType /\ wda'.event = wda.event /\ wda'.txCb = wda.txCb
        /\ wda'.toFree = wda.toFree /\ wda'.timedOut = wda.timedOut
        /\ wda'.suspEvent /\ wda'.txStatus = wda.txStatus
    BY <1>1 DEF SetSuspendEvent, TxType, WdaType
  <1>3. Types'
    BY <1>1, <1>2 DEF Types, Completing
  <1> SUFFICES ASSUME ~setup.racing
               PROVE  OnePlace' /\ Tagged' /\ InStep' /\ Suspension' /\ Suspending'
    BY <1>1, <1>3 DEF WdaIInv
  <1>4. OnePlace /\ Tagged /\ InStep /\ Suspension /\ Suspending
    BY DEF WdaIInv
  <1>5. OnePlace' /\ Tagged' /\ InStep'
    BY <1>1, <1>2, <1>4, FramesUnmoved DEF Completing
  <1>6. tl.asked = 0 /\ mc.pc \notin {"scanTimeout", "scanSuspended"}
    BY <1>1, <1>4 DEF Suspension, Suspending, InSuspendCb
  <1>7. Suspension'
    BY <1>1, <1>2, <1>4, <1>6 DEF Suspension
  <1>8. Suspending'
    BY <1>1, <1>2, <1>4, <1>6 DEF Suspending, SuspendAnswered, InSuspendCb
  <1> QED BY <1>5, <1>7, <1>8

LEMMA ResumeIfLateKeeps == WdaIInv /\ ResumeIfLate => WdaIInv'
  <1> SUFFICES ASSUME WdaIInv, ResumeIfLate PROVE WdaIInv'
    OBVIOUS
  <1>1. /\ Types /\ tx \in TxType /\ tl \in TlType /\ tx.pc = "woken"
        /\ UNCHANGED <<mc, wda, lim, ring, frames, msgs, setup, left>>
    BY DEF WdaIInv, Types, ResumeIfLate
  <1>2. \/ /\ wda.timedOut /\ tx' \in TxType /\ tx'.pc = "late"
           /\ tx'.frame = tx.frame
           /\ tl' \in TlType /\ tl'.slot = tl.slot /\ tl'.asked = tl.asked
           /\ ~tl'.suspended
        \/ /\ ~wda.timedOut /\ tx' \in TxType /\ tx'.pc = "idle"
           /\ tx'.frame = tx.frame /\ UNCHANGED tl
    BY <1>1, ResumeFields DEF ResumeIfLate, TxType
  <1>3. Types'
    BY <1>1, <1>2 DEF Types, Completing
  <1> SUFFICES ASSUME ~setup.racing
               PROVE  OnePlace' /\ Tagged' /\ InStep' /\ Suspension' /\ Suspending'
    BY <1>1, <1>3 DEF WdaIInv
  <1>4. OnePlace /\ Tagged /\ InStep /\ Suspension /\ Suspending
    BY DEF WdaIInv
  <1>5. OnePlace' /\ Tagged' /\ InStep'
    BY <1>1, <1>2, <1>4, FramesUnmoved DEF Completing
  <1>6. wda.timedOut => /\ tl.asked = 0 /\ lim.scan = "none"
                        /\ mc.pc \notin {"scanWait", "scanTimeout", "scanSuspended"}
    BY <1>1, <1>4 DEF Suspension, Suspending, InSuspendCb
  <1>7. Suspension'
    BY <1>1, <1>2, <1>4, <1>6 DEF Suspension
  <1>8. Suspending'
    BY <1>1, <1>2, <1>4, <1>6 DEF Suspending, SuspendAnswered, InSuspendCb
  <1> QED BY <1>5, <1>7, <1>8

LEMMA ClearTimedOutKeeps == WdaIInv /\ ClearTimedOut => WdaIInv'
  <1> SUFFICES ASSUME WdaIInv, ClearTimedOut PROVE WdaIInv'
    OBVIOUS
  <1>1. /\ Types /\ tx \in TxType /\ wda \in WdaType /\ tx.pc = "late"
        /\ UNCHANGED <<mc, lim, tl, ring, frames, msgs, setup, left>>
    BY DEF WdaIInv, Types, ClearTimedOut
  <1>2. /\ tx' \in TxType /\ tx'.pc = "idle" /\ tx'.frame = tx.frame
        /\ wda' \in WdaType /\ wda'.event = wda.event /\ wda'.txCb = wda.txCb
        /\ wda'.toFree = wda.toFree /\ ~wda'.timedOut
        /\ wda'.suspEvent = wda.suspEvent /\ wda'.txStatus = wda.txStatus
    BY <1>1 DEF ClearTimedOut, TxType, WdaType
  <1>3. Types'
    BY <1>1, <1>2 DEF Types, Completing
  <1> SUFFICES ASSUME ~setup.racing
               PROVE  OnePlace' /\ Tagged' /\ InStep' /\ Suspension' /\ Suspending'
    BY <1>1, <1>3 DEF WdaIInv
  <1>4. OnePlace /\ Tagged /\ InStep /\ Suspension /\ Suspending
    BY DEF WdaIInv
  <1>5. OnePlace' /\ Tagged' /\ InStep'
    BY <1>1, <1>2, <1>4, FramesUnmoved DEF Completing
  <1>6. /\ tl.asked = 0 /\ wda.timedOut /\ lim.scan = "none"
        /\ mc.pc \notin {"scanWait", "scanTimeout", "scanSuspended"}
    BY <1>1, <1>4 DEF Suspension, Suspending, InSuspendCb
  <1>7. Suspension'
    BY <1>1, <1>2, <1>4, <1>6 DEF Suspension
  <1>8. Suspending'
    BY <1>1, <1>2, <1>4, <1>6 DEF Suspending, SuspendAnswered, InSuspendCb
  <1> QED BY <1>5, <1>7, <1>8

-----------------------------------------------------------------------------
(***************************************************************************)
(* Acknowledgements and timers.                                            *)
(***************************************************************************)
LEMMA McTakesKeeps == WdaIInv /\ McTakes => WdaIInv'
  <1> SUFFICES ASSUME WdaIInv, McTakes PROVE WdaIInv'
    OBVIOUS
  <1>1. Types /\ lim \in LimType /\ wda \in WdaType /\ msgs \in MsgsType
        /\ frames \in FramesType
    BY DEF WdaIInv, Types
  <1>2. /\ msgs' \in MsgsType /\ UNCHANGED <<mc, tl, tx, ring, frames, setup, left>>
    <2>1. ASSUME NEW kind \in {"ind", "wdaTimeout", "limTimeout"}, Take(kind)
          PROVE  msgs' \in MsgsType
      <3>1. msgs[kind] \in Nat /\ msgs[kind] > 0
        BY <1>1, <2>1 DEF Take, MsgsType
      <3>2. msgs[kind] - 1 \in Nat
        BY <3>1
      <3>3. msgs' = [msgs EXCEPT ![kind] = msgs[kind] - 1]
        BY <2>1 DEF Take
      <3> QED BY <1>1, <3>2, <3>3 DEF MsgsType
    <2>4. UNCHANGED <<mc, tl, tx, ring, frames, setup, left>>
      BY DEF McTakes, TxCompleteInd, TxCompleteTimeoutInd, DisassocAckTimeout, Take
    <2> QED BY <2>1, <2>4
        DEF McTakes, TxCompleteInd, TxCompleteTimeoutInd, DisassocAckTimeout
  <1>3. lim' \in LimType /\ lim'.scan = lim.scan
    <2>1. lim' = lim \/ lim' \in SendDisassocCnf(lim)
      BY DEF McTakes, TxCompleteInd, TxCompleteTimeoutInd, DisassocAckTimeout, CallAck
    <2> QED BY <1>1, <2>1, ConfirmFields
  <1>4. /\ wda' \in WdaType /\ wda'.txCb = wda.txCb /\ wda'.event = wda.event
        /\ wda'.toFree = wda.toFree /\ wda'.txStatus = wda.txStatus
        /\ wda'.suspEvent = wda.suspEvent /\ wda'.timedOut = wda.timedOut
    <2> DEFINE v == [wda EXCEPT !.ackCb = FALSE]
               w == [v EXCEPT !.timer = 0]
    <2>1. /\ v \in WdaType /\ v.txCb = wda.txCb /\ v.event = wda.event
          /\ v.toFree = wda.toFree /\ v.txStatus = wda.txStatus
          /\ v.suspEvent = wda.suspEvent /\ v.timedOut = wda.timedOut
      BY <1>1 DEF WdaType
    <2>2. wda' \in {wda, v, w}
      BY DEF McTakes, TxCompleteInd, TxCompleteTimeoutInd, DisassocAckTimeout,
             StopWdaTimer
    <2> HIDE DEF v
    <2>3. /\ w \in WdaType /\ w.txCb = wda.txCb /\ w.event = wda.event
          /\ w.toFree = wda.toFree /\ w.txStatus = wda.txStatus
          /\ w.suspEvent = wda.suspEvent /\ w.timedOut = wda.timedOut
      BY <2>1 DEF WdaType
    <2> HIDE DEF w
    <2> QED BY <1>1, <2>1, <2>2, <2>3
  <1> QED BY <1>1, <1>2, <1>3, <1>4, ElsewhereKeeps

LEMMA PeerLeavesKeeps == WdaIInv /\ PeerLeaves => WdaIInv'
  <1> SUFFICES ASSUME WdaIInv, PeerLeaves PROVE WdaIInv'
    OBVIOUS
  <1>1. /\ lim \in LimType /\ wda \in WdaType /\ msgs \in MsgsType
        /\ frames \in FramesType /\ lim' \in SendDisassocCnf(lim)
        /\ UNCHANGED <<mc, wda, tl, tx, ring, frames, msgs, setup, left>>
    BY DEF WdaIInv, Types, PeerLeaves
  <1> QED BY <1>1, ConfirmFields, ElsewhereKeeps

LEMMA AcknowledgedKeeps == WdaIInv /\ Acknowledged => WdaIInv'
  <1> SUFFICES ASSUME WdaIInv, Acknowledged PROVE WdaIInv'
    OBVIOUS
  <1>1. /\ lim \in LimType /\ wda \in WdaType /\ msgs \in MsgsType
        /\ frames \in FramesType
        /\ UNCHANGED <<mc, wda, lim, tl, tx, ring, setup, left>>
    BY DEF WdaIInv, Types, Acknowledged
  <1>2. msgs' \in MsgsType
    BY <1>1 DEF Acknowledged, MsgsType
  <1>3. /\ frames' \in FramesType /\ frames'.tag = frames.tag
        /\ frames'.freed = frames.freed /\ frames'.next = frames.next
    <2>1. PICK f \in frames.air : frames' = [frames EXCEPT !.air = frames.air \ {f}]
      BY DEF Acknowledged
    <2>2. frames.air \ {f} \in SUBSET Frame
      BY <1>1 DEF FramesType
    <2> QED BY <1>1, <2>1, <2>2 DEF FramesType
  <1> QED BY <1>1, <1>2, <1>3, ElsewhereKeeps

LEMMA WdaTimerExpiresKeeps == WdaIInv /\ WdaTimerExpires => WdaIInv'
  <1> SUFFICES ASSUME WdaIInv, WdaTimerExpires PROVE WdaIInv'
    OBVIOUS
  <1>1. /\ lim \in LimType /\ wda \in WdaType /\ msgs \in MsgsType
        /\ frames \in FramesType
        /\ UNCHANGED <<mc, lim, tl, tx, ring, frames, setup, left>>
    BY DEF WdaIInv, Types, WdaTimerExpires
  <1>2. msgs' \in MsgsType
    BY <1>1 DEF WdaTimerExpires, MsgsType
  <1>3. /\ wda' \in WdaType /\ wda'.txCb = wda.txCb /\ wda'.event = wda.event
        /\ wda'.toFree = wda.toFree /\ wda'.txStatus = wda.txStatus
        /\ wda'.suspEvent = wda.suspEvent /\ wda'.timedOut = wda.timedOut
    <2>1. wda.timer - 1 \in 0 .. 2 /\ wda' = [wda EXCEPT !.timer = wda.timer - 1]
      BY <1>1 DEF WdaTimerExpires, WdaType
    <2> QED BY <1>1, <2>1 DEF WdaType
  <1> QED BY <1>1, <1>2, <1>3, ElsewhereKeeps

LEMMA LimTimerExpiresKeeps == WdaIInv /\ LimTimerExpires => WdaIInv'
  <1> SUFFICES ASSUME WdaIInv, LimTimerExpires PROVE WdaIInv'
    OBVIOUS
  <1>1. /\ lim \in LimType /\ wda \in WdaType /\ msgs \in MsgsType
        /\ frames \in FramesType
        /\ UNCHANGED <<mc, wda, tl, tx, ring, frames, setup, left>>
    BY DEF WdaIInv, Types, LimTimerExpires
  <1>2. msgs' \in MsgsType
    BY <1>1 DEF LimTimerExpires, MsgsType
  <1>3. lim' \in LimType /\ lim'.scan = lim.scan
    BY <1>1 DEF LimTimerExpires, LimType
  <1> QED BY <1>1, <1>2, <1>3, ElsewhereKeeps

-----------------------------------------------------------------------------
(***************************************************************************)
(* The theorems.                                                           *)
(***************************************************************************)
LEMMA NextInv == WdaIInv /\ [Next]_vars => WdaIInv'
  <1> SUFFICES ASSUME WdaIInv, [Next]_vars PROVE WdaIInv'
    OBVIOUS
  <1>1. CASE SendPlain \/ Disassociate \/ InitScan
    BY <1>1, SendPlainKeeps, DisassociateKeeps, InitScanKeeps
  <1>2. CASE McRuns
    BY <1>2, ResetEventKeeps, StorePacketKeeps, HandToTlKeeps, KickKeeps,
       TagFrameKeeps, GiveUpFrameKeeps, SetTimedOutKeeps, StartScanKeeps DEF McRuns
  <1>3. CASE McWakes
    BY <1>3, FrameEventKeeps, FrameTimeoutKeeps, SuspendEventKeeps,
       SuspendTimeoutKeeps DEF McWakes
  <1>4. CASE McTakes \/ ScanGoesOn
    BY <1>4, McTakesKeeps, ScanGoesOnKeeps
  <1>5. CASE Fetch \/ TxComplete \/ SuspendCb
    BY <1>5, FetchKeeps, TxCompleteKeeps, SuspendCbKeeps
  <1>6. CASE TxRuns
    BY <1>6, LookForCallbackKeeps, ClaimPacketKeeps, CallTxCompleteKeeps,
       SetFrameEventKeeps, SetSuspendEventKeeps, ResumeIfLateKeeps,
       ClearTimedOutKeeps DEF TxRuns
  <1>7. CASE Acknowledged \/ PeerLeaves \/ WdaTimerExpires \/ LimTimerExpires
    BY <1>7, AcknowledgedKeeps, PeerLeavesKeeps, WdaTimerExpiresKeeps,
       LimTimerExpiresKeeps
  <1>8. CASE UNCHANGED vars
    <2>1. Types /\ UNCHANGED <<mc, wda, lim, tl, tx, ring, frames, msgs, setup, left>>
      BY <1>8 DEF vars, WdaIInv
    <2> QED BY <2>1, ElsewhereKeeps DEF Types
  <1> QED BY <1>1, <1>2, <1>3, <1>4, <1>5, <1>6, <1>7, <1>8 DEF Next

\* In every situation: every frame that LIM has sent is in one place until it
\* is freed, a frame that the MC thread has given up is tagged, the TX thread
\* completes no other frame than the one waited for, and a suspension of the
\* data is answered once (WDA_TxPacket, WDA_TxComplete, WDA_SuspendDataTx).
THEOREM PlacesCorrect == Spec => []WdaIInv
  <1>1. Init => WdaIInv
    BY InitInv
  <1>2. WdaIInv /\ [Next]_vars => WdaIInv'
    BY NextInv
  <1> QED BY <1>1, <1>2, PTL DEF Spec

LEMMA TypesHold == Types => TypeOK
  <1> SUFFICES ASSUME Types PROVE TypeOK
    OBVIOUS
  <1>1. /\ mc.pc \in {"idle", "reset", "store", "hand", "kick", "wait", "noCallback",
                      "tagging", "scanWait", "scanTimeout", "scanSuspended"}
        /\ wda.timer \in 0 .. 2
        /\ lim.scan \in {"none", "init", "on", "finish"}
        /\ tx.pc \in {"idle", "tagged", "called", "swapped", "freed", "crashed",
                      "answered", "woken", "late"}
    BY DEF Types, McType, WdaType, LimType, TxType, Sending, Completing
  <1>2. /\ mc.frame \in {None} \cup Frame /\ wda.toFree \in {None} \cup Frame
        /\ lim.req \in {None} \cup Request /\ tl.slot \in {None} \cup Frame
        /\ tx.frame \in {None} \cup Frame
    BY DEF Types, McType, WdaType, LimType, TlType, TxType
  <1>3. ToSet(ring) \subseteq Frame
    BY DEF Types, ToSet
  <1>4. /\ frames.tag \cup frames.ack \subseteq Frame
        /\ frames.freed \in [Frame -> Nat]
    BY DEF Types, FramesType
  <1> QED BY <1>1, <1>2, <1>3, <1>4 DEF TypeOK

\* Either thread may free a frame of LIM, but it is freed once, when nobody has
\* it any more; the MC thread waits for a frame only while it is on its way; and
\* a suspension of the data that timed out is answered all the same (the
\* exchange of VosPacketToFree and the tag in WDA_TxComplete, txSuspendTimedOut).
THEOREM WdaInvCorrect == Spec => []WdaInv
  <1>1. WdaIInv => WdaInv
    <2> SUFFICES ASSUME WdaIInv PROVE WdaInv
      OBVIOUS
    <2>1. Types /\ TypeOK
      BY TypesHold DEF WdaIInv
    <2>2. ASSUME ~setup.racing PROVE FreedOnce /\ NoIdleWait
      <3>1. OnePlace /\ InStep
        BY <2>2 DEF WdaIInv
      <3>2. \A f : f \in ToSet(ring) <=> InRing(f)
        BY <2>1 DEF Types, ToSet, InRing
      <3>3. FreedOnce
        <4>1. tx.pc # "crashed"
          BY <3>1 DEF InStep
        <4>2. ASSUME NEW f \in Frame
              PROVE  frames.freed[f] <= 1 /\ (frames.freed[f] = 1 => ~Below(f))
          <5>1. frames.freed[f] \in {0, 1}
            BY <3>1 DEF OnePlace
          <5>2. ASSUME frames.freed[f] = 1 PROVE ~Below(f)
            <6>1. f # tl.slot /\ ~InRing(f) /\ ~InTx(f)
              BY <3>1, <5>2 DEF OnePlace
            <6>2. ASSUME f = tx.frame, tx.pc # "freed" PROVE FALSE
              <7>1. tx.pc \notin {"tagged", "called", "swapped"}
                BY <6>1, <6>2 DEF InTx
              <7>2. tx.frame = None
                <8>1. tx.pc # "crashed"
                  BY <3>1 DEF InStep
                <8> QED BY <2>1, <6>2, <7>1, <8>1 DEF Types, Completing
              <7> QED BY <6>2, <7>2, SetupType
            <6> QED BY <3>2, <6>1, <6>2 DEF Below
          <5> QED BY <5>1, <5>2
        <4> QED BY <4>1, <4>2 DEF FreedOnce
      <3>4. NoIdleWait
        BY <3>1, <3>2 DEF NoIdleWait, InStep, Below, InTx
      <3> QED BY <3>3, <3>4
    <2>3. ASSUME ~setup.racing, ~setup.lost PROVE SuspendAnswered
      BY <2>3 DEF WdaIInv, Suspending
    <2> QED BY <2>1, <2>2, <2>3 DEF WdaInv
  <1> QED BY <1>1, PlacesCorrect, PTL

\* A scan starts, and goes on, only while TL is told to send no data: a late
\* answer to the suspension of an earlier scan does not resume the data of this
\* one (WDA_SuspendDataTxCallback).
THEOREM ScanSuspendsCorrect == Spec => []ScanWhileSuspended
  <1>1. WdaIInv => ScanWhileSuspended
    BY DEF WdaIInv, Suspension, ScanWhileSuspended
  <1> QED BY <1>1, PlacesCorrect, PTL

=============================================================================
