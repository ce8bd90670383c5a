--------------------------- MODULE WdiCts_proofs ---------------------------
(***************************************************************************)
(* Proofs about WdiCts: for a channel of any size, any number of messages  *)
(* and any number of crashes the transport is a FIFO channel.              *)
(***************************************************************************)
EXTENDS WdiCts, SequenceTheorems, TLAPS

LEMMA StateTypeStep ==
  ASSUME TypeOK, [Next]_vars
  PROVE  StateType'
  BY DEF TypeOK, StateType, Next, Remote, McServe, vars, NotifyOpen, NotifyClose, RemoteRead,
     RemoteAnswer, NotifyData, PALOpenCallback, PALDataCallback, ReadMessage,
     ReadDone, DrainWrite, DrainFull, DrainEmpty, DrainOpen, DrainDisable,
     SendWrite, SendQueue, SendEnable, SendMessage, OpenTransport, Shutdown,
     ReOpenTransport, ctsVars, ssrVars, remVars

LEMMA FlagTypeStep ==
  ASSUME TypeOK, [Next]_vars
  PROVE  FlagType'
  BY DEF TypeOK, FlagType, Next, Remote, McServe, vars, NotifyOpen, NotifyClose, RemoteRead,
     RemoteAnswer, NotifyData, PALOpenCallback, PALDataCallback, ReadMessage,
     ReadDone, DrainWrite, DrainFull, DrainEmpty, DrainOpen, DrainDisable,
     SendWrite, SendQueue, SendEnable, SendMessage, OpenTransport, Shutdown,
     ReOpenTransport, ctsVars, ssrVars, remVars

LEMMA CountTypeStep ==
  ASSUME TypeOK, [Next]_vars
  PROVE  CountType'
  BY BoundAssumption DEF TypeOK, CountType, Next, Remote, McServe, vars, NotifyOpen, NotifyClose, RemoteRead,
     RemoteAnswer, NotifyData, PALOpenCallback, PALDataCallback, ReadMessage,
     ReadDone, DrainWrite, DrainFull, DrainEmpty, DrainOpen, DrainDisable,
     SendWrite, SendQueue, SendEnable, SendMessage, OpenTransport, Shutdown,
     ReOpenTransport, ctsVars, ssrVars, remVars

\* What the steps do to a sequence keeps it a sequence.
LEMMA SeqSteps ==
  ASSUME NEW S
  PROVE  /\ <<>> \in Seq(S)
         /\ \A s \in Seq(S), e \in S : Append(s, e) \in Seq(S)
         /\ \A s \in Seq(S) : s # <<>> => Head(s) \in S /\ Tail(s) \in Seq(S)
  OBVIOUS

LEMMA QueueTypeStep ==
  ASSUME TypeOK, [Next]_vars
  PROVE  QueueType'
  <1> DEFINE Msgs == Seq(Nat)
             McMsg == {"open", "data"}
             McMsgs == Seq(McMsg)
  <1>1. /\ <<>> \in Msgs /\ <<>> \in McMsgs
        /\ \A s \in Msgs, m \in Nat : Append(s, m) \in Msgs
        /\ \A s \in Msgs : s # <<>> => Head(s) \in Nat /\ Tail(s) \in Msgs
        /\ \A s \in McMsgs, m \in McMsg : Append(s, m) \in McMsgs
        /\ \A s \in McMsgs : s # <<>> => Tail(s) \in McMsgs
    BY SeqSteps
  <1>2. "open" \in McMsg /\ "data" \in McMsg /\ Msg \in Nat
    BY DEF Msg, TypeOK, CountType
  <1>3. wctsPendingQueue \in Msgs /\ fifo \in Msgs /\ mcq \in McMsgs
    BY DEF TypeOK, QueueType
  <1> SUFFICES wctsPendingQueue' \in Msgs /\ fifo' \in Msgs /\ mcq' \in McMsgs
    BY DEF QueueType
  <1> HIDE DEF Msgs, McMsgs, McMsg
  <1> QED
    BY <1>1, <1>2, <1>3 DEF Next, Remote, McServe, vars, NotifyOpen,
       NotifyClose, RemoteRead, RemoteAnswer, NotifyData, PALOpenCallback,
       PALDataCallback, ReadMessage, ReadDone, DrainWrite, Write, DrainFull,
       DrainEmpty, DrainOpen, DrainDisable, SendWrite, SendQueue, SendEnable,
       SendMessage, OpenTransport, Shutdown, ReOpenTransport, ctsVars, ssrVars,
       remVars

LEMMA TypeStep ==
  ASSUME TypeOK, [Next]_vars
  PROVE  TypeOK'
  BY StateTypeStep, FlagTypeStep, CountTypeStep, QueueTypeStep DEF TypeOK

LEMMA InSessionStep ==
  ASSUME CtsInv, [Next]_vars
  PROVE  InSession'
  <1> USE DEF CtsInv, TypeOK, StateType, FlagType, QueueType,
         CountType, InSession, Consistent
  <1> USE DEF ctsVars, ssrVars, remVars
  <1>1. CASE NotifyOpen
    BY <1>1 DEF NotifyOpen
  <1>2. CASE NotifyClose
    BY <1>2 DEF NotifyClose
  <1>3. CASE RemoteRead \/ RemoteAnswer
    BY <1>3 DEF RemoteRead, RemoteAnswer
  <1>4. CASE PALOpenCallback \/ PALDataCallback
    BY <1>4 DEF PALOpenCallback, PALDataCallback
  <1>5. CASE ReadMessage \/ ReadDone
    BY <1>5 DEF ReadMessage, ReadDone
  <1>6. CASE DrainWrite
    BY <1>6 DEF DrainWrite
  <1>7. CASE DrainFull \/ DrainEmpty \/ DrainOpen \/ DrainDisable
    BY <1>7 DEF DrainFull, DrainEmpty, DrainOpen, DrainDisable
  <1>8. CASE SendWrite
    BY <1>8 DEF SendWrite
  <1>9. CASE SendQueue
    <2>1. wctsPendingQueue' # <<>>
      BY <1>9 DEF SendQueue, Msg, Sending
    <2> QED BY <1>9, <2>1 DEF SendQueue
  <1>10. CASE SendEnable \/ SendMessage
    BY <1>10 DEF SendEnable, SendMessage
  <1>11. CASE OpenTransport
    BY <1>11 DEF OpenTransport, Opening
  <1>12. CASE Shutdown \/ ReOpenTransport
    BY <1>12 DEF Shutdown, ReOpenTransport, Restarting, Opening
  <1>13. CASE UNCHANGED vars
    BY <1>13 DEF vars
  <1> QED
    BY <1>1, <1>2, <1>3, <1>4, <1>5, <1>6, <1>7, <1>8, <1>9, <1>10, <1>11,
       <1>12, <1>13 DEF Next, Remote, McServe

LEMMA OpeningStep ==
  ASSUME CtsInv, [Next]_vars
  PROVE  Opening'
  <1> SUFFICES ASSUME ~opened' PROVE Opening'
    BY DEF Opening
  <1> USE DEF CtsInv, TypeOK, StateType, FlagType, QueueType,
         CountType, Opening
  <1> USE DEF ctsVars, ssrVars, remVars
  <1>0. ~opened
    BY DEF Next, Remote, McServe, vars, NotifyOpen, NotifyClose, RemoteRead,
       RemoteAnswer, PALOpenCallback, PALDataCallback, ReadMessage, ReadDone,
       DrainWrite, DrainFull, DrainEmpty, DrainOpen, DrainDisable, SendWrite,
       SendQueue, SendEnable, SendMessage, OpenTransport, Shutdown,
       ReOpenTransport
  <1>1. CASE NotifyOpen
    BY <1>0, <1>1 DEF NotifyOpen
  <1>2. CASE PALOpenCallback
    BY <1>0, <1>2 DEF PALOpenCallback
  <1>3. CASE PALDataCallback
    <2>1. Head(mcq) = "open"
      BY <1>0, <1>3 DEF PALDataCallback
    <2> QED BY <1>3, <2>1 DEF PALDataCallback
  <1>4. CASE UNCHANGED vars
    BY <1>0, <1>4 DEF vars
  <1> QED
    BY <1>0, <1>1, <1>2, <1>3, <1>4 DEF Next, Remote, McServe, NotifyClose,
       RemoteRead, RemoteAnswer, ReadMessage, ReadDone, DrainWrite, DrainFull,
       DrainEmpty, DrainOpen, DrainDisable, SendWrite, SendQueue, SendEnable,
       SendMessage, OpenTransport, Shutdown, ReOpenTransport

LEMMA RestartingStep ==
  ASSUME CtsInv, [Next]_vars
  PROVE  Restarting'
  <1> USE DEF CtsInv, TypeOK, StateType, FlagType, QueueType,
         CountType, Restarting
  <1> USE DEF ctsVars, ssrVars, remVars
  <1>1. CASE NotifyOpen
    BY <1>1 DEF NotifyOpen
  <1>2. CASE NotifyClose
    BY <1>2 DEF NotifyClose
  <1>3. CASE RemoteRead \/ RemoteAnswer
    BY <1>3 DEF RemoteRead, RemoteAnswer
  <1>4. CASE PALOpenCallback \/ PALDataCallback
    BY <1>4 DEF PALOpenCallback, PALDataCallback
  <1>5. CASE ReadMessage \/ ReadDone
    BY <1>5 DEF ReadMessage, ReadDone
  <1>6. CASE DrainWrite \/ DrainFull \/ DrainEmpty \/ DrainOpen \/ DrainDisable
    BY <1>6 DEF DrainWrite, DrainFull, DrainEmpty, DrainOpen, DrainDisable
  <1>7. CASE SendWrite
    BY <1>7 DEF SendWrite
  <1>8. CASE SendQueue \/ SendEnable \/ SendMessage
    BY <1>8 DEF SendQueue, SendEnable, SendMessage
  <1>9. CASE OpenTransport
    BY <1>9 DEF OpenTransport
  <1>10. CASE Shutdown \/ ReOpenTransport
    BY <1>10 DEF Shutdown, ReOpenTransport
  <1>11. CASE UNCHANGED vars
    BY <1>11 DEF vars
  <1> QED
    BY <1>1, <1>2, <1>3, <1>4, <1>5, <1>6, <1>7, <1>8, <1>9, <1>10, <1>11
    DEF Next, Remote, McServe

LEMMA SendingStep ==
  ASSUME CtsInv, [Next]_vars
  PROVE  Sending'
  BY DEF CtsInv, TypeOK, StateType, CountType, Sending, Next, Remote, McServe, vars, NotifyOpen,
     NotifyClose, RemoteRead, RemoteAnswer, PALOpenCallback, PALDataCallback,
     ReadMessage, ReadDone, DrainWrite, DrainFull, DrainEmpty, DrainOpen,
     DrainDisable, SendWrite, SendQueue, SendEnable, SendMessage,
     OpenTransport, Shutdown, ReOpenTransport, ctsVars, ssrVars, remVars

\* The state, the pending queue and the interrupt agree at every place of the
\* control thread, and a restart finds the transport empty.
THEOREM CtsCorrect == Spec => []CtsInv
  <1>1. Init => CtsInv
    <2> SUFFICES ASSUME Init PROVE CtsInv
      OBVIOUS
    <2>1. <<>> \in Seq(Nat) /\ <<>> \in Seq({"open", "data"})
          /\ <<>> \in Seq({"open"})
      OBVIOUS
    <2>2. TypeOK
      <3>1. StateType /\ FlagType
        BY DEF Init, StateType, FlagType
      <3>2. QueueType
        BY <2>1 DEF Init, QueueType
      <3>3. CountType
        BY DEF Init, CountType
      <3> QED BY <3>1, <3>2, <3>3 DEF TypeOK
    <2>3. InSession /\ Opening /\ Restarting /\ Sending
      BY <2>1 DEF Init, InSession, Opening, Restarting, Sending
    <2> QED BY <2>2, <2>3 DEF CtsInv
  <1>2. CtsInv /\ [Next]_vars => CtsInv'
    <2> SUFFICES ASSUME CtsInv, [Next]_vars PROVE CtsInv'
      OBVIOUS
    <2>1. TypeOK'
      BY TypeStep DEF CtsInv
    <2> QED
      BY <2>1, InSessionStep, OpeningStep, RestartingStep, SendingStep
      DEF CtsInv
  <1> QED BY <1>1, <1>2, PTL DEF Spec

\* The variables of the control transport keep their types.
THEOREM TypeCorrect == Spec => []TypeOK
  <1>1. CtsInv => TypeOK
    BY DEF CtsInv
  <1> QED BY <1>1, CtsCorrect, PTL

\* Between two messages the transport is deferred exactly when it holds
\* messages back, however often the firmware crashed.
THEOREM DeferredCorrect == Spec => []DeferredWhilePending
  <1>1. CtsInv => DeferredWhilePending
    BY DEF CtsInv, InSession, Consistent, DeferredWhilePending
  <1> QED BY <1>1, CtsCorrect, PTL

-----------------------------------------------------------------------------
(* The transport implements the FIFO channel. *)

LEMMA ConcatSteps ==
  ASSUME NEW s \in Seq(Nat), NEW t \in Seq(Nat)
  PROVE  /\ s \o <<>> = s
         /\ s # <<>> => s \o t # <<>> /\ Tail(s \o t) = Tail(s) \o t
         /\ t # <<>> => Append(s, Head(t)) \o Tail(t) = s \o t
         /\ \A m \in Nat : s \o Append(t, m) = Append(s \o t, m)
  <1>1. s \o <<>> = s
    BY ConcatEmptySeq
  <1>2. ASSUME s # <<>>
        PROVE  s \o t # <<>> /\ Tail(s \o t) = Tail(s) \o t
    <2>1. s \o t \in Seq(Nat) /\ s \o t # <<>>
      BY <1>2, ConcatProperties, ConcatEqualIffEmpty
    <2>2. /\ Tail(s) \in Seq(Nat) /\ Len(Tail(s)) = Len(s) - 1
          /\ \A i \in 1 .. Len(Tail(s)) : Tail(s)[i] = s[i + 1]
      BY <1>2, HeadTailProperties
    <2>3. /\ Tail(s \o t) \in Seq(Nat)
          /\ Len(Tail(s \o t)) = Len(s \o t) - 1
          /\ \A i \in 1 .. Len(Tail(s \o t)) : Tail(s \o t)[i] = (s \o t)[i + 1]
      BY <2>1, HeadTailProperties
    <2>4. /\ Len(s \o t) = Len(s) + Len(t)
          /\ \A i \in 1 .. Len(s) + Len(t) :
               (s \o t)[i] = IF i <= Len(s) THEN s[i] ELSE t[i - Len(s)]
      BY ConcatProperties
    <2>5. /\ Tail(s) \o t \in Seq(Nat)
          /\ Len(Tail(s) \o t) = Len(Tail(s)) + Len(t)
          /\ \A i \in 1 .. Len(Tail(s)) + Len(t) : (Tail(s) \o t)[i] =
               IF i <= Len(Tail(s)) THEN Tail(s)[i] ELSE t[i - Len(Tail(s))]
      BY <2>2, ConcatProperties
    <2>6. Len(s) \in Nat /\ Len(t) \in Nat
      BY LenProperties
    <2>7. Len(Tail(s \o t)) = Len(Tail(s) \o t)
      BY <2>2, <2>3, <2>4, <2>5, <2>6
    <2>8. ASSUME NEW i \in 1 .. Len(Tail(s \o t))
          PROVE  Tail(s \o t)[i] = (Tail(s) \o t)[i]
      <3>1. i \in Nat /\ i >= 1 /\ i + 1 \in 1 .. Len(s) + Len(t)
            /\ i \in 1 .. Len(Tail(s)) + Len(t)
        BY <2>2, <2>3, <2>4, <2>6
      <3>2. Tail(s \o t)[i] = IF i + 1 <= Len(s) THEN s[i + 1]
                                                 ELSE t[(i + 1) - Len(s)]
        BY <2>3, <2>4, <3>1
      <3>3. (Tail(s) \o t)[i] = IF i + 1 <= Len(s) THEN Tail(s)[i]
                                                   ELSE t[i - (Len(s) - 1)]
        BY <2>2, <2>5, <2>6, <3>1
      <3>4. i - (Len(s) - 1) = (i + 1) - Len(s)
        BY <2>6, <3>1
      <3>5. CASE i + 1 <= Len(s)
        <4>1. i \in 1 .. Len(Tail(s))
          BY <2>2, <2>6, <3>1, <3>5
        <4> QED BY <2>2, <3>2, <3>3, <3>5, <4>1
      <3>6. CASE ~(i + 1 <= Len(s))
        BY <3>2, <3>3, <3>4, <3>6
      <3> QED BY <3>5, <3>6
    <2> QED BY <2>1, <2>3, <2>5, <2>7, <2>8, SeqEqual, Zenon
  <1>3. ASSUME t # <<>>
        PROVE  Append(s, Head(t)) \o Tail(t) = s \o t
    <2>1. Head(t) \in Nat /\ Tail(t) \in Seq(Nat) /\ <<Head(t)>> \in Seq(Nat)
      BY <1>3, HeadTailProperties
    <2>2. t = <<Head(t)>> \o Tail(t)
      <3>1. 1 \in 1 .. Len(t) /\ Len(t) \in 1 .. Len(t)
        BY <1>3, EmptySeq
      <3>2. SubSeq(t, 1, Len(t)) = t
        BY SubSeqFull
      <3>3. SubSeq(t, 1, Len(t)) = <<t[1]>> \o SubSeq(t, 1 + 1, Len(t))
        BY <3>1, SubSeqRecursiveFirst, Zenon
      <3>4. t[1] = Head(t) /\ SubSeq(t, 1 + 1, Len(t)) = Tail(t)
        BY <1>3, <3>1, TailIsSubSeq
      <3> QED BY <3>2, <3>3, <3>4, Zenon
    <2>3. Append(s, Head(t)) = s \o <<Head(t)>>
      BY <2>1, AppendIsConcat
    <2>4. (s \o <<Head(t)>>) \o Tail(t) = s \o (<<Head(t)>> \o Tail(t))
      BY <2>1, ConcatAssociative
    <2> QED BY <2>2, <2>3, <2>4, Zenon
  <1>4. ASSUME NEW m \in Nat
        PROVE  s \o Append(t, m) = Append(s \o t, m)
    <2>1. <<m>> \in Seq(Nat) /\ s \o t \in Seq(Nat)
      BY ConcatProperties
    <2>2. Append(t, m) = t \o <<m>> /\ Append(s \o t, m) = (s \o t) \o <<m>>
      BY <2>1, AppendIsConcat
    <2>3. (s \o t) \o <<m>> = s \o (t \o <<m>>)
      BY <2>1, ConcatAssociative
    <2> QED BY <2>2, <2>3, Zenon
  <1> QED BY <1>1, <1>2, <1>3, <1>4

\* The channel's variables, as the transport shows them.
Chan == fifo \o wctsPendingQueue

\* Within a session every step sends, delivers, ends the session, or leaves
\* the channel as it is.
LEMMA SessionStep ==
  ASSUME CtsInv, [Next]_vars, session, session'
  PROVE  \/ Channel!Send \/ Channel!Receive
         \/ UNCHANGED <<session, Chan, Accepted>>
  <1>1. /\ wctsPendingQueue \in Seq(Nat) /\ fifo \in Seq(Nat)
        /\ next \in Nat \ {0} /\ Msg \in Nat
    BY DEF CtsInv, TypeOK, QueueType, CountType, Msg
  <1>2. remote = "up" /\ opened /\ ssr = "up" /\ Consistent
    BY DEF CtsInv, InSession
  <1> USE <1>1, <1>2 DEF ctsVars, ssrVars, remVars, Chan, Accepted
  <1>3. CASE RemoteRead
    <2>1. Chan' = Tail(Chan) /\ Chan # <<>>
      BY <1>3, ConcatSteps DEF RemoteRead
    <2>2. Accepted' = Accepted
      BY <1>3 DEF RemoteRead
    <2> QED BY <2>1, <2>2 DEF Channel!Receive
  <1>4. CASE DrainWrite
    <2>1. Chan' = Chan
      BY <1>4, ConcatSteps DEF DrainWrite, Write
    <2>2. Accepted' = Accepted
      BY <1>4 DEF DrainWrite
    <2> QED BY <2>1, <2>2
  <1>5. CASE SendWrite
    <2>1. ret \in {"idle", "read"} /\ next >= 2
      BY <1>5 DEF SendWrite, CtsInv, TypeOK, StateType, Sending
    <2>2. CASE wctsState = "OPEN" /\ Len(fifo) < Room
      <3>0. Write(Msg) /\ mc' = ret /\ mc = "send" /\ next' = next
        <4>1. ~(Len(fifo) >= Room)
          BY <2>2, RoomAssumption, LenProperties
        <4> QED BY <1>5, <2>2, <4>1 DEF SendWrite
      <3>1. wctsPendingQueue = <<>> /\ wctsPendingQueue' = <<>>
        BY <1>5, <2>2 DEF SendWrite, Consistent
      <3>2. fifo' = Append(fifo, Msg)
        BY <3>0 DEF Write
      <3>3. Chan' = Append(Chan, Msg)
        <4>1. Append(fifo, Msg) \in Seq(Nat)
          BY SeqSteps
        <4>2. fifo \o <<>> = fifo /\ Append(fifo, Msg) \o <<>> = Append(fifo, Msg)
          BY <4>1, ConcatEmptySeq
        <4> QED BY <3>1, <3>2, <4>2
      <3>4. Accepted = next - 2 /\ Accepted' = next - 1
        BY <2>1, <3>0
      <3> QED BY <2>1, <3>3, <3>4, SMTT(30) DEF Channel!Send, Msg
    <2>3. CASE ~(wctsState = "OPEN" /\ Len(fifo) < Room)
      <3>1. wctsState \in {"OPEN", "DEFERRED"}
        BY <1>5 DEF SendWrite, Consistent
      <3> QED BY <1>5, <2>3, <3>1 DEF SendWrite
    <2> QED BY <2>2, <2>3
  <1>6. CASE SendQueue
    <2>1. Chan' = Append(Chan, Msg)
      BY <1>6, ConcatSteps DEF SendQueue
    <2>2. next >= 2 /\ Accepted = next - 2 /\ Accepted' = next - 1
      BY <1>6 DEF SendQueue, CtsInv, TypeOK, StateType, Sending
    <2> QED BY <2>1, <2>2, SMTT(30) DEF Channel!Send, Msg
  <1>7. CASE ~(RemoteRead \/ DrainWrite \/ SendWrite \/ SendQueue)
    <2>1. UNCHANGED <<fifo, wctsPendingQueue>>
      BY <1>7 DEF Next, Remote, McServe, vars, NotifyOpen, NotifyClose,
         RemoteAnswer, PALOpenCallback, PALDataCallback, ReadMessage,
         ReadDone, DrainFull, DrainEmpty, DrainOpen, DrainDisable,
         SendEnable, SendMessage, OpenTransport, Shutdown, ReOpenTransport
    <2>2. CASE SendMessage \/ ReadMessage
      <3>1. \/ UNCHANGED <<mc, next>>
            \/ /\ mc \in {"idle", "read"} /\ mc' = "send"
               /\ next' = next + 1
        BY <2>2 DEF SendMessage, ReadMessage
      <3>2. Accepted' = Accepted
        BY <3>1
      <3> QED BY <2>1, <2>2, <3>2 DEF SendMessage, ReadMessage
    <2>3. CASE SendEnable
      BY <2>1, <2>3 DEF SendEnable, CtsInv, TypeOK, StateType
    <2>4. CASE ~(SendMessage \/ ReadMessage \/ SendEnable)
      BY <1>7, <2>1, <2>4 DEF Next, Remote, McServe, vars, NotifyOpen,
         NotifyClose, RemoteAnswer, PALOpenCallback, PALDataCallback, ReadDone,
         DrainFull, DrainEmpty, DrainOpen, DrainDisable, OpenTransport,
         Shutdown, ReOpenTransport
    <2> QED BY <2>2, <2>3, <2>4
  <1> QED BY <1>3, <1>4, <1>5, <1>6, <1>7

\* A session begins when the transport is opened or opened again, empty.
LEMMA BeginStep ==
  ASSUME CtsInv, [Next]_vars, ~session, session'
  PROVE  Channel!Begin
  <1>1. CASE OpenTransport
    BY <1>1 DEF OpenTransport, CtsInv, Opening, Channel!Begin, Accepted,
       remVars
  <1>2. CASE ReOpenTransport
    BY <1>2 DEF ReOpenTransport, CtsInv, Restarting, Channel!Begin, Accepted,
       remVars
  <1> QED
    BY <1>1, <1>2 DEF Next, Remote, McServe, vars, NotifyOpen, NotifyClose,
       RemoteRead, RemoteAnswer, PALOpenCallback, PALDataCallback, ReadMessage,
       ReadDone, DrainWrite, DrainFull, DrainEmpty, DrainOpen, DrainDisable,
       SendWrite, SendQueue, SendEnable, SendMessage, Shutdown, ctsVars,
       ssrVars, remVars

\* Only a crash ends a session.
LEMMA BreakStep ==
  ASSUME CtsInv, [Next]_vars, session, ~session'
  PROVE  Channel!Break
  <1>1. ssr = "up"
    BY DEF CtsInv, InSession
  <1>2. NotifyClose
    BY <1>1 DEF CtsInv, InSession, Next, Remote, McServe, vars, NotifyOpen,
       RemoteRead, RemoteAnswer, PALOpenCallback, PALDataCallback, ReadMessage,
       ReadDone, DrainWrite, DrainFull, DrainEmpty, DrainOpen, DrainDisable,
       SendWrite, SendQueue, SendEnable, SendMessage, OpenTransport, Shutdown,
       ReOpenTransport, ctsVars, ssrVars, remVars
  <1> QED
    BY <1>2 DEF NotifyClose, Channel!Break, Accepted, CtsInv, TypeOK, FlagType

\* Messages are numbered as they are accepted, in a session or not.
LEMMA AcceptedStep ==
  ASSUME CtsInv, [Next]_vars
  PROVE  Accepted \in Nat /\ Accepted' \in Nat /\ Accepted' >= Accepted
  BY DEF CtsInv, TypeOK, StateType, CountType, Sending, Accepted, Next,
     Remote, McServe, vars, NotifyOpen, NotifyClose, RemoteRead, RemoteAnswer,
     PALOpenCallback, PALDataCallback, ReadMessage, ReadDone, DrainWrite,
     DrainFull, DrainEmpty, DrainOpen, DrainDisable, SendWrite, SendQueue,
     SendEnable, SendMessage, OpenTransport, Shutdown, ReOpenTransport,
     ctsVars, ssrVars, remVars

\* The control transport is a FIFO channel: no message of a session is lost,
\* repeated or overtaken, for a channel of any size and any number of crashes.
THEOREM ImplementsChannel == Spec => ChannelSpec
  <1>1. Init => Channel!Init
    BY DEF Init, Channel!Init, Accepted
  <1>2. CtsInv /\ [Next]_vars => [Channel!Next]_(Channel!chanVars)
    <2> SUFFICES ASSUME CtsInv, [Next]_vars
                 PROVE  [Channel!Next]_(Channel!chanVars)
      OBVIOUS
    <2>1. CASE session /\ session'
      BY <2>1, SessionStep DEF Chan, Channel!Next, Channel!chanVars
    <2>2. CASE ~session /\ session'
      BY <2>2, BeginStep DEF Channel!Next
    <2>3. CASE session /\ ~session'
      BY <2>3, BreakStep DEF Channel!Next
    <2>4. CASE ~session /\ ~session'
      BY <2>4, AcceptedStep DEF Channel!Next, Channel!Broken
    <2> QED BY <2>1, <2>2, <2>3, <2>4
  <1> QED BY <1>1, <1>2, CtsCorrect, PTL DEF Spec, ChannelSpec, Channel!Spec

=============================================================================
