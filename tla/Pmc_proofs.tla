----------------------------- MODULE Pmc_proofs -----------------------------
(***************************************************************************)
(* Proofs about Pmc, for any situations: any number of command buffers,    *)
(* calls, power saves, suspends, lost answers and failed allocations.      *)
(*                                                                         *)
(* The one thing they assume is that the disconnect that is put before a   *)
(* standby of a connected station finds a buffer, ~StandbyStarved: without *)
(* one the standby is processed after it has left the active list.  The    *)
(* last two theorems show that this is so wherever there are two buffers,  *)
(* no connection waits for a key and no wait times out, Ample.             *)
(***************************************************************************)
EXTENDS Pmc, FiniteSetTheorems, FunctionTheorems, SequenceTheorems, TLAPS
-----------------------------------------------------------------------------
(***************************************************************************)
(* Worlds, and the changes of them that the invariant cares for.           *)
(***************************************************************************)
Worlds == [pmc: PmcRecord, sme: SmeRecord, toPe: Seq(PmcType),
           link: LinkRecord, hdd: HddRecord]

\* What a call may have left to do.
Kind == {"none", "csr", "hdd", "user", "bmps", "wowl", "imps", "uapsd", "standby"}

\* The power saves that are enabled, the requests to PE, the connection and
\* where HDD is have not changed.
Alike(w, v) ==
  /\ v \in Worlds
  /\ v.pmc.imps = w.pmc.imps /\ v.pmc.bmps = w.pmc.bmps
  /\ v.toPe = w.toPe /\ v.link = w.link /\ v.hdd.pc = w.hdd.pc

\* Nothing else differs but bmpsRequestQueued and the lists of commands, as far
\* as the invariant tells.
Kept(w, v) ==
  /\ Alike(w, v)
  /\ v.pmc.state = w.pmc.state
  /\ v.pmc.full = w.pmc.full /\ v.hdd.full = w.hdd.full
  /\ "standby" \in v.pmc.waiting <=> "standby" \in w.pmc.waiting

\* Those have not changed either.
Same(w, v) == Kept(w, v) /\ v.sme = w.sme /\ v.pmc.bmpsQueued = w.pmc.bmpsQueued

\* Everybody who waits for full power has been told.
FullGiven(w, v) ==
  /\ v.pmc.full = {}
  /\ v.sme.free = w.sme.free /\ v.sme.active = w.sme.active
  /\ IF "csr" \in w.pmc.full
     THEN v.sme.pending = w.sme.pending \o w.sme.csr /\ v.sme.csr = <<>>
     ELSE v.sme.pending = w.sme.pending /\ v.sme.csr = w.sme.csr

\* A command of type t has been put on the queue.
Queues(w, v, t) ==
  /\ v.sme.free = IF w.sme.free > 0 THEN w.sme.free - 1 ELSE w.sme.free
  /\ v.sme.pending = Append(w.sme.pending, [type |-> t, pooled |-> w.sme.free > 0])
  /\ v.sme.active = w.sme.active /\ v.sme.csr = w.sme.csr

\* The same, and nothing else has changed.
Issued(w, v, t) == Kept(w, v) /\ Queues(w, v, t)

LEMMA SameIs ==
  ASSUME NEW w, NEW v, Same(w, v)
  PROVE  v \in Worlds /\ Kept(w, v) /\ Alike(w, v)
  BY DEF Same, Kept, Alike

\* Timers, flags and callbacks change nothing the invariant speaks of.
LEMMA TrafficTimer ==
  ASSUME NEW w \in Worlds
  PROVE  Same(w, StartTrafficTimer(w))
  BY DEF Same, Kept, Alike, StartTrafficTimer, ShouldBmpsTimerRun, Worlds, PmcRecord

LEMMA TellSame ==
  ASSUME NEW w \in Worlds, NEW who \in {"imps", "bmps", "uapsd", "wowl"}
  PROVE  Same(w, Tell(w, who))
  BY DEF Same, Kept, Alike, Tell, Worlds, PmcRecord

LEMMA ForgetSame ==
  ASSUME NEW w \in Worlds
  PROVE  Same(w, Forget(w))
  BY DEF Same, Kept, Alike, Forget, Worlds, PmcRecord

\* HDD is told about its standby.
LEMMA StandbyCallbacks ==
  ASSUME NEW w \in Worlds, NEW ok \in BOOLEAN
  PROVE  LET v == DoStandbyCallbacks(w, ok)
         IN  /\ Alike(w, v) /\ v.sme = w.sme
             /\ v.pmc.state = w.pmc.state /\ v.pmc.bmpsQueued = w.pmc.bmpsQueued
             /\ v.pmc.full = w.pmc.full /\ v.hdd.full = w.hdd.full
             /\ "standby" \notin v.pmc.waiting
  <1> DEFINE u == Tell(w, "standby")
             v == [u EXCEPT !.hdd.standby = ok, !.hdd.ps = @ \/ ok]
  <1>1. /\ u \in Worlds /\ u.sme = w.sme /\ u.toPe = w.toPe /\ u.link = w.link
        /\ u.hdd = w.hdd /\ u.pmc.imps = w.pmc.imps /\ u.pmc.bmps = w.pmc.bmps
        /\ u.pmc.state = w.pmc.state /\ u.pmc.bmpsQueued = w.pmc.bmpsQueued
        /\ u.pmc.full = w.pmc.full /\ "standby" \notin u.pmc.waiting
    BY DEF Tell, Worlds, PmcRecord
  <1>2. u \in Worlds
    BY <1>1
  <1> HIDE DEF u
  <1>3. v \in Worlds /\ v.pmc = u.pmc /\ v.sme = u.sme /\ v.toPe = u.toPe
        /\ v.link = u.link /\ v.hdd.pc = u.hdd.pc /\ v.hdd.full = u.hdd.full
    BY <1>2 DEF Worlds, HddRecord
  <1>4. CASE "standby" \in w.pmc.waiting
    BY <1>1, <1>3, <1>4 DEF DoStandbyCallbacks, u, Alike
  <1>5. CASE "standby" \notin w.pmc.waiting
    BY <1>5 DEF DoStandbyCallbacks, Alike
  <1> QED BY <1>4, <1>5

\* csrFullPowerCallback puts what CSR has held back on the queue.
LEMMA Called ==
  ASSUME NEW w \in Worlds
  PROVE  LET v == CsrFullPowerCallback(w)
         IN  /\ v \in Worlds
             /\ v.pmc = w.pmc /\ v.toPe = w.toPe /\ v.link = w.link /\ v.hdd = w.hdd
             /\ v.sme.pending = w.sme.pending \o w.sme.csr
             /\ v.sme.csr = <<>> /\ v.sme.free = w.sme.free
             /\ v.sme.active = w.sme.active
  <1>1. w.sme.pending \o w.sme.csr \in Seq(Command) /\ <<>> \in Seq(Command)
    BY DEF Worlds, SmeRecord
  <1> QED BY <1>1 DEF CsrFullPowerCallback, Worlds, SmeRecord

\* Those who wait for full power are taken off the list.
Told(w, s, a, b) ==
  [w EXCEPT !.pmc.full = {}, !.pmc.waiting = s, !.hdd.full = a, !.hdd.ps = b]

LEMMA ToldIs ==
  ASSUME NEW w \in Worlds, NEW a \in BOOLEAN, NEW b \in BOOLEAN,
         NEW s \in SUBSET {"imps", "bmps", "uapsd", "wowl", "standby"}
  PROVE  LET u == Told(w, s, a, b)
         IN  /\ Alike(w, u) /\ u.pmc.state = w.pmc.state
             /\ u.pmc.bmpsQueued = w.pmc.bmpsQueued
             /\ u.pmc.waiting = s /\ u.pmc.full = {} /\ u.sme = w.sme
  <1> DEFINE p == [w.pmc EXCEPT !.full = {}, !.waiting = s]
             h == [w.hdd EXCEPT !.full = a, !.ps = b]
  <1>1. Told(w, s, a, b) = [w EXCEPT !.pmc = p, !.hdd = h]
    BY DEF Told, Worlds
  <1>2. w.pmc \in PmcRecord /\ w.hdd \in HddRecord
    BY DEF Worlds
  <1>3. /\ p \in PmcRecord /\ p.state = w.pmc.state
        /\ p.bmpsQueued = w.pmc.bmpsQueued /\ p.waiting = s /\ p.full = {}
        /\ p.imps = w.pmc.imps /\ p.bmps = w.pmc.bmps
    BY <1>2 DEF PmcRecord
  <1>4. h \in HddRecord /\ h.pc = w.hdd.pc
    BY <1>2 DEF HddRecord
  <1> HIDE DEF p, h
  <1> QED BY <1>1, <1>3, <1>4 DEF Alike, Worlds

\* Full power is entered only by the requests that may end there, and
\* everybody who waits for it is told.
LEMMA Callbacks ==
  ASSUME NEW w \in Worlds
  PROVE  LET v == DoCallbacks(w)
         IN  /\ Alike(w, v) /\ v.pmc.state = w.pmc.state
             /\ v.pmc.bmpsQueued = w.pmc.bmpsQueued
             /\ "standby" \in v.pmc.waiting <=> "standby" \in w.pmc.waiting
             /\ FullGiven(w, v)
  <1> DEFINE who == w.pmc.full
             s == w.pmc.waiting \ {"imps"}
             a == w.hdd.full \/ "hdd" \in who
             b == w.hdd.ps /\ "hdd" \notin who
             u == Told(w, s, a, b)
  <1>1. /\ Alike(w, u) /\ u.pmc.state = w.pmc.state
        /\ u.pmc.bmpsQueued = w.pmc.bmpsQueued
        /\ "standby" \in u.pmc.waiting <=> "standby" \in w.pmc.waiting
        /\ u.pmc.full = {} /\ u.sme = w.sme
    <2>1. /\ s \in SUBSET {"imps", "bmps", "uapsd", "wowl", "standby"}
          /\ "standby" \in s <=> "standby" \in w.pmc.waiting
      BY DEF Worlds, PmcRecord
    <2>2. a \in BOOLEAN /\ b \in BOOLEAN
      BY DEF Worlds, HddRecord
    <2> HIDE DEF s, a, b
    <2>3. /\ Alike(w, u) /\ u.pmc.state = w.pmc.state
          /\ u.pmc.bmpsQueued = w.pmc.bmpsQueued
          /\ u.pmc.waiting = s /\ u.pmc.full = {} /\ u.sme = w.sme
      BY <2>1, <2>2, ToldIs
    <2> QED BY <2>1, <2>3
  <1>2. DoCallbacks(w) = IF "csr" \in who THEN CsrFullPowerCallback(u) ELSE u
    BY DEF DoCallbacks, Told
  <1> HIDE DEF u
  <1>3. u \in Worlds
    BY <1>1 DEF Alike
  <1>4. CASE "csr" \in who
    <2> DEFINE v == CsrFullPowerCallback(u)
    <2>1. /\ v \in Worlds
          /\ v.pmc = u.pmc /\ v.toPe = u.toPe /\ v.link = u.link /\ v.hdd = u.hdd
          /\ v.sme.pending = u.sme.pending \o u.sme.csr
          /\ v.sme.csr = <<>> /\ v.sme.free = u.sme.free
          /\ v.sme.active = u.sme.active
      BY <1>3, Called
    <2> HIDE DEF v
    <2>2. DoCallbacks(w) = v
      BY <1>2, <1>4 DEF v
    <2>3. Alike(w, v)
      BY <1>1, <2>1 DEF Alike
    <2>4. FullGiven(w, v)
      BY <1>1, <1>4, <2>1 DEF FullGiven
    <2> QED BY <1>1, <2>1, <2>2, <2>3, <2>4
  <1>5. CASE "csr" \notin who
    BY <1>1, <1>2, <1>5 DEF Alike, FullGiven
  <1> QED BY <1>4, <1>5

LEMMA FullPowerEntered ==
  ASSUME NEW w \in Worlds
  PROVE  LET v == EnterFullPowerState(w)
         IN  IF w.pmc.state \in {"REQUEST_FULL_POWER", "REQUEST_IMPS",
                                 "REQUEST_BMPS", "REQUEST_STANDBY"}
             THEN /\ Alike(w, v) /\ v.pmc.state = "FULL_POWER"
                  /\ v.pmc.bmpsQueued = w.pmc.bmpsQueued
                  /\ "standby" \in v.pmc.waiting <=> "standby" \in w.pmc.waiting
                  /\ FullGiven(w, v)
             ELSE v = w
  <1> DEFINE u == [w EXCEPT !.pmc.state = "FULL_POWER", !.pmc.pending = FALSE]
             x == StartTrafficTimer(u)
  <1>1. /\ Alike(w, u) /\ u.pmc.state = "FULL_POWER"
        /\ u.pmc.bmpsQueued = w.pmc.bmpsQueued
        /\ "standby" \in u.pmc.waiting <=> "standby" \in w.pmc.waiting
        /\ u.pmc.full = w.pmc.full /\ u.sme = w.sme
    BY DEF Alike, Worlds, PmcRecord, PmcState
  <1> HIDE DEF u
  <1>2. u \in Worlds
    BY <1>1 DEF Alike
  <1>3. Same(u, x)
    BY <1>2, TrafficTimer
  <1>4. EnterFullPowerState(w) =
          IF w.pmc.state \in {"REQUEST_FULL_POWER", "REQUEST_IMPS",
                                 "REQUEST_BMPS", "REQUEST_STANDBY"}
          THEN DoCallbacks(x) ELSE w
    BY DEF EnterFullPowerState, u
  <1> HIDE DEF x
  <1>5. x \in Worlds
    BY <1>3, SameIs
  <1> DEFINE v == DoCallbacks(x)
  <1>6. /\ Alike(x, v) /\ v.pmc.state = x.pmc.state
        /\ v.pmc.bmpsQueued = x.pmc.bmpsQueued
        /\ "standby" \in v.pmc.waiting <=> "standby" \in x.pmc.waiting
        /\ FullGiven(x, v)
    BY <1>5, Callbacks
  <1> HIDE DEF v
  <1>7. Alike(w, v) /\ FullGiven(w, v)
    BY <1>1, <1>3, <1>6 DEF Same, Kept, Alike, FullGiven
  <1>8. /\ v.pmc.state = "FULL_POWER"
        /\ v.pmc.bmpsQueued = w.pmc.bmpsQueued
        /\ "standby" \in v.pmc.waiting <=> "standby" \in w.pmc.waiting
    BY <1>1, <1>3, <1>6 DEF Same, Kept
  <1> QED BY <1>4, <1>7, <1>8 DEF v

-----------------------------------------------------------------------------
(***************************************************************************)
(* Command buffers.                                                        *)
(***************************************************************************)
LEMMA AppendTypes ==
  ASSUME NEW w \in Worlds, NEW t \in SmeType \cup PmcType,
         t \in PmcType \/ w.sme.free > 0
  PROVE  /\ NewCommand(w, t) \in Command
         /\ Append(w.sme.pending, NewCommand(w, t)) \in Seq(Command)
  <1>1. w.sme.free \in Nat /\ w.sme.pending \in Seq(Command)
    BY DEF Worlds, SmeRecord
  <1> DEFINE b == w.sme.free > 0
             c == [type |-> t, pooled |-> b]
  <1>2. b \in BOOLEAN /\ (t \in PmcType \/ b = TRUE)
    BY <1>1
  <1> HIDE DEF b
  <1>3. c \in Command
    BY <1>2 DEF Command
  <1>4. NewCommand(w, t) = c
    BY DEF NewCommand, b
  <1> HIDE DEF c
  <1> QED BY <1>1, <1>3, <1>4

LEMMA TakeBufferIs ==
  ASSUME NEW w \in Worlds
  PROVE  LET v == TakeBuffer(w)
         IN  /\ v \in Worlds
             /\ v.pmc = w.pmc /\ v.toPe = w.toPe /\ v.link = w.link /\ v.hdd = w.hdd
             /\ v.sme.free = IF w.sme.free > 0 THEN w.sme.free - 1 ELSE w.sme.free
             /\ v.sme.pending = w.sme.pending
             /\ v.sme.active = w.sme.active /\ v.sme.csr = w.sme.csr
  <1> DEFINE n == IF w.sme.free > 0 THEN w.sme.free - 1 ELSE w.sme.free
  <1>1. n \in Nat
    BY DEF Worlds, SmeRecord
  <1>2. TakeBuffer(w) = [w EXCEPT !.sme.free = n]
    BY DEF TakeBuffer
  <1> HIDE DEF n
  <1>3. LET v == [w EXCEPT !.sme.free = n]
        IN  /\ v \in Worlds
             /\ v.pmc = w.pmc /\ v.toPe = w.toPe /\ v.link = w.link /\ v.hdd = w.hdd
             /\ v.sme.free = n
             /\ v.sme.pending = w.sme.pending
             /\ v.sme.active = w.sme.active /\ v.sme.csr = w.sme.csr
    BY <1>1 DEF Worlds, SmeRecord
  <1> QED BY <1>2, <1>3 DEF n

LEMMA ReleaseIs ==
  ASSUME NEW w \in Worlds, NEW c \in Command
  PROVE  LET v == Release(w, c)
         IN  /\ v \in Worlds
             /\ v.pmc = w.pmc /\ v.toPe = w.toPe /\ v.link = w.link /\ v.hdd = w.hdd
             /\ v.sme.free = IF c.pooled THEN w.sme.free + 1 ELSE w.sme.free
             /\ v.sme.pending = w.sme.pending
             /\ v.sme.active = w.sme.active /\ v.sme.csr = w.sme.csr
  <1> DEFINE n == IF c.pooled THEN w.sme.free + 1 ELSE w.sme.free
  <1>1. n \in Nat
    BY DEF Worlds, SmeRecord
  <1>2. Release(w, c) = [w EXCEPT !.sme.free = n]
    BY DEF Release
  <1> HIDE DEF n
  <1>3. LET v == [w EXCEPT !.sme.free = n]
        IN  /\ v \in Worlds
             /\ v.pmc = w.pmc /\ v.toPe = w.toPe /\ v.link = w.link /\ v.hdd = w.hdd
             /\ v.sme.free = n
             /\ v.sme.pending = w.sme.pending
             /\ v.sme.active = w.sme.active /\ v.sme.csr = w.sme.csr
    BY <1>1 DEF Worlds, SmeRecord
  <1> QED BY <1>2, <1>3 DEF n

LEMMA PushIs ==
  ASSUME NEW w \in Worlds, NEW c \in Command, NEW high \in BOOLEAN
  PROVE  LET v == Push(w, c, high)
         IN  /\ v \in Worlds
             /\ v.pmc = w.pmc /\ v.toPe = w.toPe /\ v.link = w.link /\ v.hdd = w.hdd
             /\ v.sme.free = w.sme.free
             /\ v.sme.pending = IF high THEN <<c>> \o w.sme.pending
                                        ELSE Append(w.sme.pending, c)
             /\ v.sme.active = w.sme.active /\ v.sme.csr = w.sme.csr
  <1> DEFINE p == IF high THEN <<c>> \o w.sme.pending ELSE Append(w.sme.pending, c)
  <1>1. p \in Seq(Command)
    BY DEF Worlds, SmeRecord
  <1>2. Push(w, c, high) = [w EXCEPT !.sme.pending = p]
    BY DEF Push
  <1> HIDE DEF p
  <1>3. LET v == [w EXCEPT !.sme.pending = p]
        IN  /\ v \in Worlds
             /\ v.pmc = w.pmc /\ v.toPe = w.toPe /\ v.link = w.link /\ v.hdd = w.hdd
             /\ v.sme.free = w.sme.free
             /\ v.sme.pending = p
             /\ v.sme.active = w.sme.active /\ v.sme.csr = w.sme.csr
    BY <1>1 DEF Worlds, SmeRecord
  <1> QED BY <1>2, <1>3 DEF p

LEMMA IssueIs ==
  ASSUME NEW w \in Worlds, NEW t \in PmcType
  PROVE  LET v == Issue(w, t)
         IN  Issued(w, v, t) /\ v.pmc = w.pmc
  <1> DEFINE u == TakeBuffer(w)
             c == NewCommand(w, t)
             v == Push(u, c, FALSE)
  <1>1. c \in Command
    BY AppendTypes
  <1>2. /\ u \in Worlds
        /\ u.pmc = w.pmc /\ u.toPe = w.toPe /\ u.link = w.link /\ u.hdd = w.hdd
        /\ u.sme.free = IF w.sme.free > 0 THEN w.sme.free - 1 ELSE w.sme.free
        /\ u.sme.pending = w.sme.pending
        /\ u.sme.active = w.sme.active /\ u.sme.csr = w.sme.csr
    BY TakeBufferIs
  <1>3. /\ v \in Worlds
        /\ v.pmc = u.pmc /\ v.toPe = u.toPe /\ v.link = u.link /\ v.hdd = u.hdd
        /\ v.sme.free = u.sme.free
        /\ v.sme.pending = Append(u.sme.pending, c)
        /\ v.sme.active = u.sme.active /\ v.sme.csr = u.sme.csr
    <2> HIDE DEF u, c
    <2> QED BY <1>1, <1>2, PushIs
  <1>4. Issue(w, t) = v
    BY DEF Issue
  <1>5. c = [type |-> t, pooled |-> w.sme.free > 0]
    BY DEF NewCommand
  <1> HIDE DEF v, u, c
  <1> QED BY <1>2, <1>3, <1>4, <1>5 DEF Issued, Kept, Alike, Queues

LEMMA IssueIfAnyIs ==
  ASSUME NEW w \in Worlds, NEW t \in PmcType
  PROVE  LET v == IssueIfAny(w, t)
         IN  /\ Same(w, v) \/ Issued(w, v, t)
             /\ v.pmc = w.pmc
  <1>1. CASE CanPrepare(w, t)
    BY <1>1, IssueIs DEF IssueIfAny
  <1>2. CASE ~CanPrepare(w, t)
    BY <1>2 DEF IssueIfAny, Same, Kept, Alike
  <1> QED BY <1>1, <1>2

\* The power states, and the commands that may follow on the entry of one.
Saving == {"IMPS", "STANDBY", "BMPS", "UAPSD", "WOWL"}
Follow == Exit \cup {"enterUapsd", "enterWowl"}

LEMMA ExitTypes ==
  /\ DOMAIN ExitOf = Saving
  /\ \A s \in Saving : ExitOf[s] \in Exit
  BY DEF ExitOf, Saving, Exit

\* From a power state a command is issued that leaves it; otherwise full power
\* is there, on its way, or is remembered.
LEMMA FullPowerRequested ==
  ASSUME NEW w \in Worlds
  PROVE  LET v == EnterRequestFullPowerState(w)
         IN  IF w.pmc.state \in Saving THEN Issued(w, v, ExitOf[w.pmc.state]) /\ v.pmc = w.pmc
                                       ELSE Same(w, v)
  <1>1. CASE w.pmc.state \in Saving
    <2>1. ExitOf[w.pmc.state] \in PmcType
      BY <1>1, ExitTypes DEF PmcType
    <2>2. EnterRequestFullPowerState(w) = Issue(w, ExitOf[w.pmc.state])
      BY <1>1, ExitTypes DEF EnterRequestFullPowerState
    <2> QED BY <1>1, <2>1, <2>2, IssueIs
  <1>2. CASE w.pmc.state \in {"FULL_POWER", "REQUEST_FULL_POWER"}
    <2>1. EnterRequestFullPowerState(w) = w /\ w.pmc.state \notin Saving
      BY <1>2, ExitTypes DEF EnterRequestFullPowerState, Saving
    <2> QED BY <2>1 DEF Same, Kept, Alike
  <1>3. CASE w.pmc.state \notin Saving \cup {"FULL_POWER", "REQUEST_FULL_POWER"}
    <2>1. EnterRequestFullPowerState(w) = [w EXCEPT !.pmc.pending = TRUE]
      BY <1>3, ExitTypes DEF EnterRequestFullPowerState
    <2>2. Same(w, [w EXCEPT !.pmc.pending = TRUE])
      BY DEF Same, Kept, Alike, Worlds, PmcRecord
    <2> QED BY <1>3, <2>1, <2>2
  <1> QED BY <1>1, <1>2, <1>3
-----------------------------------------------------------------------------
(***************************************************************************)
(* The changes of state.                                                   *)
(***************************************************************************)

\* A power state is entered, and what was asked for meanwhile is queued.
Enters(w, v, st) ==
  /\ Alike(w, v) /\ v.pmc.state = st
  /\ v.pmc.bmpsQueued = w.pmc.bmpsQueued
  /\ v.pmc.full = w.pmc.full /\ v.hdd.full = w.hdd.full
  /\ "standby" \in v.pmc.waiting <=> "standby" \in w.pmc.waiting
  /\ v.sme = w.sme \/ \E x \in Follow : Queues(w, v, x)

LEMMA EntersAfter ==
  ASSUME NEW w \in Worlds, NEW u \in Worlds, NEW st \in Saving,
         Alike(w, u), u.pmc.state = st, u.pmc.bmpsQueued = w.pmc.bmpsQueued,
         u.pmc.full = w.pmc.full, u.hdd.full = w.hdd.full, u.sme = w.sme,
         "standby" \in u.pmc.waiting <=> "standby" \in w.pmc.waiting
  PROVE  /\ Enters(w, u, st)
         /\ Enters(w, EnterRequestFullPowerState(u), st)
         /\ \A x \in Follow : Enters(w, IssueIfAny(u, x), st)
  <1>1. ASSUME NEW v, Same(u, v) PROVE Enters(w, v, st)
    BY <1>1 DEF Enters, Same, Kept, Alike
  <1>2. ASSUME NEW v, NEW x \in Follow, Issued(u, v, x), v.pmc = u.pmc
        PROVE  Enters(w, v, st)
    <2>1. Queues(w, v, x)
      BY <1>2 DEF Issued, Queues
    <2> QED BY <1>2, <2>1 DEF Enters, Issued, Kept, Alike
  <1>3. Enters(w, u, st)
    BY DEF Enters
  <1>4. Enters(w, EnterRequestFullPowerState(u), st)
    <2> DEFINE v == EnterRequestFullPowerState(u)
    <2>1. Issued(u, v, ExitOf[st]) /\ v.pmc = u.pmc
      BY FullPowerRequested
    <2>2. ExitOf[st] \in Follow
      BY ExitTypes DEF Follow
    <2> QED BY <2>1, <2>2, <1>2
  <1>5. ASSUME NEW x \in Follow PROVE Enters(w, IssueIfAny(u, x), st)
    <2> DEFINE v == IssueIfAny(u, x)
    <2>0. x \in PmcType
      BY DEF Follow, PmcType, Enter
    <2>1. /\ Same(u, v) \/ Issued(u, v, x)
          /\ v.pmc = u.pmc
      BY <2>0, IssueIfAnyIs
    <2> HIDE DEF v
    <2>2. Enters(w, v, st)
      BY <2>1, <1>1, <1>2
    <2> QED BY <2>2 DEF v
  <1> QED BY <1>3, <1>4, <1>5

\* The world in which the state is entered, before what follows.
LEMMA StateSet ==
  ASSUME NEW w \in Worlds, NEW st \in PmcState
  PROVE  LET u == [w EXCEPT !.pmc.state = st]
         IN  /\ u \in Worlds
             /\ Alike(w, u) /\ u.pmc.state = st /\ u.pmc.bmpsQueued = w.pmc.bmpsQueued
             /\ u.pmc.full = w.pmc.full /\ u.hdd.full = w.hdd.full /\ u.sme = w.sme
             /\ "standby" \in u.pmc.waiting <=> "standby" \in w.pmc.waiting
             /\ u.pmc.waiting = w.pmc.waiting
  BY DEF Alike, Worlds, PmcRecord

LEMMA SavingStates == Saving \subseteq PmcState
  BY DEF Saving, PmcState

LEMMA ImpsEntered ==
  ASSUME NEW w \in Worlds
  PROVE  Enters(w, EnterImpsState(w), "IMPS")
  <1> DEFINE u == [w EXCEPT !.pmc.state = "IMPS"]
             x == [u EXCEPT !.pmc.impsTimer = TRUE]
  <1>0. "IMPS" \in Saving /\ "IMPS" \in PmcState
    BY SavingStates DEF Saving
  <1>1. EnterImpsState(w) = IF w.pmc.pending THEN EnterRequestFullPowerState(u) ELSE x
    BY DEF EnterImpsState
  <1>2. /\ u \in Worlds
        /\ Alike(w, u) /\ u.pmc.state = "IMPS" /\ u.pmc.bmpsQueued = w.pmc.bmpsQueued
        /\ u.pmc.full = w.pmc.full /\ u.hdd.full = w.hdd.full /\ u.sme = w.sme
        /\ "standby" \in u.pmc.waiting <=> "standby" \in w.pmc.waiting
    BY <1>0, StateSet
  <1> HIDE DEF u
  <1>3. x \in Worlds /\ Same(u, x)
    BY <1>2 DEF Same, Kept, Alike, Worlds, PmcRecord
  <1>4. Enters(w, x, "IMPS")
    BY <1>2, <1>3 DEF Enters, Same, Kept, Alike
  <1>5. Enters(w, EnterRequestFullPowerState(u), "IMPS")
    BY <1>0, <1>2, EntersAfter
  <1> QED BY <1>1, <1>4, <1>5

LEMMA StandbyEntered ==
  ASSUME NEW w \in Worlds
  PROVE  Enters(w, EnterStandbyState(w), "STANDBY")
  <1>0. "STANDBY" \in Saving /\ "STANDBY" \in PmcState
    BY SavingStates DEF Saving
  <1> QED BY <1>0, StateSet, EntersAfter DEF EnterStandbyState

LEMMA UapsdEntered ==
  ASSUME NEW w \in Worlds
  PROVE  Enters(w, EnterUapsdState(w), "UAPSD")
  <1>0. "UAPSD" \in Saving /\ "UAPSD" \in PmcState
    BY SavingStates DEF Saving
  <1> QED BY <1>0, StateSet, EntersAfter DEF EnterUapsdState

LEMMA WowlEntered ==
  ASSUME NEW w \in Worlds
  PROVE  Enters(w, EnterWowlState(w), "WOWL")
  <1> DEFINE u == [w EXCEPT !.pmc.state = "WOWL", !.pmc.wowl = FALSE]
  <1>0. "WOWL" \in Saving
    BY DEF Saving
  <1>1. EnterWowlState(w) = IF w.pmc.pending THEN EnterRequestFullPowerState(u) ELSE u
    BY DEF EnterWowlState
  <1>2. /\ u \in Worlds
        /\ Alike(w, u) /\ u.pmc.state = "WOWL" /\ u.pmc.bmpsQueued = w.pmc.bmpsQueued
        /\ u.pmc.full = w.pmc.full /\ u.hdd.full = w.hdd.full /\ u.sme = w.sme
        /\ "standby" \in u.pmc.waiting <=> "standby" \in w.pmc.waiting
    BY DEF Alike, Worlds, PmcRecord, PmcState
  <1> HIDE DEF u
  <1> QED BY <1>0, <1>1, <1>2, EntersAfter

LEMMA BmpsEntered ==
  ASSUME NEW w \in Worlds
  PROVE  LET v == EnterBmpsState(w)
         IN  IF w.pmc.state \in {"REQUEST_BMPS", "REQUEST_START_UAPSD",
                  "REQUEST_STOP_UAPSD", "REQUEST_ENTER_WOWL", "REQUEST_EXIT_WOWL"}
             THEN Enters(w, v, "BMPS")
             ELSE v = w
  <1> DEFINE u == [w EXCEPT !.pmc.state = "BMPS"]
  <1>0. "BMPS" \in Saving /\ "BMPS" \in PmcState
    BY SavingStates DEF Saving
  <1>1. EnterBmpsState(w) =
          IF w.pmc.state \notin {"REQUEST_BMPS", "REQUEST_START_UAPSD",
              "REQUEST_STOP_UAPSD", "REQUEST_ENTER_WOWL", "REQUEST_EXIT_WOWL"} THEN w
          ELSE IF w.pmc.pending THEN EnterRequestFullPowerState(u)
          ELSE IF w.pmc.uapsd THEN IssueIfAny(u, "enterUapsd")
          ELSE IF w.pmc.wowl THEN IssueIfAny(u, "enterWowl")
          ELSE u
    BY DEF EnterBmpsState
  <1>2. /\ u \in Worlds
        /\ Alike(w, u) /\ u.pmc.state = "BMPS" /\ u.pmc.bmpsQueued = w.pmc.bmpsQueued
        /\ u.pmc.full = w.pmc.full /\ u.hdd.full = w.hdd.full /\ u.sme = w.sme
        /\ "standby" \in u.pmc.waiting <=> "standby" \in w.pmc.waiting
    BY <1>0, StateSet
  <1> HIDE DEF u
  <1>3. /\ Enters(w, u, "BMPS")
        /\ Enters(w, EnterRequestFullPowerState(u), "BMPS")
        /\ \A x \in Follow : Enters(w, IssueIfAny(u, x), "BMPS")
    BY <1>0, <1>2, EntersAfter
  <1>4. "enterUapsd" \in Follow /\ "enterWowl" \in Follow
    BY DEF Follow
  <1>5. CASE w.pmc.state \notin {"REQUEST_BMPS", "REQUEST_START_UAPSD",
               "REQUEST_STOP_UAPSD", "REQUEST_ENTER_WOWL", "REQUEST_EXIT_WOWL"}
    BY <1>1, <1>5
  <1>6. CASE w.pmc.state \in {"REQUEST_BMPS", "REQUEST_START_UAPSD",
               "REQUEST_STOP_UAPSD", "REQUEST_ENTER_WOWL", "REQUEST_EXIT_WOWL"}
    BY <1>1, <1>3, <1>4, <1>6
  <1> QED BY <1>5, <1>6

\* bmpsRequestQueued is set together with the command, or nothing happens.
LEMMA BmpsFlagged ==
  ASSUME NEW w \in Worlds
  PROVE  LET v == EnterRequestBmpsState(w)
         IN  \/ Same(w, v) /\ (w.pmc.bmpsQueued \/ ~CanPrepare(w, "enterBmps"))
             \/ Issued(w, v, "enterBmps") /\ v.pmc.bmpsQueued /\ ~w.pmc.bmpsQueued
  <1> DEFINE u == [w EXCEPT !.pmc.traffic = FALSE]
             x == [u EXCEPT !.pmc.bmpsQueued = TRUE]
  <1>1. EnterRequestBmpsState(w) =
          IF w.pmc.bmpsQueued \/ ~CanPrepare(w, "enterBmps")
          THEN StartTrafficTimer(u) ELSE Issue(x, "enterBmps")
    BY DEF EnterRequestBmpsState
  <1>2. u \in Worlds /\ Same(w, u)
    BY DEF Same, Kept, Alike, Worlds, PmcRecord
  <1>3. CASE w.pmc.bmpsQueued \/ ~CanPrepare(w, "enterBmps")
    <2> HIDE DEF u
    <2>1. Same(u, StartTrafficTimer(u))
      BY <1>2, TrafficTimer
    <2>2. Same(w, StartTrafficTimer(u))
      BY <1>2, <2>1 DEF Same, Kept, Alike
    <2> QED BY <1>1, <1>3, <2>2
  <1>4. CASE ~(w.pmc.bmpsQueued \/ ~CanPrepare(w, "enterBmps"))
    <2> DEFINE v == Issue(x, "enterBmps")
    <2>1. x \in Worlds /\ Kept(u, x) /\ x.sme = u.sme /\ x.pmc.bmpsQueued
      BY <1>2 DEF Kept, Alike, Worlds, PmcRecord
    <2>2. Issued(x, v, "enterBmps") /\ v.pmc = x.pmc
      <3> HIDE DEF u, x
      <3>1. "enterBmps" \in PmcType
        BY DEF PmcType, Enter
      <3> QED BY <2>1, <3>1, IssueIs
    <2>3. EnterRequestBmpsState(w) = v
      BY <1>1, <1>4
    <2> HIDE DEF u, x, v
    <2>4. Queues(w, v, "enterBmps")
      BY <1>2, <2>1, <2>2 DEF Same, Issued, Queues
    <2>5. Kept(w, v) /\ v.pmc.bmpsQueued
      BY <1>2, <2>1, <2>2 DEF Same, Issued, Kept, Alike
    <2> QED BY <1>4, <2>3, <2>4, <2>5 DEF Issued
  <1> QED BY <1>3, <1>4

-----------------------------------------------------------------------------
(***************************************************************************)
(* A command of PMC and its answer.                                        *)
(***************************************************************************)

\* The request of a command of type t has been sent.
Sends(w, v, t) ==
  /\ v \in Worlds
  /\ w.pmc.state \in From[t] /\ v.pmc.state = To[t] /\ Allowed(w, t)
  /\ v.toPe = Append(w.toPe, Request(t))
  /\ v.link = w.link /\ v.hdd = w.hdd /\ v.sme = w.sme
  /\ v.pmc.imps = w.pmc.imps /\ v.pmc.bmps = w.pmc.bmps
  /\ v.pmc.bmpsQueued = w.pmc.bmpsQueued
  /\ v.pmc.full = w.pmc.full /\ v.pmc.waiting = w.pmc.waiting

\* The command has come to its end without a request.
Ends(w, v, t) ==
  /\ Alike(w, v)
  /\ \/ v.pmc.state = w.pmc.state
     \/ w.pmc.state = "WOWL" /\ v.pmc.state = "BMPS"
  /\ v.sme = w.sme \/ \E x \in Follow : Queues(w, v, x)
  /\ w.pmc.state = "FULL_POWER" => v.sme = w.sme
  /\ v.pmc.bmpsQueued =
       IF t = "enterBmps" /\ w.pmc.state = "FULL_POWER" THEN FALSE ELSE w.pmc.bmpsQueued
  /\ "csr" \in v.pmc.full <=> "csr" \in w.pmc.full
  /\ v.hdd.full => w.hdd.full \/ v.pmc.state = "FULL_POWER"
  /\ t # "enterStandby" =>
       ("standby" \in v.pmc.waiting <=> "standby" \in w.pmc.waiting)

LEMMA TypesOfCommands ==
  /\ \A t \in PmcType : To[t] \in Requesting /\ Request(t) \in PmcType
  /\ Requesting \subseteq PmcState
  BY DEF To, Request, PmcType, Enter, Exit, Requesting, PmcState

LEMMA SentIs ==
  ASSUME NEW w \in Worlds, NEW t \in PmcType,
         w.pmc.state \in From[t], Allowed(w, t)
  PROVE  Sends(w, Sent(w, t), t)
  <1> DEFINE q == Append(w.toPe, Request(t))
             st == To[t]
             u == [w EXCEPT !.pmc.state = st, !.toPe = q]
  <1>1. q \in Seq(PmcType) /\ st \in PmcState
    BY TypesOfCommands DEF Worlds
  <1>2. Sent(w, t) =
          CASE t = "exitBmps"                  -> [u EXCEPT !.pmc.pending = FALSE]
            [] t \in {"exitUapsd", "exitWowl"} -> [u EXCEPT !.pmc.pending = TRUE]
            [] t = "enterUapsd"                -> [u EXCEPT !.pmc.uapsd = TRUE]
            [] t = "enterStandby"              -> [u EXCEPT !.pmc.traffic = FALSE]
            [] OTHER                           -> u
    BY DEF Sent
  <1> HIDE DEF q, st
  <1>3. Sends(w, u, t)
    <2>1. /\ u \in Worlds /\ u.pmc.state = st /\ u.toPe = q
          /\ u.link = w.link /\ u.hdd = w.hdd /\ u.sme = w.sme
          /\ u.pmc.imps = w.pmc.imps /\ u.pmc.bmps = w.pmc.bmps
          /\ u.pmc.bmpsQueued = w.pmc.bmpsQueued
          /\ u.pmc.full = w.pmc.full /\ u.pmc.waiting = w.pmc.waiting
      BY <1>1 DEF Worlds, PmcRecord
    <2> HIDE DEF u
    <2> QED BY <2>1 DEF Sends, q, st
  <1> HIDE DEF u
  <1>4. ASSUME NEW b \in BOOLEAN
        PROVE  /\ Sends(w, [u EXCEPT !.pmc.pending = b], t)
               /\ Sends(w, [u EXCEPT !.pmc.uapsd = b], t)
               /\ Sends(w, [u EXCEPT !.pmc.traffic = b], t)
    <2>1. u \in Worlds
      BY <1>3 DEF Sends
    <2> DEFINE Like(v) == /\ v \in Worlds /\ v.pmc.state = u.pmc.state /\ v.toPe = u.toPe
                          /\ v.link = u.link /\ v.hdd = u.hdd /\ v.sme = u.sme
                          /\ v.pmc.imps = u.pmc.imps /\ v.pmc.bmps = u.pmc.bmps
                          /\ v.pmc.bmpsQueued = u.pmc.bmpsQueued
                          /\ v.pmc.full = u.pmc.full /\ v.pmc.waiting = u.pmc.waiting
    <2>2. /\ Like([u EXCEPT !.pmc.pending = b])
          /\ Like([u EXCEPT !.pmc.uapsd = b])
          /\ Like([u EXCEPT !.pmc.traffic = b])
      BY <2>1 DEF Worlds, PmcRecord
    <2>3. ASSUME NEW v, Like(v) PROVE Sends(w, v, t)
      BY <1>3, <2>3 DEF Sends
    <2> HIDE DEF Like
    <2> QED BY <2>2, <2>3
  <1> QED BY <1>2, <1>3, <1>4

\* When nobody of CSR waits for full power its being entered changes no list.
LEMMA GivenToNone ==
  ASSUME NEW w \in Worlds, NEW v \in Worlds, FullGiven(w, v), "csr" \notin w.pmc.full
  PROVE  v.sme = w.sme
  <1>1. ASSUME NEW p \in SmeRecord, NEW q \in SmeRecord, p.free = q.free,
               p.pending = q.pending, p.active = q.active, p.csr = q.csr
        PROVE  p = q
    BY <1>1 DEF SmeRecord
  <1>2. v.sme \in SmeRecord /\ w.sme \in SmeRecord
    BY DEF Worlds
  <1> QED BY <1>1, <1>2 DEF FullGiven

\* Changes of flags, one after the other or before a command is issued.
LEMMA SmallChanges ==
  ASSUME NEW w \in Worlds, NEW b \in BOOLEAN
  PROVE  /\ Same(w, [w EXCEPT !.pmc.pending = b])
         /\ Same(w, [w EXCEPT !.pmc.uapsd = b])
         /\ Same(w, [w EXCEPT !.pmc.wowl = b])
         /\ Same(w, [w EXCEPT !.pmc.byHdd = b])
         /\ Same(w, [w EXCEPT !.pmc.traffic = b])
         /\ Same(w, [w EXCEPT !.pmc.impsTimer = b])
         /\ Same(w, w)
  BY DEF Same, Kept, Alike, Worlds, PmcRecord

LEMMA SameTrans ==
  ASSUME NEW w, NEW u, NEW v, Same(w, u), Same(u, v)
  PROVE  Same(w, v)
  BY DEF Same, Kept, Alike

LEMMA SameThenIssued ==
  ASSUME NEW w, NEW u, NEW v, NEW t, Same(w, u), Issued(u, v, t)
  PROVE  Issued(w, v, t)
  <1>1. Queues(w, v, t)
    BY DEF Same, Issued, Queues
  <1> QED BY <1>1 DEF Same, Issued, Kept, Alike

\* The command is not allowed, or its message could not be sent: in full power
LEMMA FailedInFullPower ==
  ASSUME NEW w \in Worlds, NEW t \in {"enterImps", "enterBmps", "enterStandby"},
         w.pmc.state = "FULL_POWER", "csr" \notin w.pmc.full
  PROVE  Ends(w, Failed(w, t), t)
  <1> DEFINE u == IF Allowed(w, t) THEN [w EXCEPT !.pmc.state = To[t]] ELSE w
             b == IF t = "enterBmps" THEN FALSE ELSE w.pmc.bmpsQueued
  <1>1. /\ u \in Worlds /\ Alike(w, u)
        /\ u.pmc.state \in {"FULL_POWER", "REQUEST_IMPS", "REQUEST_BMPS", "REQUEST_STANDBY"}
        /\ u.pmc.bmpsQueued = w.pmc.bmpsQueued
        /\ u.pmc.full = w.pmc.full /\ u.hdd.full = w.hdd.full /\ u.sme = w.sme
        /\ "standby" \in u.pmc.waiting <=> "standby" \in w.pmc.waiting
    <2>1. To[t] \in {"REQUEST_IMPS", "REQUEST_BMPS", "REQUEST_STANDBY"} /\ To[t] \in PmcState
      BY DEF To, PmcType, Enter, PmcState, Requesting
    <2>2. CASE Allowed(w, t)
      BY <2>1, <2>2, StateSet
    <2>3. CASE ~Allowed(w, t)
      BY <2>3 DEF Alike
    <2> QED BY <2>2, <2>3
  <1>2. Failed(w, t) =
          CASE t = "enterImps" -> StartTrafficTimer(EnterFullPowerState(u))
            [] t = "enterBmps" ->
                 StartTrafficTimer(Tell(EnterFullPowerState(
                   [u EXCEPT !.pmc.bmpsQueued = FALSE]), "bmps"))
            [] t = "enterStandby" ->
                 StartTrafficTimer(DoStandbyCallbacks(EnterFullPowerState(
                   [u EXCEPT !.pmc.traffic = FALSE]), FALSE))
    BY DEF Failed
  <1> HIDE DEF u
  <1> DEFINE Back(v) == /\ v \in Worlds /\ Alike(w, v) /\ v.pmc.state = "FULL_POWER"
                        /\ v.sme = w.sme
                        /\ v.pmc.bmpsQueued = b
                        /\ "csr" \notin v.pmc.full
                        /\ t # "enterStandby" =>
                             ("standby" \in v.pmc.waiting <=> "standby" \in w.pmc.waiting)
  <1>3. ASSUME NEW x \in Worlds, Alike(u, x), x.pmc.state = u.pmc.state,
               x.pmc.full = u.pmc.full, x.sme = u.sme, x.pmc.bmpsQueued = b,
               "standby" \in x.pmc.waiting <=> "standby" \in w.pmc.waiting
        PROVE  Back(EnterFullPowerState(x))
    <2> DEFINE v == EnterFullPowerState(x)
    <2>1. IF x.pmc.state \in {"REQUEST_FULL_POWER", "REQUEST_IMPS",
                                 "REQUEST_BMPS", "REQUEST_STANDBY"}
             THEN /\ Alike(x, v) /\ v.pmc.state = "FULL_POWER"
                  /\ v.pmc.bmpsQueued = x.pmc.bmpsQueued
                  /\ "standby" \in v.pmc.waiting <=> "standby" \in x.pmc.waiting
                  /\ FullGiven(x, v)
             ELSE v = x
      BY FullPowerEntered
    <2> HIDE DEF v, b
    <2>2. ASSUME x.pmc.state = "FULL_POWER" PROVE Back(v)
      BY <1>1, <1>3, <2>1, <2>2 DEF Alike
    <2>3. ASSUME x.pmc.state # "FULL_POWER" PROVE Back(v)
      <3>1. Alike(x, v) /\ FullGiven(x, v)
        BY <1>1, <1>3, <2>1, <2>3
      <3>2. v \in Worlds /\ v.sme = x.sme
        BY <1>1, <1>3, <3>1, GivenToNone DEF Alike
      <3>3. "csr" \notin v.pmc.full
        BY <3>1 DEF FullGiven
      <3> QED BY <1>1, <1>3, <2>1, <2>3, <3>1, <3>2, <3>3 DEF Alike
    <2> QED BY <2>2, <2>3 DEF v
  <1>4. ASSUME NEW v, Back(v) PROVE Ends(w, v, t)
    BY <1>4 DEF Ends, b
  <1>5. ASSUME NEW v, NEW x, Back(v), Same(v, x) PROVE Back(x)
    BY <1>5 DEF Same, Kept, Alike
  <1>6. ASSUME NEW v, Back(v) PROVE v \in Worlds
    BY <1>6
  <1> HIDE DEF Back
  <1>7. CASE t = "enterImps"
    <2>1. Back(EnterFullPowerState(u))
      BY <1>1, <1>3, <1>7 DEF b, Alike
    <2> QED BY <2>1, <1>2, <1>4, <1>5, <1>6, <1>7, TrafficTimer
  <1>8. CASE t = "enterBmps"
    <2> DEFINE x == [u EXCEPT !.pmc.bmpsQueued = FALSE]
    <2>1. /\ x \in Worlds /\ Alike(u, x) /\ x.pmc.state = u.pmc.state
          /\ x.pmc.full = u.pmc.full /\ x.sme = u.sme /\ x.pmc.bmpsQueued = b
          /\ "standby" \in x.pmc.waiting <=> "standby" \in w.pmc.waiting
      BY <1>1, <1>8 DEF b, Alike, Worlds, PmcRecord
    <2>2. Failed(w, t) = StartTrafficTimer(Tell(EnterFullPowerState(x), "bmps"))
      BY <1>2, <1>8
    <2> HIDE DEF x
    <2>3. Back(EnterFullPowerState(x))
      BY <1>3, <2>1
    <2>4. Back(Tell(EnterFullPowerState(x), "bmps"))
      BY <1>5, <1>6, <2>3, TellSame
    <2> QED BY <2>2, <2>4, <1>4, <1>5, <1>6, TrafficTimer
  <1>9. CASE t = "enterStandby"
    <2> DEFINE x == [u EXCEPT !.pmc.traffic = FALSE]
    <2>1. /\ x \in Worlds /\ Alike(u, x) /\ x.pmc.state = u.pmc.state
          /\ x.pmc.full = u.pmc.full /\ x.sme = u.sme /\ x.pmc.bmpsQueued = b
          /\ "standby" \in x.pmc.waiting <=> "standby" \in w.pmc.waiting
      BY <1>1, <1>9 DEF b, Alike, Worlds, PmcRecord
    <2> DEFINE y == EnterFullPowerState(x)
               z == DoStandbyCallbacks(y, FALSE)
    <2>2. Failed(w, t) = StartTrafficTimer(z)
      BY <1>2, <1>9
    <2> HIDE DEF x
    <2>3. Back(y)
      BY <1>3, <2>1
    <2> HIDE DEF y
    <2>4. /\ Alike(y, z) /\ z.sme = y.sme
          /\ z.pmc.state = y.pmc.state /\ z.pmc.bmpsQueued = y.pmc.bmpsQueued
          /\ z.pmc.full = y.pmc.full /\ z.hdd.full = y.hdd.full
      BY <1>6, <2>3, StandbyCallbacks
    <2> HIDE DEF z
    <2>5. Back(z)
      BY <1>9, <2>3, <2>4 DEF Back, Alike
    <2> QED BY <2>2, <2>5, <1>4, <1>5, <1>6, TrafficTimer
  <1> QED BY <1>7, <1>8, <1>9

\* and in the power states
LEMMA FailedInPowerSave ==
  ASSUME NEW w \in Worlds,
         NEW t \in {"enterUapsd", "enterWowl", "exitWowl", "exitBmps", "exitUapsd", "exitImps"},
         w.pmc.state \in From[t]
  PROVE  Ends(w, Failed(w, t), t)
  <1>1. ASSUME NEW v, Same(w, v) PROVE Ends(w, v, t)
    BY <1>1 DEF Ends, Same, Kept
  <1>2. CASE t = "enterUapsd"
    <2> DEFINE u == [w EXCEPT !.pmc.uapsd = FALSE]
    <2>1. Same(w, u) /\ Failed(w, t) = Tell(u, "uapsd")
      BY <1>2, SmallChanges DEF Failed
    <2> HIDE DEF u
    <2> QED BY <1>1, <2>1, TellSame, SameIs, SameTrans
  <1>3. CASE t = "enterWowl"
    BY <1>1, <1>3, TellSame DEF Failed
  <1>4. CASE t = "exitWowl"
    <2> DEFINE u == [w EXCEPT !.pmc.state = To[t]]
               z == [u EXCEPT !.pmc.pending = FALSE]
    <2>0. To[t] = "REQUEST_EXIT_WOWL" /\ To[t] \in PmcState /\ w.pmc.state = "WOWL"
      BY <1>4 DEF To, From, PmcType, Exit, PmcState, Requesting
    <2>1. Failed(w, t) = EnterBmpsState(z)
      <3>1. Allowed(w, t)
        BY <1>4 DEF Allowed
      <3> QED BY <1>4, <3>1 DEF Failed
    <2>2. /\ u \in Worlds
          /\ Alike(w, u) /\ u.pmc.state = To[t] /\ u.pmc.bmpsQueued = w.pmc.bmpsQueued
          /\ u.pmc.full = w.pmc.full /\ u.hdd.full = w.hdd.full /\ u.sme = w.sme
          /\ "standby" \in u.pmc.waiting <=> "standby" \in w.pmc.waiting
      BY <2>0, StateSet
    <2> HIDE DEF u
    <2>3. Same(u, z) /\ z \in Worlds
      BY <2>2, SmallChanges, SameIs
    <2> HIDE DEF z
    <2>4. Enters(z, EnterBmpsState(z), "BMPS")
      <3>1. z.pmc.state = "REQUEST_EXIT_WOWL"
        BY <2>0, <2>2, <2>3 DEF Same, Kept
      <3> QED BY <2>3, <3>1, BmpsEntered
    <2> DEFINE v == EnterBmpsState(z)
    <2> HIDE DEF v
    <2>5. /\ z.sme = w.sme /\ Alike(w, z) /\ z.pmc.full = w.pmc.full /\ z.hdd.full = w.hdd.full
          /\ z.pmc.bmpsQueued = w.pmc.bmpsQueued
          /\ "standby" \in z.pmc.waiting <=> "standby" \in w.pmc.waiting
      BY <2>2, <2>3 DEF Same, Kept, Alike
    <2>6. Enters(z, v, "BMPS")
      BY <2>4 DEF v
    <2>7. v.sme = w.sme \/ \E y \in Follow : Queues(w, v, y)
      <3>1. CASE v.sme = z.sme
        BY <2>5, <3>1
      <3>2. CASE \E y \in Follow : Queues(z, v, y)
        <4>1. PICK y \in Follow : Queues(z, v, y)
          BY <3>2
        <4>2. Queues(w, v, y)
          BY <2>5, <4>1 DEF Queues
        <4> QED BY <4>2
      <3> QED BY <2>6, <3>1, <3>2 DEF Enters
    <2>8. Alike(w, v)
      BY <2>5, <2>6 DEF Enters, Alike
    <2>9. Ends(w, v, t)
      BY <1>4, <2>0, <2>5, <2>6, <2>7, <2>8 DEF Ends, Enters
    <2> QED BY <2>1, <2>9 DEF v
  <1>5. CASE t \in {"exitBmps", "exitUapsd"}
    BY <1>1, <1>5, SmallChanges DEF Failed
  <1>6. CASE t = "exitImps"
    BY <1>1, <1>6, SmallChanges DEF Failed
  <1> QED BY <1>2, <1>3, <1>4, <1>5, <1>6

\* Either the request is sent or the command is done.
LEMMA Processed ==
  ASSUME NEW w \in Worlds, NEW t \in PmcType, NEW sent \in BOOLEAN,
         w.pmc.state = "FULL_POWER" => "csr" \notin w.pmc.full
  PROVE  LET r == ProcessCommand(w, t, sent)
         IN  \/ ~r.done /\ Sends(w, r.w, t)
             \/ /\ r.done /\ Ends(w, r.w, t)
                /\ w.pmc.state \notin Requesting => r.w.pmc.state \notin Requesting
  <1> DEFINE u == IF t = "exitImps" THEN [w EXCEPT !.pmc.pending = FALSE] ELSE w
  <1>1. Same(w, u) /\ u \in Worlds
    BY SmallChanges, SameIs
  <1>2. ProcessCommand(w, t, sent) =
          IF w.pmc.state \notin From[t] THEN [w |-> u, done |-> TRUE]
          ELSE IF Allowed(u, t) /\ sent THEN [w |-> Sent(u, t), done |-> FALSE]
          ELSE [w |-> Failed(u, t), done |-> TRUE]
    BY DEF ProcessCommand
  <1>3. Allowed(u, t) => Allowed(w, t)
    BY DEF Allowed
  <1>n. ASSUME NEW v, Ends(w, v, t), w.pmc.state \notin Requesting
        PROVE  v.pmc.state \notin Requesting
    BY <1>n DEF Ends, Requesting
  <1> HIDE DEF u
  <1>4. u.pmc.state = w.pmc.state /\ u.pmc.full = w.pmc.full
    BY <1>1 DEF Same, Kept
  <1>5. CASE w.pmc.state \notin From[t]
    <2>1. t = "enterBmps" => w.pmc.state # "FULL_POWER"
      BY <1>5 DEF From, PmcType, Enter
    <2>2. Ends(w, u, t)
      BY <1>1, <2>1 DEF Ends, Same, Kept
    <2> QED BY <1>2, <1>5, <2>2, <1>n
  <1>6. CASE w.pmc.state \in From[t] /\ Allowed(u, t) /\ sent
    <2>1. Sends(u, Sent(u, t), t)
      BY <1>1, <1>4, <1>6, SentIs
    <2> DEFINE v == Sent(u, t)
    <2>2. Sends(u, v, t)
      BY <2>1
    <2> HIDE DEF v
    <2>3. Sends(w, v, t) \/ t = "exitImps"
      <3>1. CASE t # "exitImps"
        BY <2>2, <3>1 DEF u
      <3> QED BY <3>1
    <2>4. CASE t = "exitImps"
      <3>1. /\ u.toPe = w.toPe /\ u.link = w.link /\ u.hdd = w.hdd /\ u.sme = w.sme
            /\ u.pmc.imps = w.pmc.imps /\ u.pmc.bmps = w.pmc.bmps
            /\ u.pmc.bmpsQueued = w.pmc.bmpsQueued /\ u.pmc.waiting = w.pmc.waiting
        BY <2>4 DEF u, Worlds, PmcRecord
      <3>2. Allowed(w, t)
        BY <2>4 DEF Allowed
      <3> QED BY <1>2, <1>4, <1>6, <2>2, <3>1, <3>2 DEF Sends, v
    <2> QED BY <1>2, <1>6, <2>3, <2>4 DEF v
  <1>7. CASE w.pmc.state \in From[t] /\ ~(Allowed(u, t) /\ sent)
    <2> DEFINE v == Failed(u, t)
    <2>1. Ends(u, v, t)
      <3>1. CASE t \in {"enterImps", "enterBmps", "enterStandby"}
        <4>1. u.pmc.state = "FULL_POWER"
          BY <1>4, <1>7, <3>1 DEF From, PmcType, Enter
        <4> QED BY <1>1, <1>4, <3>1, <4>1, FailedInFullPower
      <3>2. CASE t \notin {"enterImps", "enterBmps", "enterStandby"}
        <4>1. t \in {"enterUapsd", "enterWowl", "exitWowl", "exitBmps", "exitUapsd", "exitImps"}
          BY <3>2 DEF PmcType, Enter, Exit
        <4> QED BY <1>1, <1>4, <1>7, <4>1, FailedInPowerSave
      <3> QED BY <3>1, <3>2
    <2> HIDE DEF v
    <2>2. Ends(w, v, t)
      <3>1. v.sme = w.sme \/ \E x \in Follow : Queues(w, v, x)
        BY <1>1, <2>1 DEF Ends, Same, Queues
      <3> QED BY <1>1, <2>1, <3>1 DEF Ends, Same, Kept, Alike
    <2> QED BY <1>2, <1>7, <2>2, <1>n DEF v
  <1> QED BY <1>5, <1>6, <1>7

\* The answer to the active command of type t has been processed.
Settles(w, v, t) ==
  /\ Alike(w, v)
  /\ v.pmc.bmpsQueued = w.pmc.bmpsQueued
  /\ t # "enterStandby" =>
       ("standby" \in v.pmc.waiting <=> "standby" \in w.pmc.waiting)
  /\ \/ v.pmc.state = "FULL_POWER" /\ FullGiven(w, v)
     \/ /\ v.pmc.state \in Saving
        /\ v.pmc.state = "STANDBY" => t = "enterStandby"
        /\ v.pmc.full = w.pmc.full /\ v.hdd.full = w.hdd.full
        /\ v.sme = w.sme \/ \E x \in Follow : Queues(w, v, x)

\* It is so when a power state or full power has been entered, whatever flags
\* change and whoever is told besides.
LEMMA SettlesAfter ==
  ASSUME NEW w, NEW v, NEW t,
         \/ \E st \in Saving : Enters(w, v, st) /\ (st = "STANDBY" => t = "enterStandby")
         \/ /\ Alike(w, v) /\ v.pmc.state = "FULL_POWER"
            /\ v.pmc.bmpsQueued = w.pmc.bmpsQueued
            /\ "standby" \in v.pmc.waiting <=> "standby" \in w.pmc.waiting
            /\ FullGiven(w, v)
  PROVE  Settles(w, v, t)
  <1>1. CASE \E st \in Saving : Enters(w, v, st) /\ (st = "STANDBY" => t = "enterStandby")
    BY <1>1 DEF Settles, Enters
  <1>2. CASE /\ Alike(w, v) /\ v.pmc.state = "FULL_POWER"
             /\ v.pmc.bmpsQueued = w.pmc.bmpsQueued
             /\ "standby" \in v.pmc.waiting <=> "standby" \in w.pmc.waiting
             /\ FullGiven(w, v)
    BY <1>2 DEF Settles
  <1> QED BY <1>1, <1>2

LEMMA SettlesSame ==
  ASSUME NEW w, NEW v, NEW x, NEW t, Settles(w, v, t), Same(v, x)
  PROVE  Settles(w, x, t) /\ x \in Worlds
  <1>1. Alike(w, x) /\ x.sme = v.sme
    BY DEF Settles, Same, Kept, Alike
  <1>2. FullGiven(w, v) => FullGiven(w, x)
    BY DEF Same, Kept, FullGiven
  <1>3. \A y : Queues(w, v, y) => Queues(w, x, y)
    BY <1>1 DEF Queues
  <1>4. x \in Worlds
    BY SameIs
  <1> QED BY <1>1, <1>2, <1>3, <1>4 DEF Settles, Same, Kept

LEMMA SettlesTold ==
  ASSUME NEW w, NEW v, Settles(w, v, "enterStandby"), NEW ok \in BOOLEAN
  PROVE  LET x == DoStandbyCallbacks(v, ok)
         IN  Settles(w, x, "enterStandby") /\ "standby" \notin x.pmc.waiting
  <1> DEFINE x == DoStandbyCallbacks(v, ok)
  <1>0. v \in Worlds
    BY DEF Settles, Alike
  <1>1. /\ Alike(v, x) /\ x.sme = v.sme
        /\ x.pmc.state = v.pmc.state /\ x.pmc.bmpsQueued = v.pmc.bmpsQueued
        /\ x.pmc.full = v.pmc.full /\ x.hdd.full = v.hdd.full
        /\ "standby" \notin x.pmc.waiting
    BY <1>0, StandbyCallbacks
  <1> HIDE DEF x
  <1>2. Alike(w, x)
    BY <1>1 DEF Settles, Alike
  <1>3. FullGiven(w, v) => FullGiven(w, x)
    BY <1>1 DEF FullGiven
  <1>4. \A y : Queues(w, v, y) => Queues(w, x, y)
    BY <1>1 DEF Queues
  <1>5. Settles(w, x, "enterStandby")
    BY <1>1, <1>2, <1>3, <1>4 DEF Settles
  <1> QED BY <1>1, <1>5 DEF x

LEMMA AnsweredIs ==
  ASSUME NEW w \in Worlds, NEW t \in PmcType, NEW ok \in BOOLEAN,
         w.pmc.state = To[t], ok \/ t \in Enter
  PROVE  LET v == Answered(w, t, ok)
         IN  /\ Settles(w, v, t)
             /\ t = "enterStandby" => "standby" \notin v.pmc.waiting
  <1>0. Saving = {"IMPS", "STANDBY", "BMPS", "UAPSD", "WOWL"}
    BY DEF Saving
  <1>1. ASSUME NEW st \in Saving, NEW v, Enters(w, v, st), st # "STANDBY"
        PROVE  Settles(w, v, t)
    BY <1>1, SettlesAfter
  <1>2. ASSUME w.pmc.state \in {"REQUEST_FULL_POWER", "REQUEST_IMPS",
                                "REQUEST_BMPS", "REQUEST_STANDBY"}
        PROVE  Settles(w, EnterFullPowerState(w), t)
    BY <1>2, FullPowerEntered, SettlesAfter
  <1>3. ASSUME w.pmc.state \in {"REQUEST_BMPS", "REQUEST_START_UAPSD",
                  "REQUEST_STOP_UAPSD", "REQUEST_ENTER_WOWL", "REQUEST_EXIT_WOWL"}
        PROVE  Settles(w, EnterBmpsState(w), t)
    BY <1>0, <1>1, <1>3, BmpsEntered
  <1>4. ASSUME NEW v, Settles(w, v, t), NEW who \in {"bmps", "uapsd", "wowl"}
        PROVE  Settles(w, Tell(v, who), t)
    <2>1. v \in Worlds
      BY <1>4 DEF Settles, Alike
    <2> QED BY <1>4, <2>1, TellSame, SettlesSame
  <1>5. CASE t = "enterImps"
    <2>1. w.pmc.state = "REQUEST_IMPS"
      BY <1>5 DEF To
    <2>2. Answered(w, t, ok) = IF ok THEN EnterImpsState(w) ELSE EnterFullPowerState(w)
      BY <1>5 DEF Answered
    <2>3. Settles(w, EnterImpsState(w), t)
      BY <1>0, <1>1, ImpsEntered
    <2> QED BY <1>2, <1>5, <2>1, <2>2, <2>3
  <1>6. CASE t = "enterStandby"
    <2>1. w.pmc.state = "REQUEST_STANDBY"
      BY <1>6 DEF To
    <2>2. Answered(w, t, ok) =
             IF ok THEN DoStandbyCallbacks(EnterStandbyState(w), TRUE)
               ELSE DoStandbyCallbacks(EnterFullPowerState(w), FALSE)
      BY <1>6 DEF Answered
    <2>3. Settles(w, EnterStandbyState(w), t)
      BY <1>0, <1>6, StandbyEntered, SettlesAfter
    <2>4. Settles(w, EnterFullPowerState(w), t)
      BY <1>2, <2>1
    <2> QED BY <1>6, <2>2, <2>3, <2>4, SettlesTold
  <1>7. CASE t = "enterBmps"
    <2>1. w.pmc.state = "REQUEST_BMPS"
      BY <1>7 DEF To
    <2>2. Answered(w, t, ok) =
            Tell(IF ok THEN EnterBmpsState(w) ELSE EnterFullPowerState(w), "bmps")
      BY <1>7 DEF Answered
    <2> QED BY <1>2, <1>3, <1>4, <1>7, <2>1, <2>2
  <1>8. CASE t = "enterUapsd"
    <2> DEFINE u == [w EXCEPT !.pmc.uapsd = FALSE]
    <2>1. w.pmc.state = "REQUEST_START_UAPSD"
      BY <1>8 DEF To
    <2>2. Answered(w, t, ok) =
            Tell(IF ok THEN EnterUapsdState(w) ELSE EnterBmpsState(u), "uapsd")
      BY <1>8 DEF Answered
    <2>3. Settles(w, EnterUapsdState(w), t)
      BY <1>0, <1>1, UapsdEntered
    <2>4. Same(w, u) /\ u \in Worlds
      BY SmallChanges, SameIs
    <2> HIDE DEF u
    <2> DEFINE v == EnterBmpsState(u)
    <2>5. Enters(u, v, "BMPS")
      BY <2>1, <2>4, BmpsEntered DEF Same, Kept
    <2> HIDE DEF v
    <2>6. \A y : Queues(u, v, y) => Queues(w, v, y)
      BY <2>4 DEF Same, Queues
    <2>7. Enters(w, v, "BMPS")
      BY <2>4, <2>5, <2>6 DEF Enters, Same, Kept, Alike
    <2>8. Settles(w, v, t)
      BY <1>0, <1>1, <2>7
    <2> QED BY <1>4, <1>8, <2>2, <2>3, <2>8 DEF v
  <1>9. CASE t = "enterWowl"
    <2>1. w.pmc.state = "REQUEST_ENTER_WOWL"
      BY <1>9 DEF To
    <2>2. Answered(w, t, ok) =
            Tell(IF ok THEN EnterWowlState(w) ELSE EnterBmpsState(w), "wowl")
      BY <1>9 DEF Answered
    <2>3. Settles(w, EnterWowlState(w), t)
      BY <1>0, <1>1, WowlEntered
    <2> QED BY <1>3, <1>4, <1>9, <2>1, <2>2, <2>3
  <1>10. CASE t \in {"exitImps", "exitBmps"}
    <2>1. w.pmc.state = "REQUEST_FULL_POWER"
      BY <1>10 DEF To, PmcType
    <2> QED BY <1>2, <1>10, <2>1 DEF Answered
  <1>11. CASE t \in {"exitUapsd", "exitWowl"}
    <2>1. w.pmc.state \in {"REQUEST_STOP_UAPSD", "REQUEST_EXIT_WOWL"}
      BY <1>11 DEF To, PmcType
    <2> QED BY <1>3, <1>11, <2>1 DEF Answered
  <1> QED BY <1>5, <1>6, <1>7, <1>8, <1>9, <1>10, <1>11 DEF PmcType, Enter, Exit

LEMMA RememberSame ==
  ASSUME NEW w \in Worlds
  PROVE  LET u == [w EXCEPT !.pmc.byHdd = TRUE]
             v == [w EXCEPT !.pmc.wowl = TRUE]
         IN  Same(w, u) /\ u \in Worlds /\ Same(w, v)
  BY DEF Same, Kept, Alike, Worlds, PmcRecord

\* What a call does once the queue has been run.
LEMMA FinishIs ==
  ASSUME NEW w \in Worlds,
         NEW then \in [kind: Kind, cmd: Command, high: BOOLEAN]
  PROVE  LET v == Finish(w, then)
         IN  /\ Alike(w, v) /\ v.pmc.state = w.pmc.state
             /\ v.pmc.bmpsQueued = w.pmc.bmpsQueued
             /\ v.hdd.full = w.hdd.full
             /\ v.sme.free = w.sme.free /\ v.sme.pending = w.sme.pending
             /\ v.sme.active = w.sme.active
             /\ IF then.kind = "csr"
                THEN /\ v.pmc.full = w.pmc.full \cup {"csr"}
                     /\ v.sme.csr = IF then.high THEN <<then.cmd>> \o w.sme.csr
                                                 ELSE Append(w.sme.csr, then.cmd)
                ELSE /\ "csr" \in v.pmc.full <=> "csr" \in w.pmc.full
                     /\ v.sme.csr = w.sme.csr
             /\ "standby" \in v.pmc.waiting <=>
                  "standby" \in w.pmc.waiting \/ then.kind = "standby"
  <1> DEFINE q == IF then.high THEN <<then.cmd>> \o w.sme.csr
                               ELSE Append(w.sme.csr, then.cmd)
  <1>0. q \in Seq(Command)
    BY DEF Worlds, SmeRecord
  <1>1. CASE then.kind = "csr"
    <2>1. Finish(w, then) = [w EXCEPT !.pmc.full = @ \cup {"csr"}, !.sme.csr = q]
      BY <1>1 DEF Finish
    <2> HIDE DEF q
    <2>2. LET v == [w EXCEPT !.pmc.full = @ \cup {"csr"}, !.sme.csr = q]
          IN  /\ v \in Worlds /\ v.toPe = w.toPe /\ v.link = w.link /\ v.hdd = w.hdd
              /\ v.pmc.imps = w.pmc.imps /\ v.pmc.bmps = w.pmc.bmps
              /\ v.pmc.state = w.pmc.state /\ v.pmc.bmpsQueued = w.pmc.bmpsQueued
              /\ v.pmc.full = w.pmc.full \cup {"csr"} /\ v.pmc.waiting = w.pmc.waiting
              /\ v.sme.free = w.sme.free /\ v.sme.pending = w.sme.pending
              /\ v.sme.active = w.sme.active /\ v.sme.csr = q
      BY <1>0 DEF Worlds, PmcRecord, SmeRecord
    <2> QED BY <1>1, <2>1, <2>2 DEF Alike, q
  <1>2. CASE then.kind \in {"hdd", "user"}
    <2>1. Finish(w, then) = [w EXCEPT !.pmc.full = @ \cup {then.kind}]
      BY <1>2 DEF Finish
    <2> QED BY <1>2, <2>1 DEF Alike, Worlds, PmcRecord
  <1>3. CASE then.kind = "bmps"
    <2> DEFINE u == [w EXCEPT !.pmc.byHdd = TRUE]
               v == [u EXCEPT !.pmc.waiting = @ \cup {"bmps"}]
    <2>2. Same(w, u) /\ u \in Worlds
      BY RememberSame
    <2>3. Finish(w, then) = v
      BY <1>3 DEF Finish
    <2> HIDE DEF u
    <2>4. Same(u, v)
      <3> DEFINE r == u.pmc.waiting \cup {"bmps"}
      <3>1. r \in SUBSET {"imps", "bmps", "uapsd", "wowl", "standby"}
        BY <2>2 DEF Worlds, PmcRecord
      <3>2. "standby" \in r <=> "standby" \in u.pmc.waiting
        OBVIOUS
      <3>3. v = [u EXCEPT !.pmc.waiting = r]
        OBVIOUS
      <3> HIDE DEF r
      <3> QED BY <2>2, <3>1, <3>2, <3>3 DEF Same, Kept, Alike, Worlds, PmcRecord
    <2> HIDE DEF v
    <2>5. Same(w, v)
      BY <2>2, <2>4, SameTrans
    <2> QED BY <1>3, <2>3, <2>5 DEF Same, Kept
  <1>4. CASE then.kind = "wowl"
    <2>1. Finish(w, then) = [w EXCEPT !.pmc.wowl = TRUE]
      BY <1>4 DEF Finish
    <2>2. Same(w, Finish(w, then))
      BY <2>1, RememberSame
    <2> QED BY <1>4, <2>2 DEF Same, Kept
  <1>5. CASE then.kind \in {"imps", "uapsd", "standby"}
    <2>1. Finish(w, then) = [w EXCEPT !.pmc.waiting = @ \cup {then.kind}]
      BY <1>5 DEF Finish
    <2> QED BY <1>5, <2>1 DEF Alike, Worlds, PmcRecord
  <1>6. CASE then.kind = "none"
    <2>1. Finish(w, then) = w
      BY <1>6 DEF Finish
    <2> QED BY <1>6, <2>1 DEF Alike
  <1> QED BY <1>1, <1>2, <1>3, <1>4, <1>5, <1>6 DEF Kind

-----------------------------------------------------------------------------
(***************************************************************************)
(* Queues of commands.                                                     *)
(***************************************************************************)

\* There is a command of type t in the queue s; only one; one of type t
\* before one of type u.
Has(s, t)       == \E i \in DOMAIN s : s[i].type = t
Once(s, t)      == \A i, j \in DOMAIN s : s[i].type = t /\ s[j].type = t => i = j
Before(s, t, u) == \E i, j \in DOMAIN s : i < j /\ s[i].type = t /\ s[j].type = u

\* What they are when lists are joined, and how many buffers they hold.
LEMMA ConcatElements ==
  ASSUME NEW p \in Seq(Command), NEW q \in Seq(Command)
  PROVE  /\ p \o q \in Seq(Command)
         /\ DOMAIN p = 1 .. Len(p) /\ DOMAIN q = 1 .. Len(q)
         /\ DOMAIN (p \o q) = 1 .. Len(p) + Len(q)
         /\ Len(p) \in Nat /\ Len(q) \in Nat
         /\ \A i \in 1 .. Len(p) : (p \o q)[i] = p[i] /\ i \in 1 .. Len(p) + Len(q)
         /\ \A i \in 1 .. Len(q) : (p \o q)[i + Len(p)] = q[i]
                                   /\ i + Len(p) \in 1 .. Len(p) + Len(q)
         /\ \A i \in 1 .. Len(p) + Len(q) :
              \/ i \in 1 .. Len(p)
              \/ i - Len(p) \in 1 .. Len(q) /\ (p \o q)[i] = q[i - Len(p)]
  <1>1. /\ p \o q \in Seq(Command)
        /\ Len(p \o q) = Len(p) + Len(q)
        /\ \A i \in 1 .. Len(p) + Len(q) : (p \o q)[i] =
                     IF i <= Len(p) THEN p[i] ELSE q[i - Len(p)]
    BY ConcatProperties
  <1>2. /\ DOMAIN p = 1 .. Len(p) /\ DOMAIN q = 1 .. Len(q)
        /\ DOMAIN (p \o q) = 1 .. Len(p \o q)
        /\ Len(p) \in Nat /\ Len(q) \in Nat
    BY <1>1, LenProperties
  <1>3. ASSUME NEW i \in 1 .. Len(p)
        PROVE  (p \o q)[i] = p[i] /\ i \in 1 .. Len(p) + Len(q)
    BY <1>1, <1>2
  <1>4. ASSUME NEW i \in 1 .. Len(q)
        PROVE  (p \o q)[i + Len(p)] = q[i] /\ i + Len(p) \in 1 .. Len(p) + Len(q)
    <2>1. i + Len(p) \in 1 .. Len(p) + Len(q) /\ ~(i + Len(p) <= Len(p))
          /\ i + Len(p) - Len(p) = i
      BY <1>2
    <2> QED BY <1>1, <2>1
  <1>5. ASSUME NEW i \in 1 .. Len(p) + Len(q)
        PROVE  \/ i \in 1 .. Len(p)
               \/ i - Len(p) \in 1 .. Len(q) /\ (p \o q)[i] = q[i - Len(p)]
    BY <1>1, <1>2
  <1> QED BY <1>1, <1>2, <1>3, <1>4, <1>5

LEMMA ConcatHas ==
  ASSUME NEW p \in Seq(Command), NEW q \in Seq(Command), NEW t
  PROVE  Has(p \o q, t) <=> Has(p, t) \/ Has(q, t)
  <1>1. ASSUME Has(p, t) PROVE Has(p \o q, t)
    BY <1>1, ConcatElements DEF Has
  <1>2. ASSUME Has(q, t) PROVE Has(p \o q, t)
    <2>1. PICK i \in 1 .. Len(q) : q[i].type = t
      BY <1>2, ConcatElements DEF Has
    <2>2. i + Len(p) \in DOMAIN (p \o q) /\ (p \o q)[i + Len(p)].type = t
      BY <2>1, ConcatElements
    <2> QED BY <2>2 DEF Has
  <1>3. ASSUME Has(p \o q, t) PROVE Has(p, t) \/ Has(q, t)
    <2>1. PICK i \in 1 .. Len(p) + Len(q) : (p \o q)[i].type = t
      BY <1>3, ConcatElements DEF Has
    <2>2. CASE i \in 1 .. Len(p)
      <3>1. p[i].type = t /\ i \in DOMAIN p
        BY <2>1, <2>2, ConcatElements
      <3> QED BY <3>1 DEF Has
    <2>3. CASE i - Len(p) \in 1 .. Len(q)
      <3>1. q[i - Len(p)].type = t /\ i - Len(p) \in DOMAIN q
        BY <2>1, <2>3, ConcatElements
      <3> QED BY <3>1 DEF Has
    <2>4. i \in 1 .. Len(p) \/ i - Len(p) \in 1 .. Len(q)
      OBVIOUS
    <2> QED BY <2>2, <2>3, <2>4
  <1> QED BY <1>1, <1>2, <1>3

LEMMA ConcatOnce ==
  ASSUME NEW p \in Seq(Command), NEW q \in Seq(Command), NEW t
  PROVE  Once(p \o q, t) <=> Once(p, t) /\ Once(q, t) /\ ~(Has(p, t) /\ Has(q, t))
  <1>1. ASSUME Once(p \o q, t) PROVE Once(p, t) /\ Once(q, t)
    <2>1. Once(p, t)
      <3> SUFFICES ASSUME NEW i \in DOMAIN p, NEW j \in DOMAIN p,
                          p[i].type = t, p[j].type = t
                   PROVE  i = j
        BY DEF Once
      <3>1. /\ i \in DOMAIN (p \o q) /\ (p \o q)[i].type = t
            /\ j \in DOMAIN (p \o q) /\ (p \o q)[j].type = t
        BY ConcatElements
      <3> QED BY <1>1, <3>1 DEF Once
    <2>2. ASSUME NEW i \in 1 .. Len(q), NEW j \in 1 .. Len(q), q[i].type = t, q[j].type = t
          PROVE  i = j
      <3>1. /\ i + Len(p) \in DOMAIN (p \o q) /\ (p \o q)[i + Len(p)].type = t
            /\ j + Len(p) \in DOMAIN (p \o q) /\ (p \o q)[j + Len(p)].type = t
        BY <2>2, ConcatElements
      <3>2. i + Len(p) = j + Len(p)
        BY <1>1, <3>1 DEF Once
      <3> QED BY <3>2, ConcatElements
    <2> QED BY <2>1, <2>2, ConcatElements DEF Once
  <1>2. ASSUME Once(p \o q, t), Has(p, t), Has(q, t) PROVE FALSE
    <2>1. PICK i \in 1 .. Len(p) : p[i].type = t
      BY <1>2, ConcatElements DEF Has
    <2>2. PICK j \in 1 .. Len(q) : q[j].type = t
      BY <1>2, ConcatElements DEF Has
    <2>3. /\ i \in DOMAIN (p \o q) /\ (p \o q)[i].type = t
          /\ j + Len(p) \in DOMAIN (p \o q) /\ (p \o q)[j + Len(p)].type = t
      BY <2>1, <2>2, ConcatElements
    <2>4. i = j + Len(p)
      BY <1>2, <2>3 DEF Once
    <2> QED BY <2>4, ConcatElements
  <1>3. ASSUME Once(p, t), Once(q, t), ~(Has(p, t) /\ Has(q, t))
        PROVE  Once(p \o q, t)
    <2>1. ASSUME NEW i \in 1 .. Len(p) + Len(q), NEW j \in 1 .. Len(p) + Len(q),
                 (p \o q)[i].type = t, (p \o q)[j].type = t
          PROVE  i = j
      <3>1. CASE i \in 1 .. Len(p) /\ j \in 1 .. Len(p)
        BY <1>3, <2>1, <3>1, ConcatElements DEF Once
      <3>2. CASE i \in 1 .. Len(p) /\ j \notin 1 .. Len(p)
        BY <1>3, <2>1, <3>2, ConcatElements DEF Has
      <3>3. CASE i \notin 1 .. Len(p) /\ j \in 1 .. Len(p)
        BY <1>3, <2>1, <3>3, ConcatElements DEF Has
      <3>4. CASE i \notin 1 .. Len(p) /\ j \notin 1 .. Len(p)
        <4>1. /\ i - Len(p) \in 1 .. Len(q) /\ q[i - Len(p)].type = t
              /\ j - Len(p) \in 1 .. Len(q) /\ q[j - Len(p)].type = t
          BY <2>1, <3>4, ConcatElements
        <4>2. i - Len(p) = j - Len(p)
          BY <1>3, <4>1, ConcatElements DEF Once
        <4> QED BY <4>2, ConcatElements
      <3> QED BY <3>1, <3>2, <3>3, <3>4
    <2> QED BY <2>1, ConcatElements DEF Once
  <1> QED BY <1>1, <1>2, <1>3

LEMMA ConcatBefore ==
  ASSUME NEW p \in Seq(Command), NEW q \in Seq(Command), NEW t, NEW u
  PROVE  Before(p \o q, t, u) <=>
           Before(p, t, u) \/ Before(q, t, u) \/ (Has(p, t) /\ Has(q, u))
  <1>1. ASSUME Before(p, t, u) PROVE Before(p \o q, t, u)
    <2>1. PICK i \in 1 .. Len(p), j \in 1 .. Len(p) :
            i < j /\ p[i].type = t /\ p[j].type = u
      BY <1>1, ConcatElements DEF Before
    <2>2. /\ i \in DOMAIN (p \o q) /\ (p \o q)[i].type = t
          /\ j \in DOMAIN (p \o q) /\ (p \o q)[j].type = u
      BY <2>1, ConcatElements
    <2> QED BY <2>1, <2>2 DEF Before
  <1>2. ASSUME Before(q, t, u) PROVE Before(p \o q, t, u)
    <2>1. PICK i \in 1 .. Len(q), j \in 1 .. Len(q) :
            i < j /\ q[i].type = t /\ q[j].type = u
      BY <1>2, ConcatElements DEF Before
    <2>2. i + Len(p) < j + Len(p)
      BY <2>1, ConcatElements
    <2>3. /\ i + Len(p) \in DOMAIN (p \o q) /\ (p \o q)[i + Len(p)].type = t
          /\ j + Len(p) \in DOMAIN (p \o q) /\ (p \o q)[j + Len(p)].type = u
      BY <2>1, ConcatElements
    <2> QED BY <2>2, <2>3 DEF Before
  <1>3. ASSUME Has(p, t), Has(q, u) PROVE Before(p \o q, t, u)
    <2>1. PICK i \in 1 .. Len(p) : p[i].type = t
      BY <1>3, ConcatElements DEF Has
    <2>2. PICK j \in 1 .. Len(q) : q[j].type = u
      BY <1>3, ConcatElements DEF Has
    <2>3. i < j + Len(p)
      BY <2>1, <2>2, ConcatElements
    <2>4. /\ i \in DOMAIN (p \o q) /\ (p \o q)[i].type = t
          /\ j + Len(p) \in DOMAIN (p \o q) /\ (p \o q)[j + Len(p)].type = u
      BY <2>1, <2>2, ConcatElements
    <2> QED BY <2>3, <2>4 DEF Before
  <1>4. ASSUME Before(p \o q, t, u)
        PROVE  Before(p, t, u) \/ Before(q, t, u) \/ (Has(p, t) /\ Has(q, u))
    <2>1. PICK i \in 1 .. Len(p) + Len(q), j \in 1 .. Len(p) + Len(q) :
            i < j /\ (p \o q)[i].type = t /\ (p \o q)[j].type = u
      BY <1>4, ConcatElements DEF Before
    <2>2. CASE i \in 1 .. Len(p) /\ j \in 1 .. Len(p)
      BY <2>1, <2>2, ConcatElements DEF Before
    <2>3. CASE i \in 1 .. Len(p) /\ j \notin 1 .. Len(p)
      BY <2>1, <2>3, ConcatElements DEF Has
    <2>4. CASE i \notin 1 .. Len(p)
      <3>1. j \notin 1 .. Len(p)
        BY <2>1, <2>4, ConcatElements
      <3>2. /\ i - Len(p) \in 1 .. Len(q) /\ q[i - Len(p)].type = t
            /\ j - Len(p) \in 1 .. Len(q) /\ q[j - Len(p)].type = u
        BY <2>1, <2>4, <3>1, ConcatElements
      <3>3. i - Len(p) < j - Len(p)
        BY <2>1, ConcatElements
      <3> QED BY <3>2, <3>3, ConcatElements DEF Before
    <2> QED BY <2>2, <2>3, <2>4
  <1> QED BY <1>1, <1>2, <1>3, <1>4

LEMMA ConcatPooled ==
  ASSUME NEW p \in Seq(Command), NEW q \in Seq(Command)
  PROVE  /\ Pooled(p \o q) = Pooled(p) + Pooled(q)
         /\ Pooled(p) \in Nat /\ Pooled(q) \in Nat
  <1> DEFINE A == {i \in 1 .. Len(p) : p[i].pooled}
             B == {i \in 1 .. Len(q) : q[i].pooled}
             C == {i \in 1 .. Len(p) + Len(q) : (p \o q)[i].pooled}
             D == C \ A
             f == [i \in B |-> i + Len(p)]
  <1>1. Pooled(p) = Cardinality(A) /\ Pooled(q) = Cardinality(B)
        /\ Pooled(p \o q) = Cardinality(C)
    BY ConcatElements DEF Pooled
  <1>2. IsFiniteSet(A) /\ IsFiniteSet(B) /\ IsFiniteSet(C) /\ IsFiniteSet(D)
    <2>1. /\ IsFiniteSet(1 .. Len(p)) /\ IsFiniteSet(1 .. Len(q))
          /\ IsFiniteSet(1 .. Len(p) + Len(q))
      BY FS_Interval, ConcatElements
    <2>2. /\ A \subseteq 1 .. Len(p) /\ B \subseteq 1 .. Len(q)
          /\ C \subseteq 1 .. Len(p) + Len(q) /\ D \subseteq 1 .. Len(p) + Len(q)
      OBVIOUS
    <2> QED BY <2>1, <2>2, FS_Subset
  <1>3. A \subseteq C
    BY ConcatElements
  <1>4. f \in Bijection(B, D)
    <2>1. ASSUME NEW i \in B PROVE i + Len(p) \in D
      <3>1. i + Len(p) \notin 1 .. Len(p)
        BY ConcatElements
      <3> QED BY <3>1, ConcatElements
    <2>2. f \in [B -> D]
      BY <2>1
    <2>3. ASSUME NEW i \in B, NEW j \in B, f[i] = f[j] PROVE i = j
      BY <2>3, ConcatElements
    <2>4. ASSUME NEW k \in D PROVE \E i \in B : f[i] = k
      <3>1. k \notin 1 .. Len(p)
        BY <2>4, ConcatElements
      <3>2. k - Len(p) \in B
        BY <2>4, <3>1, ConcatElements
      <3>3. f[k - Len(p)] = k
        BY <3>2, ConcatElements
      <3> QED BY <3>2, <3>3
    <2> HIDE DEF f, B, D
    <2> QED BY <2>2, <2>3, <2>4, Fun_IsBij
  <1> HIDE DEF A, B, D, C, f
  <1>5. Cardinality(D) = Cardinality(B)
    <2>1. ExistsBijection(B, D)
      BY <1>4 DEF ExistsBijection
    <2> QED BY <1>2, <2>1, FS_Bijection
  <1>6. C = A \cup D /\ A \cap D = {}
    BY <1>3 DEF D
  <1>7. Cardinality(A \cup D) = Cardinality(A) + Cardinality(D) - Cardinality(A \cap D)
    BY <1>2, FS_Union
  <1>8. /\ Cardinality(A) \in Nat /\ Cardinality(B) \in Nat
        /\ Cardinality({}) = 0
    BY <1>2, FS_CardinalityType, FS_EmptySet
  <1>9. Cardinality(C) = Cardinality(A) + Cardinality(B)
    <2>1. Cardinality(C) = Cardinality(A \cup D) /\ Cardinality(A \cap D) = Cardinality({})
      BY <1>6, Zenon
    <2> DEFINE a == Cardinality(A)
               b == Cardinality(B)
               d == Cardinality(D)
               e == Cardinality(A \cap D)
               f2 == Cardinality(A \cup D)
    <2>2. d = b /\ f2 = a + d - e /\ e = 0 /\ a \in Nat /\ b \in Nat
      BY <1>5, <1>7, <1>8, <2>1
    <2> HIDE DEF a, b, d, e, f2
    <2>3. f2 = a + b
      BY <2>2
    <2> QED BY <2>1, <2>3 DEF a, b, f2
  <1> QED BY <1>1, <1>8, <1>9

\* The same of a list of one command, of none, with one at either end.
LEMMA SingleIs ==
  ASSUME NEW c \in Command, NEW t, NEW u
  PROVE  /\ <<c>> \in Seq(Command)
         /\ Has(<<c>>, t) <=> c.type = t
         /\ Once(<<c>>, t)
         /\ ~Before(<<c>>, t, u)
         /\ Pooled(<<c>>) = IF c.pooled THEN 1 ELSE 0
  <1>1. /\ <<c>> \in Seq(Command) /\ DOMAIN <<c>> = {1} /\ <<c>>[1] = c
    OBVIOUS
  <1>2. Has(<<c>>, t) <=> c.type = t
    BY <1>1 DEF Has
  <1>3. Once(<<c>>, t)
    BY <1>1 DEF Once
  <1>4. ~Before(<<c>>, t, u)
    BY <1>1 DEF Before
  <1>5. Pooled(<<c>>) = IF c.pooled THEN 1 ELSE 0
    <2>1. CASE c.pooled
      <3>1. {i \in DOMAIN <<c>> : <<c>>[i].pooled} = {1}
        BY <1>1, <2>1
      <3> QED BY <2>1, <3>1, FS_Singleton DEF Pooled
    <2>2. CASE ~c.pooled
      <3>1. {i \in DOMAIN <<c>> : <<c>>[i].pooled} = {}
        BY <1>1, <2>2
      <3> QED BY <2>2, <3>1, FS_EmptySet DEF Pooled
    <2> QED BY <2>1, <2>2
  <1> QED BY <1>1, <1>2, <1>3, <1>4, <1>5

LEMMA EmptyIs ==
  /\ <<>> \in Seq(Command)
  /\ \A t : ~Has(<<>>, t) /\ Once(<<>>, t)
  /\ \A t, u : ~Before(<<>>, t, u)
  /\ Pooled(<<>>) = 0
  <1>1. DOMAIN <<>> = {}
    OBVIOUS
  <1>2. {i \in DOMAIN <<>> : <<>>[i].pooled} = {}
    BY <1>1
  <1>3. Pooled(<<>>) = 0
    BY <1>2, FS_EmptySet DEF Pooled
  <1> QED BY <1>1, <1>3 DEF Has, Once, Before

LEMMA AppendIs ==
  ASSUME NEW q \in Seq(Command), NEW c \in Command
  PROVE  /\ Append(q, c) \in Seq(Command)
         /\ \A t : Has(Append(q, c), t) <=> Has(q, t) \/ c.type = t
         /\ \A t : Once(Append(q, c), t) <=> Once(q, t) /\ ~(Has(q, t) /\ c.type = t)
         /\ \A t, u : Before(Append(q, c), t, u) <=>
                        Before(q, t, u) \/ (Has(q, t) /\ c.type = u)
         /\ Pooled(Append(q, c)) = Pooled(q) + (IF c.pooled THEN 1 ELSE 0)
  <1> DEFINE r == Append(q, c)
             d == <<c>>
  <1>1. r = q \o d /\ r \in Seq(Command)
    BY AppendIsConcat
  <1>2. /\ d \in Seq(Command)
        /\ \A t : (Has(d, t) <=> c.type = t) /\ Once(d, t)
        /\ \A t, u : ~Before(d, t, u)
        /\ Pooled(d) = IF c.pooled THEN 1 ELSE 0
    BY SingleIs
  <1> HIDE DEF r, d
  <1>3. \A t : Has(r, t) <=> Has(q, t) \/ c.type = t
    BY <1>1, <1>2, ConcatHas
  <1>4. \A t : Once(r, t) <=> Once(q, t) /\ ~(Has(q, t) /\ c.type = t)
    BY <1>1, <1>2, ConcatOnce
  <1>5. \A t, u : Before(r, t, u) <=> Before(q, t, u) \/ (Has(q, t) /\ c.type = u)
    BY <1>1, <1>2, ConcatBefore
  <1>6. Pooled(r) = Pooled(q) + (IF c.pooled THEN 1 ELSE 0)
    <2>1. Pooled(r) = Pooled(q) + Pooled(d)
      BY <1>1, <1>2, ConcatPooled
    <2> QED BY <1>2, <2>1
  <1> QED BY <1>1, <1>3, <1>4, <1>5, <1>6 DEF r

LEMMA ConsIs ==
  ASSUME NEW q \in Seq(Command), NEW c \in Command
  PROVE  /\ <<c>> \o q \in Seq(Command)
         /\ \A t : Has(<<c>> \o q, t) <=> c.type = t \/ Has(q, t)
         /\ \A t : Once(<<c>> \o q, t) <=> Once(q, t) /\ ~(Has(q, t) /\ c.type = t)
         /\ \A t, u : Before(<<c>> \o q, t, u) <=>
                        Before(q, t, u) \/ (c.type = t /\ Has(q, u))
         /\ Pooled(<<c>> \o q) = Pooled(q) + (IF c.pooled THEN 1 ELSE 0)
  <1>1. <<c>> \in Seq(Command)
    BY SingleIs
  <1>2. \A t : Has(<<c>> \o q, t) <=> c.type = t \/ Has(q, t)
    BY <1>1, ConcatHas, SingleIs
  <1>3. \A t : Once(<<c>> \o q, t) <=> Once(q, t) /\ ~(Has(q, t) /\ c.type = t)
    BY <1>1, ConcatOnce, SingleIs
  <1>4. \A t, u : Before(<<c>> \o q, t, u) <=>
                        Before(q, t, u) \/ (c.type = t /\ Has(q, u))
    BY <1>1, ConcatBefore, SingleIs
  <1>5. Pooled(<<c>> \o q) = Pooled(q) + (IF c.pooled THEN 1 ELSE 0)
    <2>1. Pooled(<<c>>) = IF c.pooled THEN 1 ELSE 0
      BY SingleIs
    <2>2. Pooled(<<c>> \o q) = Pooled(<<c>>) + Pooled(q) /\ Pooled(q) \in Nat
      BY <1>1, ConcatPooled
    <2> QED BY <2>1, <2>2
  <1> QED BY <1>1, <1>2, <1>3, <1>4, <1>5, ConcatElements

LEMMA TailIs ==
  ASSUME NEW q \in Seq(Command), q # <<>>
  PROVE  LET c == Head(q)
         IN  /\ c \in Command /\ Tail(q) \in Seq(Command)
             /\ \A t : Has(q, t) <=> c.type = t \/ Has(Tail(q), t)
             /\ \A t : Once(q, t) <=> Once(Tail(q), t) /\ ~(Has(Tail(q), t) /\ c.type = t)
             /\ \A t, u : Before(q, t, u) <=>
                            Before(Tail(q), t, u) \/ (c.type = t /\ Has(Tail(q), u))
             /\ Pooled(q) = Pooled(Tail(q)) + (IF c.pooled THEN 1 ELSE 0)
             /\ Tail(q) # q
  <1>1. Head(q) \in Command /\ Tail(q) \in Seq(Command) /\ Len(Tail(q)) = Len(q) - 1
        /\ Len(q) \in Nat
    BY HeadTailProperties, LenProperties
  <1>2. q = <<Head(q)>> \o Tail(q)
    <2>1. /\ <<Head(q)>> \in Seq(Command) /\ Len(<<Head(q)>>) = 1 /\ <<Head(q)>>[1] = q[1]
      BY <1>1
    <2>2. /\ <<Head(q)>> \o Tail(q) \in Seq(Command)
          /\ Len(<<Head(q)>> \o Tail(q)) = Len(q)
          /\ \A i \in 1 .. Len(q) : (<<Head(q)>> \o Tail(q))[i] =
                     IF i <= 1 THEN <<Head(q)>>[i] ELSE Tail(q)[i - 1]
      BY <1>1, <2>1, ConcatProperties
    <2>3. \A i \in 1 .. Len(q) : q[i] = (<<Head(q)>> \o Tail(q))[i]
      <3>1. \A i \in 1 .. Len(q) - 1 : Tail(q)[i] = q[i + 1]
        BY <1>1, HeadTailProperties
      <3>2. ASSUME NEW i \in 1 .. Len(q) PROVE q[i] = (<<Head(q)>> \o Tail(q))[i]
        <4>1. CASE i = 1
          BY <1>1, <2>1, <2>2, <4>1
        <4>2. CASE i # 1
          <5>1. i - 1 \in 1 .. Len(q) - 1 /\ i - 1 + 1 = i /\ ~(i <= 1)
            BY <1>1, <4>2
          <5> QED BY <2>2, <3>1, <5>1
        <4> QED BY <4>1, <4>2
      <3> QED BY <3>2
    <2> QED BY <2>2, <2>3, SeqEqual
  <1>3. Tail(q) # q
    <2> DEFINE m == Len(Tail(q))
               n == Len(q)
    <2>1. m = n - 1 /\ n \in Nat
      BY <1>1
    <2> HIDE DEF m, n
    <2>2. m # n
      BY <2>1
    <2> QED BY <2>2, Zenon DEF m, n
  <1> DEFINE c == Head(q)
             r == Tail(q)
  <1>4. c \in Command /\ r \in Seq(Command) /\ q = <<c>> \o r
    BY <1>1, <1>2
  <1> HIDE DEF c, r
  <1>5. /\ \A t : Has(q, t) <=> c.type = t \/ Has(r, t)
        /\ \A t : Once(q, t) <=> Once(r, t) /\ ~(Has(r, t) /\ c.type = t)
        /\ \A t, u : Before(q, t, u) <=>
                        Before(r, t, u) \/ (c.type = t /\ Has(r, u))
        /\ Pooled(q) = Pooled(r) + (IF c.pooled THEN 1 ELSE 0)
    BY <1>4, ConsIs
  <1> QED BY <1>3, <1>4, <1>5 DEF c, r

-----------------------------------------------------------------------------
(***************************************************************************)
(* The inductive invariant.                                                *)
(***************************************************************************)
\* A command of type t is queued or active; there are no two of them.
Queued(t) == Has(sme.pending, t) \/ Has(sme.active, t)
Single(t) == Once(sme.pending, t) /\ ~(Has(sme.pending, t) /\ Has(sme.active, t))

\* A call with something to do afterwards is running the queue.  A command of
\* CSR that waits for full power is a call's until that has registered.
Calls ==
  /\ run \in [on: BOOLEAN, then: [kind: Kind, cmd: Command, high: BOOLEAN]]
  /\ ~run.on => run.then = Nothing
  /\ run.then.kind = "csr" => pmc.state # "FULL_POWER" /\ run.then.cmd.type \in CsrType

\* CSR holds commands back only while it waits for full power.
HeldBack ==
  /\ sme.csr # <<>> => "csr" \in pmc.full
  /\ "csr" \in pmc.full => pmc.state # "FULL_POWER"
  /\ \A t \in PmcType : ~Has(sme.csr, t)

\* The connection that waits for a key, and none in standby.
Connection ==
  /\ link.waitKey => link.connected /\ setup.secure
  /\ pmc.state \in {"REQUEST_STANDBY", "STANDBY"} => ~link.connected

\* IMPS is only asked for where there is no connection, nor one coming.
ImpsApart ==
  Has(sme.pending, "enterImps") =>
    /\ ~link.connected /\ ~Has(sme.active, "connect")
    /\ ~Before(sme.pending, "connect", "enterImps")

\* The one request for BMPS is in the queue in full power, where nothing
\* before it leads out of it.
BmpsRequested ==
  ~setup.late =>
    /\ pmc.bmpsQueued <=> Queued("enterBmps")
    /\ Single("enterBmps")
    /\ Has(sme.pending, "enterBmps") => pmc.state = "FULL_POWER"
    /\ ~Before(sme.pending, "enterImps", "enterBmps")
    /\ ~Before(sme.pending, "enterStandby", "enterBmps")

\* What HDD has disabled stays so; full power it was given lasts; a request
\* for standby is the one it waits for.
Suspending ==
  /\ hdd.pc \in {"off", "full", "ask", "standby"} => ~pmc.imps /\ ~pmc.bmps
  /\ ~setup.late =>
       /\ hdd.pc = "full" /\ hdd.full => pmc.state = "FULL_POWER"
       /\ hdd.pc = "ask" => pmc.state = "FULL_POWER"
       /\ Queued("enterStandby") =>
            /\ hdd.pc = "standby"
            /\ "standby" \in pmc.waiting \/ run.then.kind = "standby"
       /\ Single("enterStandby")

\* There are at least two command buffers, no connection waits for a key, and
\* no wait times out.
Ample == setup.pool >= 2 /\ ~setup.secure /\ ~setup.late

\* While a standby is queued the device stays in full power, and the disconnect
\* that may have to go before it finds the buffer that the last command gave
\* back.
Fed ==
  Ample /\ Has(sme.pending, "enterStandby") =>
    /\ pmc.state = "FULL_POWER"
    /\ sme.active = <<>> => sme.free > 0 \/ Head(sme.pending).type \in SmeType

\* What the commands and the state of PMC are to each other, and what this
\* takes of the rest.
Base ==
  /\ TypeOK /\ Len(sme.active) <= 1 /\ Calls
  /\ RequestMatched /\ RunsInFullPower /\ BuffersKept
  /\ HeldBack /\ Connection /\ QueueServed
  /\ ImpsApart /\ BmpsRequested

PmcIInv == Base /\ Suspending /\ Fed

-----------------------------------------------------------------------------
(***************************************************************************)
(* Steps that leave the state and the lists alone, or add a command.       *)
(***************************************************************************)
\* The variables as a world.
LEMMA WorldIs ==
  /\ World.pmc = pmc /\ World.sme = sme /\ World.toPe = toPe
  /\ World.link = link /\ World.hdd = hdd
  /\ World'.pmc = pmc' /\ World'.sme = sme' /\ World'.toPe = toPe'
  /\ World'.link = link' /\ World'.hdd = hdd'
  BY DEF World

LEMMA TypeIs ==
  /\ TypeOK <=> World \in Worlds /\ run.on \in BOOLEAN /\ run.then.cmd \in Command
                /\ left \in [Op -> Nat]
  /\ TypeOK' <=> World' \in Worlds /\ run'.on \in BOOLEAN /\ run'.then.cmd \in Command
                 /\ left' \in [Op -> Nat]
  BY DEF TypeOK, World, Worlds

LEMMA BecomesIs ==
  ASSUME NEW w \in Worlds, Becomes(w)
  PROVE  World' = w
  <1>1. /\ World'.pmc = w.pmc /\ World'.sme = w.sme /\ World'.toPe = w.toPe
        /\ World'.link = w.link /\ World'.hdd = w.hdd
    BY WorldIs DEF Becomes
  <1>2. World' \in Worlds
    BY <1>1, WorldIs DEF Worlds, World
  <1>3. ASSUME NEW x \in Worlds, x.pmc = w.pmc, x.sme = w.sme, x.toPe = w.toPe,
               x.link = w.link, x.hdd = w.hdd
        PROVE  x = w
    BY <1>3 DEF Worlds
  <1> QED BY <1>1, <1>2, <1>3

LEMMA SpendIs ==
  ASSUME TypeOK, NEW op \in Op, Spend(op)
  PROVE  left' \in [Op -> Nat] /\ setup' = setup
  BY DEF TypeOK, Spend

\* Nothing of what the invariant speaks of has changed, but what Suspending
\* speaks of.
LEMMA QuietBase ==
  ASSUME Base, World' \in Worlds,
         pmc'.state = pmc.state, pmc'.bmpsQueued = pmc.bmpsQueued,
         "csr" \in pmc'.full <=> "csr" \in pmc.full,
         sme'.free = sme.free, sme'.pending = sme.pending,
         sme'.active = sme.active, sme'.csr = sme.csr,
         toPe' = toPe, link' = link,
         run' = run, setup' = setup, left' \in [Op -> Nat]
  PROVE  Base'
  <1>1. TypeOK'
    BY TypeIs DEF Base
  <1>2. Len(sme'.active) <= 1 /\ Calls'
    BY DEF Base, Calls
  <1>3. RequestMatched' /\ RunsInFullPower'
    BY DEF Base, RequestMatched, RunsInFullPower
  <1>4. BuffersKept'
    BY DEF Base, BuffersKept, Pooled
  <1>5. HeldBack' /\ Connection'
    BY DEF Base, HeldBack, Connection
  <1>6. QueueServed'
    BY DEF Base, QueueServed, Startable
  <1>7. ImpsApart' /\ BmpsRequested'
    BY DEF Base, ImpsApart, BmpsRequested, Queued, Single
  <1> QED BY <1>1, <1>2, <1>3, <1>4, <1>5, <1>6, <1>7 DEF Base

\* A command has been put on the queue.
LEMMA QueuesIs ==
  ASSUME NEW w \in Worlds, NEW v \in Worlds, NEW t \in PmcType, Queues(w, v, t)
  PROVE  /\ v.sme.pending # w.sme.pending
         /\ v.sme.active = w.sme.active /\ v.sme.csr = w.sme.csr
         /\ \A x : Has(v.sme.pending, x) <=> Has(w.sme.pending, x) \/ t = x
         /\ \A x : Once(v.sme.pending, x)
                     <=> Once(w.sme.pending, x) /\ ~(Has(w.sme.pending, x) /\ t = x)
         /\ \A x, y : Before(v.sme.pending, x, y) <=>
                        \/ Before(w.sme.pending, x, y)
                        \/ Has(w.sme.pending, x) /\ t = y
         /\ v.sme.free + Pooled(v.sme.pending) = w.sme.free + Pooled(w.sme.pending)
         /\ v.sme.free \in Nat /\ Pooled(v.sme.pending) \in Nat
         /\ w.sme.free \in Nat /\ Pooled(w.sme.pending) \in Nat
  <1> DEFINE q == w.sme.pending
             c == [type |-> t, pooled |-> w.sme.free > 0]
  <1>0. q \in Seq(Command) /\ w.sme.free \in Nat /\ v.sme.free \in Nat
    BY DEF Worlds, SmeRecord
  <1>1. c \in Command
    <2> DEFINE b == w.sme.free > 0
    <2>1. b \in BOOLEAN
      BY <1>0
    <2> HIDE DEF b
    <2>2. [type |-> t, pooled |-> b] \in Command
      BY <2>1 DEF Command
    <2> QED BY <2>2 DEF b
  <1>2. c.pooled = (w.sme.free > 0) /\ c.type = t
    OBVIOUS
  <1>3. v.sme.pending = Append(q, c)
    BY DEF Queues
  <1>4. v.sme.free = IF w.sme.free > 0 THEN w.sme.free - 1 ELSE w.sme.free
    BY DEF Queues
  <1>5. v.sme.active = w.sme.active /\ v.sme.csr = w.sme.csr
    BY DEF Queues
  <1> HIDE DEF c, q
  <1>6. /\ \A x : Has(Append(q, c), x) <=> Has(q, x) \/ c.type = x
        /\ \A x : Once(Append(q, c), x) <=> Once(q, x) /\ ~(Has(q, x) /\ c.type = x)
        /\ \A x, y : Before(Append(q, c), x, y) <=>
                        Before(q, x, y) \/ (Has(q, x) /\ c.type = y)
    BY <1>0, <1>1, AppendIs
  <1>7. Pooled(Append(q, c)) = Pooled(q) + (IF c.pooled THEN 1 ELSE 0)
    BY <1>0, <1>1, AppendIs
  <1>8. Pooled(q) \in Nat
    BY <1>0, ConcatPooled
  <1>9. Append(q, c) # q
    BY <1>0, <1>1, AppendProperties, LenProperties
  <1>10. q = w.sme.pending
    BY DEF q
  <1> DEFINE p == Append(q, c)
  <1>11. v.sme.pending = p
    BY <1>3
  <1>12. Pooled(p) = Pooled(q) + (IF w.sme.free > 0 THEN 1 ELSE 0)
    BY <1>7, <1>2
  <1> HIDE DEF p
  <1>13. /\ v.sme.free + Pooled(p) = w.sme.free + Pooled(q)
         /\ Pooled(p) \in Nat
    BY <1>0, <1>4, <1>8, <1>12
  <1> QED BY <1>0, <1>2, <1>5, <1>6, <1>8, <1>9, <1>10, <1>11, <1>13 DEF p

\* A command of type t has been added to the queue, and that is being run.
LEMMA IssueBase ==
  ASSUME Base, World' \in Worlds, NEW t \in PmcType, Queues(World, World', t),
         pmc'.state = pmc.state,
         "csr" \in pmc'.full <=> "csr" \in pmc.full,
         toPe' = toPe, link' = link, setup' = setup, left' \in [Op -> Nat],
         run'.on, Calls', BuffersKept',
         t = "enterImps" => /\ ~link.connected /\ ~Has(sme.active, "connect")
                            /\ ~Has(sme.pending, "connect"),
         t # "enterBmps" => pmc'.bmpsQueued = pmc.bmpsQueued,
         t = "enterBmps" => /\ pmc'.bmpsQueued /\ ~pmc.bmpsQueued
                            /\ pmc.state = "FULL_POWER" /\ link.connected
                            /\ ~setup.late => ~Has(sme.pending, "enterStandby")
  PROVE  Base'
  <1>0. sme'.active = sme.active /\ sme'.csr = sme.csr
    BY WorldIs DEF Queues
  <1>1. TypeOK'
    <2>1. run'.on \in BOOLEAN /\ run'.then.cmd \in Command
      BY DEF Calls
    <2> QED BY <2>1, TypeIs
  <1>3. RequestMatched' /\ RunsInFullPower' /\ Len(sme'.active) <= 1
    BY <1>0 DEF Base, RequestMatched, RunsInFullPower
  <1>5. HeldBack' /\ Connection'
    BY <1>0 DEF Base, HeldBack, Connection
  <1>6. QueueServed'
    BY DEF QueueServed
  <1>7. /\ \A x : Has(sme'.pending, x) <=> Has(sme.pending, x) \/ t = x
        /\ \A x : Once(sme'.pending, x) <=> Once(sme.pending, x) /\ ~(Has(sme.pending, x) /\ t = x)
        /\ \A x, y : Before(sme'.pending, x, y) <=>
                        Before(sme.pending, x, y) \/ (Has(sme.pending, x) /\ t = y)
    <2>1. World \in Worlds
      BY TypeIs DEF Base
    <2> QED BY <2>1, QueuesIs, WorldIs
  <1>8. ImpsApart'
    <2>1. /\ Has(sme'.pending, "enterImps") => Has(sme.pending, "enterImps") \/ t = "enterImps"
          /\ Before(sme'.pending, "connect", "enterImps") =>
               \/ Before(sme.pending, "connect", "enterImps")
               \/ Has(sme.pending, "connect") /\ t = "enterImps"
          /\ Has(sme'.active, "connect") <=> Has(sme.active, "connect")
      BY <1>0, <1>7
    <2>2. Before(sme.pending, "connect", "enterImps") =>
            Has(sme.pending, "connect") /\ Has(sme.pending, "enterImps")
      BY DEF Before, Has
    <2>3. Has(sme.pending, "enterImps") =>
            /\ ~link.connected /\ ~Has(sme.active, "connect")
            /\ ~Before(sme.pending, "connect", "enterImps")
      BY DEF Base, ImpsApart
    <2>4. CASE t = "enterImps"
      BY <2>1, <2>2, <2>4 DEF ImpsApart
    <2>5. CASE t # "enterImps"
      BY <2>1, <2>3, <2>5 DEF ImpsApart
    <2> QED BY <2>4, <2>5
  <1>9. BmpsRequested'
    <2> SUFFICES ASSUME ~setup.late PROVE BmpsRequested'
      BY DEF BmpsRequested
    <2>1. CASE t = "enterBmps"
      <3>1. ~Has(sme.pending, "enterImps") /\ ~Has(sme.pending, "enterStandby")
        BY <2>1 DEF Base, ImpsApart
      <3>2. ~Queued("enterBmps") /\ Once(sme.pending, "enterBmps")
        BY <2>1 DEF Base, BmpsRequested, Single
      <3>3. pmc'.bmpsQueued /\ Has(sme'.pending, "enterBmps") /\ pmc'.state = "FULL_POWER"
        BY <2>1, <1>7
      <3>4. Once(sme'.pending, "enterBmps") /\ ~Has(sme'.active, "enterBmps")
        BY <3>2, <1>0, <1>7 DEF Queued
      <3>5. /\ ~Before(sme'.pending, "enterImps", "enterBmps")
            /\ ~Before(sme'.pending, "enterStandby", "enterBmps")
        BY <3>1, <1>7 DEF Base, BmpsRequested
      <3> QED BY <3>3, <3>4, <3>5 DEF BmpsRequested, Queued, Single
    <2>2. CASE t # "enterBmps"
      <3>1. /\ Has(sme'.pending, "enterBmps") <=> Has(sme.pending, "enterBmps")
            /\ Once(sme'.pending, "enterBmps") <=> Once(sme.pending, "enterBmps")
            /\ \A x : Before(sme'.pending, x, "enterBmps") <=> Before(sme.pending, x, "enterBmps")
        BY <2>2, <1>7
      <3> QED BY <2>2, <3>1, <1>0 DEF Base, BmpsRequested, Queued, Single
    <2> QED BY <2>1, <2>2
  <1> QED BY <1>1, <1>3, <1>5, <1>6, <1>8, <1>9 DEF Base

\* The buffers when a command is added, and the call holds none.
LEMMA IssueBuffers ==
  ASSUME Base, NEW t \in PmcType, Queues(World, World', t), World' \in Worlds,
         setup' = setup,
         \/ run'.then = run.then
         \/ run.then = Nothing /\ run'.then.kind # "csr"
  PROVE  BuffersKept'
  <1>1. World \in Worlds /\ World' \in Worlds
    BY TypeIs DEF Base
  <1>2. /\ sme'.free + Pooled(sme'.pending) = sme.free + Pooled(sme.pending)
        /\ sme'.active = sme.active /\ sme'.csr = sme.csr
    BY <1>1, WorldIs, QueuesIs
  <1>3. sme'.free + Pooled(sme'.pending) + Pooled(sme'.active) + Pooled(sme'.csr)
          = sme.free + Pooled(sme.pending) + Pooled(sme.active) + Pooled(sme.csr)
    BY <1>2
  <1>4. (IF run'.then.kind = "csr" /\ run'.then.cmd.pooled THEN 1 ELSE 0)
          = (IF run.then.kind = "csr" /\ run.then.cmd.pooled THEN 1 ELSE 0)
    BY DEF Nothing
  <1> QED BY <1>3, <1>4 DEF Base, BuffersKept

\* Behind a command that is queued while nobody runs the queue another one is
\* active.
LEMMA Busy ==
  ASSUME PmcIInv, ~run.on, Ample, NEW t, Has(sme.pending, t)
  PROVE  sme.active # <<>>
  <1>1. sme.pending # <<>>
    BY EmptyIs
  <1>2. ~Startable /\ ~link.waitKey
    BY DEF PmcIInv, Base, QueueServed, Connection, Ample
  <1> QED BY <1>1, <1>2 DEF Startable

\* What Suspending speaks of, when HDD does nothing.
LEMMA SuspendingKept ==
  ASSUME Suspending, setup' = setup,
         pmc'.imps = pmc.imps, pmc'.bmps = pmc.bmps,
         hdd'.pc = hdd.pc, hdd'.full => hdd.full \/ pmc'.state = "FULL_POWER",
         pmc'.state = pmc.state \/ pmc'.state = "FULL_POWER" \/ pmc.state # "FULL_POWER",
         Queued("enterStandby")' => Queued("enterStandby"),
         Single("enterStandby") => Single("enterStandby")',
         Queued("enterStandby")' /\ "standby" \in pmc.waiting => "standby" \in pmc'.waiting,
         Queued("enterStandby")' /\ run.then.kind = "standby" =>
           "standby" \in pmc'.waiting \/ run'.then.kind = "standby"
  PROVE  Suspending'
  BY DEF Suspending


-----------------------------------------------------------------------------
(***************************************************************************)
(* Calls that change nothing the invariant speaks of, or queue a command   *)
(* of PMC.                                                                 *)
(***************************************************************************)
\* What a call has left to do.
Thens == [kind: Kind, cmd: Command, high: BOOLEAN]

\* Nothing differs but timers, flags and who is to be called back.
Calm(w, v) ==
  /\ Alike(w, v) /\ v.sme = w.sme
  /\ v.pmc.state = w.pmc.state /\ v.pmc.bmpsQueued = w.pmc.bmpsQueued
  /\ "csr" \in v.pmc.full <=> "csr" \in w.pmc.full
  /\ v.hdd.full => w.hdd.full
  /\ "standby" \in w.pmc.waiting => "standby" \in v.pmc.waiting

\* What a call of PMC may have done before the queue is run: a command of type
\* t has been queued, where that is in order.
Added(w, t) ==
  /\ Kept(World, w) /\ Queues(World, w, t) /\ t \in PmcType \ {"enterStandby"}
  /\ t = "enterImps" => /\ ~link.connected /\ ~Has(sme.active, "connect")
                        /\ ~Has(sme.pending, "connect")
  /\ t # "enterBmps" => w.pmc.bmpsQueued = pmc.bmpsQueued
  /\ t = "enterBmps" => /\ w.pmc.bmpsQueued /\ ~pmc.bmpsQueued
                        /\ pmc.state = "FULL_POWER" /\ link.connected
                        /\ ~setup.late => ~Has(sme.pending, "enterStandby")

LEMMA AfterIs ==
  /\ Nothing \in Thens /\ Nothing.kind = "none"
  /\ \A kind \in Kind : After(kind) \in Thens /\ After(kind).kind = kind
  BY DEF Nothing, After, Thens, NoCommand, Kind, Command, PmcType, Exit

LEMMA SameCalm ==
  ASSUME NEW w, NEW v, Same(w, v)
  PROVE  Calm(w, v) /\ v \in Worlds
  BY DEF Same, Kept, Alike, Calm

LEMMA FinishCalm ==
  ASSUME NEW w, NEW u, Calm(w, u), NEW then \in Thens, then.kind # "csr"
  PROVE  Calm(w, Finish(u, then)) /\ Finish(u, then) \in Worlds
  <1> DEFINE v == Finish(u, then)
  <1>1. u \in Worlds
    BY DEF Calm, Alike
  <1>2. /\ Alike(u, v) /\ v.pmc.state = u.pmc.state
        /\ v.pmc.bmpsQueued = u.pmc.bmpsQueued
        /\ v.hdd.full = u.hdd.full
        /\ v.sme.free = u.sme.free /\ v.sme.pending = u.sme.pending
        /\ v.sme.active = u.sme.active /\ v.sme.csr = u.sme.csr
        /\ "csr" \in v.pmc.full <=> "csr" \in u.pmc.full
        /\ "standby" \in v.pmc.waiting <=>
             "standby" \in u.pmc.waiting \/ then.kind = "standby"
    BY <1>1, FinishIs DEF Thens
  <1> HIDE DEF v
  <1>3. v.sme = u.sme
    BY <1>1, <1>2 DEF Worlds, SmeRecord, Alike
  <1> QED BY <1>2, <1>3 DEF Calm, Alike, v

LEMMA QuietKept ==
  ASSUME PmcIInv, NEW w, Calm(World, w), Becomes(w),
         run' = run, setup' = setup, left' \in [Op -> Nat]
  PROVE  PmcIInv'
  <1>1. w \in Worlds
    BY DEF Calm, Alike
  <1>2. World' = w
    BY <1>1, BecomesIs
  <1>3. /\ pmc'.state = pmc.state /\ pmc'.bmpsQueued = pmc.bmpsQueued
        /\ "csr" \in pmc'.full <=> "csr" \in pmc.full
        /\ sme' = sme /\ toPe' = toPe /\ link' = link
        /\ pmc'.imps = pmc.imps /\ pmc'.bmps = pmc.bmps
        /\ hdd'.pc = hdd.pc
        /\ hdd'.full => hdd.full
        /\ "standby" \in pmc.waiting => "standby" \in pmc'.waiting
    BY <1>2, WorldIs DEF Calm, Alike
  <1>4. Base'
    BY <1>1, <1>2, <1>3, QuietBase DEF PmcIInv
  <1>5. /\ Queued("enterStandby")' <=> Queued("enterStandby")
        /\ Single("enterStandby")' <=> Single("enterStandby")
    BY <1>3 DEF Queued, Single
  <1>6. Suspending'
    BY <1>3, <1>5, SuspendingKept DEF PmcIInv
  <1>7. Fed'
    BY <1>3 DEF PmcIInv, Fed, Ample
  <1> QED BY <1>4, <1>6, <1>7 DEF PmcIInv

LEMMA AddedKept ==
  ASSUME PmcIInv, NEW w, NEW t, Added(w, t), Becomes(w),
         run'.on, run' \in [on: BOOLEAN, then: Thens],
         \/ run'.then = run.then
         \/ run.then = Nothing /\ run'.then.kind # "csr",
         ~run.on \/ t = "enterBmps" \/ pmc.state # "FULL_POWER",
         setup' = setup, left' \in [Op -> Nat]
  PROVE  PmcIInv'
  <1>1. w \in Worlds /\ t \in PmcType
    BY DEF Added, Kept, Alike
  <1>2. World' = w
    BY <1>1, BecomesIs
  <1>3. /\ pmc'.state = pmc.state /\ pmc'.full = pmc.full
        /\ toPe' = toPe /\ link' = link
        /\ pmc'.imps = pmc.imps /\ pmc'.bmps = pmc.bmps
        /\ hdd'.pc = hdd.pc /\ hdd'.full = hdd.full
        /\ "standby" \in pmc.waiting => "standby" \in pmc'.waiting
    BY <1>2, WorldIs DEF Added, Kept, Alike
  <1>4. Queues(World, World', t) /\ World' \in Worlds
    BY <1>1, <1>2 DEF Added
  <1>5. Calls'
    BY <1>3 DEF PmcIInv, Base, Calls, Thens, Nothing
  <1>6. BuffersKept'
    BY <1>1, <1>4, IssueBuffers DEF PmcIInv
  <1>7. pmc'.bmpsQueued = w.pmc.bmpsQueued
    BY <1>2, WorldIs
  <1>8. Base'
    BY <1>1, <1>3, <1>4, <1>5, <1>6, <1>7, IssueBase DEF PmcIInv, Added
  <1>9. World \in Worlds
    BY TypeIs DEF PmcIInv, Base
  <1>10. /\ Queued("enterStandby")' <=> Queued("enterStandby")
         /\ Single("enterStandby")' <=> Single("enterStandby")
         /\ Has(sme'.pending, "enterStandby") <=> Has(sme.pending, "enterStandby")
         /\ sme'.active = sme.active
    <2>1. t # "enterStandby"
      BY DEF Added
    <2>2. /\ Has(sme'.pending, "enterStandby") <=> Has(sme.pending, "enterStandby")
          /\ Once(sme'.pending, "enterStandby") <=> Once(sme.pending, "enterStandby")
          /\ sme'.active = sme.active
      <3>1. /\ Has(World'.sme.pending, "enterStandby")
                <=> Has(World.sme.pending, "enterStandby")
            /\ Once(World'.sme.pending, "enterStandby")
                <=> Once(World.sme.pending, "enterStandby")
            /\ World'.sme.active = World.sme.active
        BY <1>1, <1>4, <1>9, <2>1, QueuesIs
      <3> QED BY <3>1, WorldIs
    <2> QED BY <2>2 DEF Queued, Single
  <1>11. run.then.kind = "standby" => run'.then.kind = "standby"
    BY DEF Nothing
  <1>12. Suspending'
    BY <1>3, <1>10, <1>11, SuspendingKept DEF PmcIInv
  <1>13. Fed'
    <2> SUFFICES ASSUME Ample, Has(sme.pending, "enterStandby")
                 PROVE  pmc.state = "FULL_POWER" /\ sme.active # <<>>
      BY <1>3, <1>10 DEF Fed, Ample
    <2>1. pmc.state = "FULL_POWER"
      BY DEF PmcIInv, Fed
    <2>2. t # "enterBmps"
      BY DEF Added, Ample
    <2> QED BY <2>1, <2>2, Busy
  <1> QED BY <1>8, <1>12, <1>13 DEF PmcIInv

LEMMA CallKept ==
  ASSUME PmcIInv, ~run.on, setup' = setup, left' \in [Op -> Nat],
         NEW w, NEW then \in Thens, then.kind # "csr", Call(w, then),
         Calm(World, w) \/ \E t : Added(w, t)
  PROVE  PmcIInv'
  <1>1. CASE Calm(World, w)
    <2>1. w.sme.pending = sme.pending
      BY <1>1, WorldIs DEF Calm
    <2>2. Becomes(Finish(w, then)) /\ run' = run
      BY <2>1 DEF Call
    <2> QED BY <1>1, <2>2, FinishCalm, QuietKept
  <1>2. ASSUME NEW t, Added(w, t) PROVE PmcIInv'
    <2>1. w \in Worlds /\ World \in Worlds
      BY <1>2, TypeIs DEF Added, Kept, Alike, PmcIInv, Base
    <2>2. w.sme.pending # sme.pending
      BY <1>2, <2>1, QueuesIs, WorldIs DEF Added
    <2>3. Becomes(w) /\ run' = [on |-> TRUE, then |-> then]
      BY <2>2 DEF Call
    <2>4. run.then = Nothing
      BY DEF PmcIInv, Base, Calls
    <2> QED BY <1>2, <2>3, <2>4, AddedKept
  <1> QED BY <1>1, <1>2

\* BMPS is not asked for while HDD suspends.
LEMMA NoStandbyQueued ==
  ASSUME PmcIInv, pmc.bmps \/ pmc.imps
  PROVE  ~setup.late => ~Has(sme.pending, "enterStandby")
  BY DEF PmcIInv, Suspending, Queued

-----------------------------------------------------------------------------
(***************************************************************************)
(* The calls of PMC, and its timers.                                       *)
(***************************************************************************)
\* What is common to the calls: the lock is free, what is left is counted.
LEMMA CallStarts ==
  ASSUME PmcIInv
  PROVE  /\ World \in Worlds
         /\ ~run.on => run.then = Nothing
         /\ \A op \in Op : Spend(op) => left' \in [Op -> Nat] /\ setup' = setup
         /\ UNCHANGED quota => left' \in [Op -> Nat] /\ setup' = setup
  BY TypeIs, SpendIs DEF PmcIInv, Base, Calls, quota

\* A change of flags is calm; so is one before a calm one.
LEMMA SameThenCalm ==
  ASSUME NEW w, NEW u, NEW v, Same(w, u), Same(u, v)
  PROVE  Calm(w, v)
  BY SameTrans, SameCalm

\* A command is queued behind a change of flags.
LEMMA IssuedAdded ==
  ASSUME NEW u \in Worlds, Same(World, u),
         NEW t \in PmcType \ {"enterStandby", "enterBmps"},
         t = "enterImps" => /\ ~link.connected /\ ~Has(sme.active, "connect")
                            /\ ~Has(sme.pending, "connect")
  PROVE  Added(Issue(u, t), t)
  <1>1. Issued(u, Issue(u, t), t) /\ Issue(u, t).pmc = u.pmc
    BY IssueIs
  <1>2. Issued(World, Issue(u, t), t)
    BY <1>1, SameThenIssued
  <1>3. Issue(u, t).pmc.bmpsQueued = pmc.bmpsQueued
    BY <1>1, WorldIs DEF Same
  <1> QED BY <1>2, <1>3 DEF Issued, Added

\* BMPS is asked for where it may be.
LEMMA BmpsAdded ==
  ASSUME PmcIInv, NEW u \in Worlds, Same(World, u),
         pmc.state = "FULL_POWER", link.connected, pmc.bmps
  PROVE  LET v == EnterRequestBmpsState(u)
         IN  /\ v \in Worlds
             /\ Calm(World, v) \/ Added(v, "enterBmps")
  <1> DEFINE v == EnterRequestBmpsState(u)
  <1>1. \/ Same(u, v)
        \/ Issued(u, v, "enterBmps") /\ v.pmc.bmpsQueued /\ ~u.pmc.bmpsQueued
    BY BmpsFlagged
  <1>2. u.pmc.bmpsQueued = pmc.bmpsQueued
    BY WorldIs DEF Same
  <1> HIDE DEF v
  <1>3. CASE Same(u, v)
    BY <1>3, SameThenCalm DEF v, Calm, Alike
  <1>4. CASE Issued(u, v, "enterBmps") /\ v.pmc.bmpsQueued /\ ~u.pmc.bmpsQueued
    <2>1. Issued(World, v, "enterBmps")
      BY <1>4, SameThenIssued
    <2>2. "enterBmps" \in PmcType \ {"enterStandby"}
      BY DEF PmcType, Enter
    <2>3. ~setup.late => ~Has(sme.pending, "enterStandby")
      BY NoStandbyQueued
    <2>4. Added(v, "enterBmps")
      BY <1>2, <1>4, <2>1, <2>2, <2>3 DEF Issued, Added
    <2> QED BY <2>1, <2>4 DEF v, Issued, Kept, Alike
  <1> QED BY <1>1, <1>3, <1>4

\* Full power is requested behind a change of flags.
LEMMA FullAdded ==
  ASSUME NEW u \in Worlds, Same(World, u)
  PROVE  LET v == EnterRequestFullPowerState(u)
         IN  Calm(World, v) \/ \E t \in Exit : Added(v, t)
  <1> DEFINE v == EnterRequestFullPowerState(u)
  <1>1. IF u.pmc.state \in Saving THEN Issued(u, v, ExitOf[u.pmc.state]) /\ v.pmc = u.pmc
                                  ELSE Same(u, v)
    BY FullPowerRequested
  <1> HIDE DEF v
  <1>2. CASE u.pmc.state \notin Saving
    BY <1>1, <1>2, SameThenCalm DEF v
  <1>3. CASE u.pmc.state \in Saving
    <2> DEFINE t == ExitOf[u.pmc.state]
    <2>1. t \in Exit
      BY <1>3, ExitTypes
    <2>2. t \in PmcType \ {"enterStandby", "enterBmps"} /\ t # "enterImps"
      BY <2>1 DEF Exit, PmcType
    <2>3. Issued(u, v, t) /\ v.pmc = u.pmc
      BY <1>1, <1>3
    <2> HIDE DEF t
    <2>4. Issued(World, v, t)
      BY <2>3, SameThenIssued
    <2>5. v.pmc.bmpsQueued = pmc.bmpsQueued
      BY <2>3, WorldIs DEF Same
    <2>6. Added(v, t)
      BY <2>2, <2>4, <2>5 DEF Issued, Added
    <2> QED BY <2>1, <2>6 DEF v
  <1> QED BY <1>2, <1>3

\* No command of CSR is waiting or active when power may be saved.
LEMMA NothingOfCsr ==
  ASSUME PowerSaveCheck(World), TypeOK
  PROVE  ~Has(sme.active, "connect") /\ ~Has(sme.pending, "connect")
  <1>1. \A c \in ToSet(sme.pending) \cup ToSet(sme.active) : c.type \notin CsrType
    BY WorldIs DEF PowerSaveCheck
  <1> QED BY <1>1 DEF Has, ToSet, CsrType

LEMMA RequestImpsStep ==
  ASSUME PmcIInv, RequestImps
  PROVE  PmcIInv'
  <1> DEFINE w == [World EXCEPT !.pmc.traffic = FALSE]
  <1>1. /\ World \in Worlds /\ left' \in [Op -> Nat] /\ setup' = setup
        /\ ~run.on /\ EnterImpsCheck(World)
    BY CallStarts DEF RequestImps, Locked, Op
  <1>2. Same(World, w) /\ w \in Worlds
    BY <1>1, SmallChanges, SameIs
  <1>3. IF CanPrepare(w, "enterImps")
        THEN Call(Issue(w, "enterImps"), After("imps"))
        ELSE Call(StartTrafficTimer(w), Nothing)
    BY DEF RequestImps
  <1> HIDE DEF w
  <1>4. CASE CanPrepare(w, "enterImps")
    <2>1. /\ "enterImps" \in PmcType \ {"enterStandby", "enterBmps"}
          /\ "imps" \in Kind \ {"csr"}
      BY DEF PmcType, Enter, Kind
    <2>2. ~link.connected /\ PowerSaveCheck(World) /\ TypeOK
      BY <1>1, WorldIs DEF EnterImpsCheck, PmcIInv, Base
    <2>3. Added(Issue(w, "enterImps"), "enterImps")
      BY <1>2, <2>1, <2>2, NothingOfCsr, IssuedAdded
    <2> QED BY <1>1, <1>3, <1>4, <2>1, <2>3, AfterIs, CallKept
  <1>5. CASE ~CanPrepare(w, "enterImps")
    <2>1. Calm(World, StartTrafficTimer(w))
      BY <1>2, TrafficTimer, SameThenCalm
    <2> QED BY <1>1, <1>3, <1>5, <2>1, AfterIs, CallKept
  <1> QED BY <1>4, <1>5

LEMMA RequestBmpsStep ==
  ASSUME PmcIInv, RequestBmps
  PROVE  PmcIInv'
  <1> DEFINE w == [World EXCEPT !.pmc.byHdd = TRUE]
             then == IF pmc.bmpsQueued \/ CanPrepare(World, "enterBmps")
                     THEN After("bmps") ELSE Nothing
  <1>1. World \in Worlds /\ left' \in [Op -> Nat] /\ setup' = setup /\ ~run.on
    BY CallStarts DEF RequestBmps, Locked, Op
  <1>2. then \in Thens /\ then.kind # "csr"
    BY AfterIs DEF Kind
  <1>3. CASE pmc.state \in {"BMPS", "REQUEST_START_UAPSD", "UAPSD"}
    <2>1. Calm(World, w)
      BY <1>1, SmallChanges, SameCalm
    <2>2. Call(w, Nothing)
      BY <1>3 DEF RequestBmps
    <2> QED BY <1>1, <2>1, <2>2, AfterIs, CallKept
  <1>4. CASE pmc.state \notin {"BMPS", "REQUEST_START_UAPSD", "UAPSD"}
    <2>1. /\ pmc.state = "FULL_POWER" /\ EnterBmpsCheck(World)
          /\ Call(EnterRequestBmpsState(World), then)
      BY <1>4 DEF RequestBmps
    <2>2. link.connected /\ pmc.bmps /\ Same(World, World)
      BY <1>1, <2>1, WorldIs, SmallChanges DEF EnterBmpsCheck
    <2> HIDE DEF then
    <2> QED BY <1>1, <1>2, <2>1, <2>2, BmpsAdded, CallKept
  <1> QED BY <1>3, <1>4

LEMMA StartUapsdStep ==
  ASSUME PmcIInv, StartUapsd
  PROVE  PmcIInv'
  <1> DEFINE w == [World EXCEPT !.pmc.uapsd = TRUE]
             then == IF pmc.bmpsQueued \/ CanPrepare(w, "enterBmps")
                     THEN After("uapsd") ELSE Nothing
  <1>1. /\ World \in Worlds /\ left' \in [Op -> Nat] /\ setup' = setup /\ ~run.on
        /\ pmc.bmps /\ link.connected
    BY CallStarts DEF StartUapsd, Locked, Op
  <1>2. /\ then \in Thens /\ then.kind # "csr"
        /\ After("uapsd") \in Thens /\ After("uapsd").kind # "csr"
    BY AfterIs DEF Kind
  <1>3. Same(World, w) /\ w \in Worlds /\ Same(World, World)
    BY <1>1, SmallChanges, SameIs
  <1>4. \/ Call(StartTrafficTimer(w), After("uapsd"))
        \/ /\ pmc.state = "FULL_POWER"
           /\ Call(EnterRequestBmpsState(w), then)
        \/ Call(Issue(World, "enterUapsd"), After("uapsd"))
        \/ Call(w, After("uapsd"))
        \/ Call(World, After("uapsd"))
    BY DEF StartUapsd
  <1> HIDE DEF w, then
  <1>5. CASE Call(StartTrafficTimer(w), After("uapsd"))
    <2>1. Calm(World, StartTrafficTimer(w))
      BY <1>3, TrafficTimer, SameThenCalm
    <2> QED BY <1>1, <1>2, <1>5, <2>1, CallKept
  <1>6. CASE pmc.state = "FULL_POWER" /\ Call(EnterRequestBmpsState(w), then)
    BY <1>1, <1>2, <1>3, <1>6, BmpsAdded, CallKept
  <1>7. CASE Call(Issue(World, "enterUapsd"), After("uapsd"))
    <2>1. "enterUapsd" \in PmcType \ {"enterStandby", "enterBmps"}
      BY DEF PmcType, Enter
    <2>2. Added(Issue(World, "enterUapsd"), "enterUapsd")
      BY <1>1, <1>3, <2>1, IssuedAdded
    <2> QED BY <1>1, <1>2, <1>7, <2>2, CallKept
  <1>8. CASE Call(w, After("uapsd")) \/ Call(World, After("uapsd"))
    <2>1. Calm(World, w) /\ Calm(World, World)
      BY <1>3, SameCalm
    <2> QED BY <1>1, <1>2, <1>8, <2>1, CallKept
  <1> QED BY <1>4, <1>5, <1>6, <1>7, <1>8

LEMMA StopUapsdStep ==
  ASSUME PmcIInv, StopUapsd
  PROVE  PmcIInv'
  <1> DEFINE w == [World EXCEPT !.pmc.uapsd = FALSE]
  <1>1. World \in Worlds /\ left' \in [Op -> Nat] /\ setup' = setup /\ ~run.on
    BY CallStarts DEF StopUapsd, Locked, Op
  <1>2. Same(World, w) /\ w \in Worlds
    BY <1>1, SmallChanges, SameIs
  <1>3. Call(Issue(w, "exitUapsd"), Nothing) \/ Call(w, Nothing)
    BY DEF StopUapsd
  <1> HIDE DEF w
  <1>4. "exitUapsd" \in PmcType \ {"enterStandby", "enterBmps"}
    BY DEF PmcType, Exit
  <1>5. Added(Issue(w, "exitUapsd"), "exitUapsd") /\ Calm(World, w)
    BY <1>2, <1>4, IssuedAdded, SameCalm
  <1> QED BY <1>1, <1>3, <1>5, AfterIs, CallKept

\* Who waits for WOWL is told, or no longer.
LEMMA WowlWaits ==
  ASSUME NEW w \in Worlds
  PROVE  LET u == [w EXCEPT !.pmc.waiting = @ \cup {"wowl"}]
             v == [w EXCEPT !.pmc.waiting = @ \ {"wowl"}]
         IN  Same(w, u) /\ Same(w, v) /\ u \in Worlds /\ v \in Worlds
  BY DEF Same, Kept, Alike, Worlds, PmcRecord

LEMMA EnterWowlStep ==
  ASSUME PmcIInv, EnterWowl
  PROVE  PmcIInv'
  <1> DEFINE w == [World EXCEPT !.pmc.waiting = @ \cup {"wowl"}]
             then == IF pmc.bmpsQueued \/ CanPrepare(w, "enterBmps")
                     THEN After("wowl") ELSE Nothing
  <1>1. /\ World \in Worlds /\ left' \in [Op -> Nat] /\ setup' = setup /\ ~run.on
        /\ pmc.bmps /\ link.connected
    BY CallStarts DEF EnterWowl, Locked, Op
  <1>2. /\ then \in Thens /\ then.kind # "csr" /\ Nothing \in Thens /\ Nothing.kind # "csr"
        /\ After("wowl") \in Thens /\ After("wowl").kind # "csr"
    BY AfterIs DEF Kind
  <1>3. Same(World, w) /\ w \in Worlds
    BY <1>1, WowlWaits
  <1>4. \/ /\ pmc.state = "FULL_POWER"
           /\ Call(EnterRequestBmpsState(w), then)
        \/ Call(Issue(w, "enterWowl"), After("wowl"))
        \/ Call(w, Nothing)
        \/ Call(w, After("wowl"))
    BY DEF EnterWowl
  <1> HIDE DEF w, then
  <1>5. CASE pmc.state = "FULL_POWER" /\ Call(EnterRequestBmpsState(w), then)
    BY <1>1, <1>2, <1>3, <1>5, BmpsAdded, CallKept
  <1>6. CASE Call(Issue(w, "enterWowl"), After("wowl"))
    <2>1. "enterWowl" \in PmcType \ {"enterStandby", "enterBmps"}
      BY DEF PmcType, Enter
    <2>2. Added(Issue(w, "enterWowl"), "enterWowl")
      BY <1>3, <2>1, IssuedAdded
    <2> QED BY <1>1, <1>2, <1>6, <2>2, CallKept
  <1>7. CASE Call(w, Nothing) \/ Call(w, After("wowl"))
    <2>1. Calm(World, w)
      BY <1>3, SameCalm
    <2> QED BY <1>1, <1>2, <1>7, <2>1, CallKept
  <1> QED BY <1>4, <1>5, <1>6, <1>7

LEMMA ExitWowlStep ==
  ASSUME PmcIInv, ExitWowl
  PROVE  PmcIInv'
  <1> DEFINE w  == [World EXCEPT !.pmc.wowl = FALSE]
             w1 == [w EXCEPT !.pmc.waiting = @ \ {"wowl"}]
  <1>1. World \in Worlds /\ left' \in [Op -> Nat] /\ setup' = setup /\ ~run.on
    BY CallStarts DEF ExitWowl, Locked, Op
  <1>2. Call(w, Nothing) \/ Call(Issue(w1, "exitWowl"), Nothing) \/ Call(w1, Nothing)
    BY DEF ExitWowl
  <1>3. Same(World, w) /\ w \in Worlds
    BY <1>1, SmallChanges, SameIs
  <1> HIDE DEF w
  <1>4. Same(w, w1) /\ w1 \in Worlds
    BY <1>3, WowlWaits
  <1> HIDE DEF w1
  <1>5. Same(World, w1)
    BY <1>3, <1>4, SameTrans
  <1>6. "exitWowl" \in PmcType \ {"enterStandby", "enterBmps"}
    BY DEF PmcType, Exit
  <1>7. Added(Issue(w1, "exitWowl"), "exitWowl") /\ Calm(World, w) /\ Calm(World, w1)
    BY <1>3, <1>4, <1>5, <1>6, IssuedAdded, SameCalm
  <1> QED BY <1>1, <1>2, <1>7, AfterIs, CallKept

\* The same for whoever asks for full power.
LEMMA RequestedAdded ==
  ASSUME NEW u \in Worlds, Same(World, u)
  PROVE  Calm(World, RequestFullPower(u)) \/ \E t \in Exit : Added(RequestFullPower(u), t)
  <1> DEFINE v == [u EXCEPT !.pmc.impsTimer = @ /\ u.pmc.state # "IMPS"]
  <1>2. Same(u, v) /\ v \in Worlds
    BY DEF Same, Kept, Alike, Worlds, PmcRecord
  <1>3. RequestFullPower(u) = EnterRequestFullPowerState(v)
    BY DEF RequestFullPower
  <1> HIDE DEF v
  <1>4. Same(World, v)
    BY <1>2, SameTrans
  <1> QED BY <1>2, <1>3, <1>4, FullAdded

LEMMA RequestFullStep ==
  ASSUME PmcIInv, RequestFull
  PROVE  PmcIInv'
  <1>1. World \in Worlds /\ left' \in [Op -> Nat] /\ setup' = setup /\ ~run.on
    BY CallStarts DEF RequestFull, Locked, Op
  <1>2. Same(World, Forget(World)) /\ Forget(World) \in Worlds
    BY <1>1, ForgetSame, SameIs
  <1>3. /\ Nothing \in Thens /\ Nothing.kind # "csr"
        /\ After("user") \in Thens /\ After("user").kind # "csr"
    BY AfterIs DEF Kind
  <1>4. \/ Call(Forget(World), Nothing)
        \/ Call(RequestFullPower(Forget(World)), After("user"))
    BY DEF RequestFull
  <1>5. CASE Call(Forget(World), Nothing)
    BY <1>1, <1>2, <1>3, <1>5, SameCalm, CallKept
  <1>6. CASE Call(RequestFullPower(Forget(World)), After("user"))
    BY <1>1, <1>2, <1>3, <1>6, RequestedAdded, CallKept
  <1> QED BY <1>4, <1>5, <1>6

LEMMA PeLeavesBmpsStep ==
  ASSUME PmcIInv, PeLeavesBmps
  PROVE  PmcIInv'
  <1>1. World \in Worlds /\ left' \in [Op -> Nat] /\ setup' = setup /\ ~run.on
    BY CallStarts DEF PeLeavesBmps, Locked, Op
  <1>2. Call(EnterRequestFullPowerState(World), Nothing)
    BY DEF PeLeavesBmps
  <1>3. Same(World, World)
    BY <1>1, SmallChanges
  <1> QED BY <1>1, <1>2, <1>3, FullAdded, AfterIs, CallKept

\* A timer leaves what the call behind the running queue is going to do.
LEMMA TimerKept ==
  ASSUME PmcIInv, setup' = setup, left' \in [Op -> Nat],
         NEW w, Becomes(w),
         \/ Calm(World, w)
         \/ \E t : Added(w, t) /\ (t = "enterBmps" \/ pmc.state # "FULL_POWER"),
         run' = [run EXCEPT !.on = @ \/ w.sme.pending # sme.pending]
  PROVE  PmcIInv'
  <1>1. run \in [on: BOOLEAN, then: Thens]
    BY DEF PmcIInv, Base, Calls, Thens
  <1>2. CASE Calm(World, w)
    <2>1. w.sme.pending = sme.pending
      BY <1>2, WorldIs DEF Calm
    <2>2. run' = run
      BY <1>1, <2>1
    <2> QED BY <1>2, <2>2, QuietKept
  <1>3. ASSUME NEW t, Added(w, t), t = "enterBmps" \/ pmc.state # "FULL_POWER"
        PROVE  PmcIInv'
    <2>1. w \in Worlds /\ World \in Worlds
      BY <1>3, TypeIs DEF Added, Kept, Alike, PmcIInv, Base
    <2>2. w.sme.pending # sme.pending
      BY <1>3, <2>1, QueuesIs, WorldIs DEF Added
    <2>3. run'.on /\ run'.then = run.then /\ run' \in [on: BOOLEAN, then: Thens]
      BY <1>1, <2>2
    <2> QED BY <1>3, <2>3, AddedKept
  <1> QED BY <1>2, <1>3

LEMMA TrafficTimerStep ==
  ASSUME PmcIInv, TrafficTimerExpires
  PROVE  PmcIInv'
  <1> DEFINE w == [World EXCEPT !.pmc.traffic = FALSE]
  <1>1. World \in Worlds /\ left' \in [Op -> Nat] /\ setup' = setup
    BY CallStarts DEF TrafficTimerExpires
  <1>2. Same(World, w) /\ w \in Worlds /\ Same(World, World)
    BY <1>1, SmallChanges, SameIs
  <1>3. \/ Becomes(w) /\ run' = run
        \/ Becomes(World) /\ run' = run
        \/ /\ pmc.state = "FULL_POWER" /\ ShouldBmpsTimerRun(w)
           /\ Becomes(EnterRequestBmpsState(w))
           /\ run' = [run EXCEPT !.on =
                        @ \/ EnterRequestBmpsState(w).sme.pending # sme.pending]
    BY DEF TrafficTimerExpires
  <1>4. w.pmc.bmps = pmc.bmps /\ w.link = link
    BY <1>2, WorldIs DEF Same, Kept, Alike
  <1> HIDE DEF w
  <1>5. CASE (Becomes(w) \/ Becomes(World)) /\ run' = run
    BY <1>1, <1>2, <1>5, SameCalm, QuietKept
  <1>6. CASE /\ pmc.state = "FULL_POWER" /\ ShouldBmpsTimerRun(w)
             /\ Becomes(EnterRequestBmpsState(w))
             /\ run' = [run EXCEPT !.on =
                          @ \/ EnterRequestBmpsState(w).sme.pending # sme.pending]
    <2>1. pmc.bmps /\ link.connected
      BY <1>4, <1>6 DEF ShouldBmpsTimerRun
    <2>2. \/ Calm(World, EnterRequestBmpsState(w))
          \/ Added(EnterRequestBmpsState(w), "enterBmps")
      BY <1>2, <1>6, <2>1, BmpsAdded
    <2> QED BY <1>1, <1>6, <2>2, TimerKept
  <1> QED BY <1>3, <1>5, <1>6

LEMMA ImpsTimerStep ==
  ASSUME PmcIInv, ImpsTimerExpires
  PROVE  PmcIInv'
  <1> DEFINE w  == [World EXCEPT !.pmc.impsTimer = FALSE]
             w1 == IF pmc.state = "IMPS" THEN EnterRequestFullPowerState(w) ELSE w
  <1>1. World \in Worlds /\ left' \in [Op -> Nat] /\ setup' = setup
    BY CallStarts DEF ImpsTimerExpires
  <1>2. Same(World, w) /\ w \in Worlds
    BY <1>1, SmallChanges, SameIs
  <1>3. /\ Becomes(w1)
        /\ run' = [run EXCEPT !.on = @ \/ w1.sme.pending # sme.pending]
    BY DEF ImpsTimerExpires
  <1> HIDE DEF w
  <1>4. \/ Calm(World, w1)
        \/ \E t \in Exit : Added(w1, t) /\ pmc.state # "FULL_POWER"
    <2>1. CASE pmc.state = "IMPS"
      BY <1>2, <2>1, FullAdded
    <2>2. CASE pmc.state # "IMPS"
      BY <1>2, <2>2, SameCalm
    <2> QED BY <2>1, <2>2
  <1> HIDE DEF w1
  <1> QED BY <1>1, <1>3, <1>4, TimerKept

LEMMA KeyTimeoutStep ==
  ASSUME PmcIInv, KeyTimeout
  PROVE  PmcIInv'
  <1>1. /\ pmc' = pmc /\ sme' = sme /\ toPe' = toPe /\ hdd' = hdd /\ run' = run
        /\ setup' = setup /\ left' = left /\ setup.late /\ link.waitKey
        /\ link' = [link EXCEPT !.waitKey = FALSE]
    BY DEF KeyTimeout, quota
  <1>2. link \in LinkRecord /\ TypeOK
    BY DEF PmcIInv, Base, TypeOK
  <1>3. link' \in LinkRecord /\ link'.connected = link.connected /\ ~link'.waitKey
    BY <1>1, <1>2 DEF LinkRecord
  <1>4. TypeOK'
    BY <1>1, <1>2, <1>3 DEF TypeOK
  <1>5. Len(sme'.active) <= 1 /\ Calls'
    BY <1>1 DEF PmcIInv, Base, Calls
  <1>6. RequestMatched' /\ RunsInFullPower'
    BY <1>1 DEF PmcIInv, Base, RequestMatched, RunsInFullPower
  <1>7. BuffersKept' /\ HeldBack'
    BY <1>1 DEF PmcIInv, Base, BuffersKept, Pooled, HeldBack
  <1>8. Connection' /\ ImpsApart'
    BY <1>1, <1>3 DEF PmcIInv, Base, Connection, ImpsApart
  <1>9. setup.secure
    BY <1>1 DEF PmcIInv, Base, Connection
  <1>10. QueueServed' /\ BmpsRequested' /\ Suspending'
    BY <1>1, <1>9 DEF PmcIInv, QueueServed, BmpsRequested, Suspending
  <1>11. Fed'
    BY <1>1 DEF Fed, Ample
  <1> QED BY <1>4, <1>5, <1>6, <1>7, <1>8, <1>10, <1>11 DEF PmcIInv, Base

-----------------------------------------------------------------------------
(***************************************************************************)
(* The running of the queue.                                               *)
(***************************************************************************)
\* The command c is the one that is started: p and f are what is left of the
\* queue and of the free list.
Taken(c, p, f) ==
  /\ c \in Command /\ p \in Seq(Command) /\ f \in Nat
  /\ \A t : Has(p, t) => Has(sme.pending, t)
  /\ \A t : Has(sme.pending, t) => Has(p, t) \/ c.type = t
  /\ \A t : Once(sme.pending, t) => Once(p, t)
  /\ \A t, u : Before(p, t, u) => Before(sme.pending, t, u)
  /\ c.type \notin Exit =>
       /\ Has(sme.pending, c.type)
       /\ \A t : Once(sme.pending, t) => ~(Has(p, t) /\ c.type = t)
       /\ \A t : Has(p, t) => Before(sme.pending, c.type, t)
  /\ f + Pooled(p) + (IF c.pooled THEN 1 ELSE 0) = sme.free + Pooled(sme.pending)
  /\ Pooled(p) \in Nat
  /\ pmc.state = "FULL_POWER" => f = sme.free /\ c = Head(sme.pending)

LEMMA FromHead ==
  ASSUME TypeOK, sme.pending # <<>>
  PROVE  Taken(Head(sme.pending), Tail(sme.pending), sme.free)
  <1> DEFINE q == sme.pending
             c == Head(q)
             p == Tail(q)
  <1>1. q \in Seq(Command) /\ q # <<>> /\ sme.free \in Nat
    BY DEF TypeOK, SmeRecord
  <1> HIDE DEF q
  <1>2. /\ c \in Command /\ p \in Seq(Command)
        /\ \A t : Has(q, t) <=> c.type = t \/ Has(p, t)
        /\ \A t : Once(q, t) <=> Once(p, t) /\ ~(Has(p, t) /\ c.type = t)
        /\ \A t, u : Before(q, t, u) <=> Before(p, t, u) \/ (c.type = t /\ Has(p, u))
        /\ Pooled(q) = Pooled(p) + (IF c.pooled THEN 1 ELSE 0)
    BY <1>1, TailIs
  <1> HIDE DEF c, p
  <1>3. Pooled(p) \in Nat
    BY <1>2, ConcatPooled
  <1>4. sme.free + Pooled(p) + (IF c.pooled THEN 1 ELSE 0) = sme.free + Pooled(q)
    BY <1>1, <1>2, <1>3
  <1> QED BY <1>1, <1>2, <1>3, <1>4 DEF Taken, c, p, q

LEMMA FromBuffer ==
  ASSUME TypeOK, NEW t \in Exit, pmc.state # "FULL_POWER"
  PROVE  Taken(NewCommand(World, t), sme.pending, TakeBuffer(World).sme.free)
  <1> DEFINE c == NewCommand(World, t)
             f == TakeBuffer(World).sme.free
  <1>1. World \in Worlds /\ sme.pending \in Seq(Command) /\ sme.free \in Nat
    BY TypeIs DEF TypeOK, SmeRecord
  <1>2. t \in PmcType
    BY DEF PmcType
  <1>3. c \in Command /\ c.type = t /\ c.pooled = (sme.free > 0)
    BY <1>1, <1>2, AppendTypes, WorldIs DEF NewCommand
  <1>4. f = IF sme.free > 0 THEN sme.free - 1 ELSE sme.free
    BY <1>1, TakeBufferIs, WorldIs
  <1>5. Pooled(sme.pending) \in Nat
    BY <1>1, ConcatPooled
  <1> HIDE DEF c, f
  <1>6. /\ f \in Nat
        /\ f + Pooled(sme.pending) + (IF c.pooled THEN 1 ELSE 0) = sme.free + Pooled(sme.pending)
    <2> DEFINE n == Pooled(sme.pending)
    <2> HIDE DEF n
    <2>1. f + n + (IF sme.free > 0 THEN 1 ELSE 0) = sme.free + n /\ f \in Nat
      BY <1>1, <1>4, <1>5 DEF n
    <2> QED BY <2>1, <1>3 DEF n
  <1> QED BY <1>1, <1>3, <1>5, <1>6 DEF Taken, c, f

\* The world in which it is processed.
Active(u, c, p, f) ==
  /\ u \in Worlds
  /\ u.pmc = pmc /\ u.toPe = toPe /\ u.link = link /\ u.hdd = hdd
  /\ u.sme.pending = p /\ u.sme.free = f /\ u.sme.active = <<c>> /\ u.sme.csr = sme.csr

\* When the queue is run no request is under way.
LEMMA NoneUnderWay ==
  ASSUME PmcIInv, Startable
  PROVE  /\ sme.active = <<>> /\ sme.pending # <<>> /\ toPe = <<>>
         /\ pmc.state \notin Requesting
         /\ \A t : ~Has(sme.active, t)
         /\ "csr" \in pmc.full => pmc.state # "FULL_POWER"
  <1>1. sme.active = <<>> /\ sme.pending # <<>>
    BY DEF Startable
  <1>2. Len(sme.active) # 1
    BY <1>1
  <1>3. toPe = <<>> /\ pmc.state \notin Requesting
    BY <1>2 DEF PmcIInv, Base, RequestMatched
  <1>4. \A t : ~Has(sme.active, t)
    BY <1>1 DEF Has
  <1> QED BY <1>1, <1>3, <1>4 DEF PmcIInv, Base, HeldBack

LEMMA Apart ==
  /\ SmeType \cap PmcType = {} /\ CsrType \subseteq SmeType
  /\ RoamType \subseteq CsrType /\ "addTs" \notin PmcType /\ "roc" \notin PmcType
  /\ "FULL_POWER" \notin Requesting /\ Saving \cap Requesting = {}
  /\ "FULL_POWER" \notin Saving
  /\ PmcState = {"FULL_POWER"} \cup Saving \cup Requesting
  /\ "connect" \notin PmcType /\ Exit \subseteq PmcType /\ Follow \subseteq PmcType
  /\ \A t \in {"enterImps", "enterBmps", "enterStandby"} :
       t \in PmcType /\ t \notin Exit /\ t \notin Follow /\ t \notin SmeType
  BY DEF SmeType, CsrType, PmcType, Enter, Exit, RoamType, Requesting, Saving,
         PmcState, Follow

LEMMA FromFullPower ==
  \A t \in PmcType : "FULL_POWER" \in From[t] =>
                        t \in {"enterImps", "enterBmps", "enterStandby"}
  BY DEF From, PmcType, Enter, Exit

\* Its request is sent.
LEMMA SentStep ==
  ASSUME PmcIInv, run.on, Startable, NEW c, NEW p, NEW f, Taken(c, p, f),
         c.type \in PmcType, c.type = "enterStandby" => ~link.connected,
         NEW u, Active(u, c, p, f), NEW v, Sends(u, v, c.type), Becomes(v),
         run' = run, setup' = setup, left' \in [Op -> Nat]
  PROVE  PmcIInv'
  <1> DEFINE t == c.type
  <1>1. v \in Worlds
    BY DEF Sends
  <1>2. World' = v
    BY <1>1, BecomesIs
  <1>3. /\ sme.active = <<>> /\ toPe = <<>> /\ pmc.state \notin Requesting
        /\ \A x : ~Has(sme.active, x)
    BY NoneUnderWay
  <1>4. /\ pmc.state \in From[t] /\ pmc'.state = To[t] /\ Allowed(u, t)
        /\ toPe' = Append(toPe, Request(t)) /\ link' = link /\ hdd' = hdd
        /\ sme'.pending = p /\ sme'.free = f /\ sme'.active = <<c>> /\ sme'.csr = sme.csr
        /\ pmc'.imps = pmc.imps /\ pmc'.bmps = pmc.bmps
        /\ pmc'.bmpsQueued = pmc.bmpsQueued
        /\ pmc'.full = pmc.full /\ pmc'.waiting = pmc.waiting
    BY <1>2, WorldIs DEF Sends, Active
  <1>5. pmc'.state \in Requesting /\ pmc'.state # "FULL_POWER"
    BY <1>4, TypesOfCommands, Apart
  <1>6. c \in Command
    BY DEF Taken
  <1>7. /\ \A x : Has(sme'.active, x) <=> t = x
        /\ Pooled(sme'.active) = IF c.pooled THEN 1 ELSE 0
    BY <1>4, <1>6, SingleIs
  <1>8. TypeOK'
    BY <1>1, <1>2, TypeIs DEF PmcIInv, Base
  <1>9. Len(sme'.active) <= 1 /\ Calls'
    BY <1>4, <1>5 DEF PmcIInv, Base, Calls
  <1>10. RequestMatched'
    <2>1. toPe' = <<Request(t)>>
      BY <1>3, <1>4
    <2> QED BY <1>4, <1>5, <2>1 DEF RequestMatched
  <1>11. RunsInFullPower'
    <2>1. \A d \in ToSet(sme'.active) : d.type \in PmcType
      BY <1>4 DEF ToSet
    <2>2. \A d \in ToSet(sme'.active) :
            d.type \notin RoamType \cup {"addTs"} /\ d.type \notin CsrType /\ d.type # "roc"
      BY <2>1, Apart
    <2> QED BY <2>2 DEF RunsInFullPower
  <1>12. BuffersKept'
    <2>1. sme'.free + Pooled(sme'.pending) + Pooled(sme'.active)
            = sme.free + Pooled(sme.pending)
      BY <1>4, <1>7 DEF Taken
    <2>2. Pooled(sme.active) = 0
      BY <1>3, EmptyIs
    <2>3. sme.free \in Nat /\ Pooled(sme.pending) \in Nat
      BY ConcatPooled DEF PmcIInv, Base, TypeOK, SmeRecord
    <2>4. sme'.free + Pooled(sme'.pending) + Pooled(sme'.active)
            = sme.free + Pooled(sme.pending) + Pooled(sme.active)
      BY <2>1, <2>2, <2>3
    <2> QED BY <1>4, <2>4 DEF PmcIInv, Base, BuffersKept
  <1>13. HeldBack'
    BY <1>4, <1>5 DEF PmcIInv, Base, HeldBack
  <1>14. Connection'
    <2>1. pmc'.state \in {"REQUEST_STANDBY", "STANDBY"} => t = "enterStandby"
      BY <1>4 DEF To, PmcType, Enter, Exit
    <2> QED BY <1>4, <2>1 DEF PmcIInv, Base, Connection
  <1>15. QueueServed'
    BY DEF QueueServed
  <1>16. ImpsApart'
    <2>1. Has(sme'.pending, "enterImps") => Has(sme.pending, "enterImps")
      BY <1>4 DEF Taken
    <2>2. Before(sme'.pending, "connect", "enterImps") =>
            Before(sme.pending, "connect", "enterImps")
      BY <1>4 DEF Taken
    <2>3. ~Has(sme'.active, "connect")
      BY <1>7, Apart
    <2> QED BY <1>4, <2>1, <2>2, <2>3 DEF PmcIInv, Base, ImpsApart
  <1>17. BmpsRequested'
    <2> SUFFICES ASSUME ~setup.late PROVE BmpsRequested'
      BY DEF BmpsRequested
    <2>1. /\ pmc.bmpsQueued <=> Queued("enterBmps")
          /\ Single("enterBmps")
          /\ Has(sme.pending, "enterBmps") => pmc.state = "FULL_POWER"
          /\ ~Before(sme.pending, "enterImps", "enterBmps")
          /\ ~Before(sme.pending, "enterStandby", "enterBmps")
      BY DEF PmcIInv, Base, BmpsRequested
    <2>2. Queued("enterBmps") <=> Has(sme.pending, "enterBmps")
      BY <1>3 DEF Queued
    <2>3. Once(sme.pending, "enterBmps")
      BY <2>1 DEF Single
    <2>4. ~Has(p, "enterBmps")
      <3>1. SUFFICES ASSUME Has(p, "enterBmps") PROVE FALSE
        OBVIOUS
      <3>2. Has(sme.pending, "enterBmps") /\ pmc.state = "FULL_POWER"
        BY <3>1, <2>1 DEF Taken
      <3>3. t \in {"enterImps", "enterBmps", "enterStandby"}
        BY <1>4, <3>2, FromFullPower
      <3>4. t \notin Exit
        BY <3>3, Apart
      <3>5. Before(sme.pending, t, "enterBmps") /\ t # "enterBmps"
        BY <2>3, <3>1, <3>4 DEF Taken
      <3> QED BY <2>1, <3>3, <3>5
    <2>5. Has(sme.pending, "enterBmps") <=> t = "enterBmps"
      BY <2>4, Apart DEF Taken
    <2>6. Queued("enterBmps")' <=> t = "enterBmps"
      BY <1>4, <1>7, <2>4 DEF Queued
    <2>7. Single("enterBmps")'
      BY <1>4, <2>3, <2>4 DEF Single, Taken
    <2>8. /\ ~Before(sme'.pending, "enterImps", "enterBmps")
          /\ ~Before(sme'.pending, "enterStandby", "enterBmps")
      BY <1>4, <2>1 DEF Taken
    <2> QED BY <1>4, <2>1, <2>2, <2>4, <2>5, <2>6, <2>7, <2>8 DEF BmpsRequested
  <1>18. Suspending'
    <2>1. pmc.state = "FULL_POWER" =>
            t = "enterStandby" \/ (t = "enterImps" /\ pmc.imps) \/ (t = "enterBmps" /\ pmc.bmps)
      <3>1. pmc.state = "FULL_POWER" => t \in {"enterImps", "enterBmps", "enterStandby"}
        BY <1>4, FromFullPower
      <3>2. (t = "enterImps" => pmc.imps) /\ (t = "enterBmps" => pmc.bmps)
        BY <1>4 DEF Allowed, EnterImpsCheck, EnterBmpsCheck, Active
      <3> QED BY <3>1, <3>2
    <2>2. t = "enterStandby" => Has(sme.pending, "enterStandby")
      BY Apart DEF Taken
    <2>3. /\ Queued("enterStandby")' => Queued("enterStandby")
          /\ Single("enterStandby") => Single("enterStandby")'
      <3>1. /\ Has(p, "enterStandby") => Has(sme.pending, "enterStandby")
            /\ Once(sme.pending, "enterStandby") => Once(p, "enterStandby")
            /\ Once(sme.pending, "enterStandby") => ~(Has(p, "enterStandby") /\ t = "enterStandby")
        BY Apart DEF Taken
      <3> QED BY <1>3, <1>4, <1>7, <2>2, <3>1 DEF Queued, Single
    <2>4. Queued("enterStandby") <=> Has(sme.pending, "enterStandby")
      BY <1>3 DEF Queued
    <2>5. /\ hdd.pc \in {"off", "full", "ask", "standby"} => ~pmc.imps /\ ~pmc.bmps
          /\ ~setup.late =>
               /\ hdd.pc = "full" /\ hdd.full => pmc.state = "FULL_POWER"
               /\ hdd.pc = "ask" => pmc.state = "FULL_POWER"
               /\ Queued("enterStandby") =>
                    /\ hdd.pc = "standby"
                    /\ "standby" \in pmc.waiting \/ run.then.kind = "standby"
               /\ Single("enterStandby")
      BY DEF PmcIInv, Suspending
    <2>6. ~setup.late => ~(hdd.pc = "full" /\ hdd.full) /\ hdd.pc # "ask"
      BY <2>1, <2>2, <2>4, <2>5
    <2> QED BY <1>4, <2>3, <2>5, <2>6 DEF Suspending
  <1>19. Fed'
    <2> SUFFICES ASSUME Ample, Has(p, "enterStandby") PROVE FALSE
      BY <1>4 DEF Fed, Ample
    <2>1. Has(sme.pending, "enterStandby")
      BY DEF Taken
    <2>2. pmc.state = "FULL_POWER"
      BY <2>1 DEF PmcIInv, Fed
    <2>3. ~pmc.imps /\ ~pmc.bmps /\ Once(sme.pending, "enterStandby")
      BY <2>1 DEF PmcIInv, Suspending, Queued, Single, Ample
    <2>4. t \in {"enterImps", "enterBmps", "enterStandby"}
      BY <1>4, <2>2, FromFullPower
    <2>5. t # "enterImps" /\ t # "enterBmps"
      BY <1>4, <2>3 DEF Allowed, EnterImpsCheck, EnterBmpsCheck, Active
    <2>6. t = "enterStandby" /\ t \notin Exit
      BY <2>4, <2>5, Apart
    <2> QED BY <2>3, <2>6 DEF Taken
  <1> QED BY <1>8, <1>9, <1>10, <1>11, <1>12, <1>13, <1>14, <1>15, <1>16, <1>17, <1>18,
             <1>19 DEF PmcIInv, Base

\* What follows a power state being entered is no request for another one.
LEMMA Followed ==
  ASSUME NEW u \in Worlds, NEW v \in Worlds,
         v.sme = u.sme \/ \E x \in Follow : Queues(u, v, x)
  PROVE  /\ \A t \in {"enterImps", "enterBmps", "enterStandby"} :
              /\ Has(v.sme.pending, t) <=> Has(u.sme.pending, t)
              /\ Once(v.sme.pending, t) <=> Once(u.sme.pending, t)
              /\ \A s : Before(v.sme.pending, s, t) <=> Before(u.sme.pending, s, t)
         /\ v.sme.active = u.sme.active /\ v.sme.csr = u.sme.csr
         /\ v.sme.free + Pooled(v.sme.pending) = u.sme.free + Pooled(u.sme.pending)
         /\ v.sme.free \in Nat /\ Pooled(v.sme.pending) \in Nat
  <1>1. CASE v.sme = u.sme
    <2>1. v.sme.free \in Nat /\ v.sme.pending \in Seq(Command)
      BY DEF Worlds, SmeRecord
    <2>2. Pooled(v.sme.pending) \in Nat
      BY <2>1, ConcatPooled
    <2> QED BY <1>1, <2>1, <2>2
  <1>2. ASSUME NEW x \in Follow, Queues(u, v, x)
        PROVE  /\ \A t \in {"enterImps", "enterBmps", "enterStandby"} :
                    /\ Has(v.sme.pending, t) <=> Has(u.sme.pending, t)
                    /\ Once(v.sme.pending, t) <=> Once(u.sme.pending, t)
                    /\ \A s : Before(v.sme.pending, s, t) <=> Before(u.sme.pending, s, t)
               /\ v.sme.active = u.sme.active /\ v.sme.csr = u.sme.csr
               /\ v.sme.free + Pooled(v.sme.pending) = u.sme.free + Pooled(u.sme.pending)
               /\ v.sme.free \in Nat /\ Pooled(v.sme.pending) \in Nat
    <2>1. x \in PmcType
      BY Apart
    <2>2. \A t \in {"enterImps", "enterBmps", "enterStandby"} : x # t
      BY Apart
    <2>3. /\ v.sme.active = u.sme.active /\ v.sme.csr = u.sme.csr
          /\ \A t : Has(v.sme.pending, t) <=> Has(u.sme.pending, t) \/ x = t
          /\ \A t : Once(v.sme.pending, t)
                     <=> Once(u.sme.pending, t) /\ ~(Has(u.sme.pending, t) /\ x = t)
          /\ \A s, t : Before(v.sme.pending, s, t) <=>
                         \/ Before(u.sme.pending, s, t)
                         \/ Has(u.sme.pending, s) /\ x = t
          /\ v.sme.free + Pooled(v.sme.pending) = u.sme.free + Pooled(u.sme.pending)
          /\ v.sme.free \in Nat /\ Pooled(v.sme.pending) \in Nat
      BY <1>2, <2>1, QueuesIs
    <2> QED BY <2>2, <2>3
  <1> QED BY <1>1, <1>2

\* A command is done, and its buffer given back.
LEMMA DoneIs ==
  ASSUME NEW v \in Worlds, NEW c \in Command
  PROVE  LET x == Release([v EXCEPT !.sme.active = <<>>], c)
         IN  /\ x \in Worlds
             /\ x.pmc = v.pmc /\ x.toPe = v.toPe /\ x.link = v.link /\ x.hdd = v.hdd
             /\ x.sme.pending = v.sme.pending /\ x.sme.csr = v.sme.csr
             /\ x.sme.active = <<>>
             /\ x.sme.free = IF c.pooled THEN v.sme.free + 1 ELSE v.sme.free
  <1> DEFINE e == <<>>
             u == [v EXCEPT !.sme.active = e]
  <1>1. e \in Seq(Command)
    BY EmptyIs
  <1> HIDE DEF e
  <1>2. /\ u \in Worlds
        /\ u.pmc = v.pmc /\ u.toPe = v.toPe /\ u.link = v.link /\ u.hdd = v.hdd
        /\ u.sme.pending = v.sme.pending /\ u.sme.csr = v.sme.csr
        /\ u.sme.active = e /\ u.sme.free = v.sme.free
    BY <1>1 DEF Worlds, SmeRecord
  <1> HIDE DEF u
  <1>3. LET x == Release(u, c)
        IN  /\ x \in Worlds
            /\ x.pmc = u.pmc /\ x.toPe = u.toPe /\ x.link = u.link /\ x.hdd = u.hdd
            /\ x.sme.free = IF c.pooled THEN u.sme.free + 1 ELSE u.sme.free
            /\ x.sme.pending = u.sme.pending
            /\ x.sme.active = u.sme.active /\ x.sme.csr = u.sme.csr
    BY <1>2, ReleaseIs
  <1> QED BY <1>2, <1>3 DEF u, e

\* The command c has come to its end without a request.
LEMMA EndedStep ==
  ASSUME PmcIInv, run.on, Startable, NEW c, NEW p, NEW f, Taken(c, p, f),
         c.type \in PmcType,
         NEW u, Active(u, c, p, f), NEW v, Ends(u, v, c.type),
         v.pmc.state \notin Requesting,
         Becomes(Release([v EXCEPT !.sme.active = <<>>], c)),
         run' = run, setup' = setup, left' \in [Op -> Nat]
  PROVE  PmcIInv'
  <1> DEFINE t == c.type
             x == Release([v EXCEPT !.sme.active = <<>>], c)
             Low == {"enterImps", "enterBmps", "enterStandby"}
  <1>1. v \in Worlds /\ c \in Command /\ u \in Worlds
    BY DEF Ends, Alike, Taken, Active
  <1>2. /\ x \in Worlds
        /\ x.pmc = v.pmc /\ x.toPe = v.toPe /\ x.link = v.link /\ x.hdd = v.hdd
        /\ x.sme.pending = v.sme.pending /\ x.sme.csr = v.sme.csr
        /\ x.sme.active = <<>>
        /\ x.sme.free = IF c.pooled THEN v.sme.free + 1 ELSE v.sme.free
    BY <1>1, DoneIs
  <1> HIDE DEF x
  <1>3. World' = x
    BY <1>2, BecomesIs DEF x
  <1>4. /\ \A y \in Low :
             /\ Has(v.sme.pending, y) <=> Has(p, y)
             /\ Once(v.sme.pending, y) <=> Once(p, y)
             /\ \A s : Before(v.sme.pending, s, y) <=> Before(p, s, y)
        /\ v.sme.csr = sme.csr
        /\ v.sme.free + Pooled(v.sme.pending) = f + Pooled(p)
        /\ v.sme.free \in Nat /\ Pooled(v.sme.pending) \in Nat
    <2>1. v.sme = u.sme \/ \E z \in Follow : Queues(u, v, z)
      BY DEF Ends
    <2>2. u.sme.pending = p /\ u.sme.free = f /\ u.sme.csr = sme.csr
      BY DEF Active
    <2>3. /\ \A y \in Low :
               /\ Has(v.sme.pending, y) <=> Has(u.sme.pending, y)
               /\ Once(v.sme.pending, y) <=> Once(u.sme.pending, y)
               /\ \A s : Before(v.sme.pending, s, y) <=> Before(u.sme.pending, s, y)
          /\ v.sme.csr = u.sme.csr
          /\ v.sme.free + Pooled(v.sme.pending) = u.sme.free + Pooled(u.sme.pending)
          /\ v.sme.free \in Nat /\ Pooled(v.sme.pending) \in Nat
      BY <1>1, <2>1, Followed
    <2> QED BY <2>2, <2>3
  <1>5. /\ sme.active = <<>> /\ toPe = <<>> /\ pmc.state \notin Requesting
        /\ \A y : ~Has(sme.active, y)
    BY NoneUnderWay
  <1>6. /\ pmc'.state = pmc.state \/ (pmc.state = "WOWL" /\ pmc'.state = "BMPS")
        /\ pmc'.state \notin Requesting
        /\ toPe' = <<>> /\ link' = link /\ hdd'.pc = hdd.pc
        /\ sme'.active = <<>> /\ sme'.csr = sme.csr
        /\ pmc'.imps = pmc.imps /\ pmc'.bmps = pmc.bmps
        /\ pmc'.bmpsQueued = IF t = "enterBmps" /\ pmc.state = "FULL_POWER"
                             THEN FALSE ELSE pmc.bmpsQueued
        /\ "csr" \in pmc'.full <=> "csr" \in pmc.full
        /\ hdd'.full => hdd.full \/ pmc'.state = "FULL_POWER"
        /\ t # "enterStandby" =>
             ("standby" \in pmc'.waiting <=> "standby" \in pmc.waiting)
    <2>1. u.pmc = pmc /\ u.toPe = toPe /\ u.link = link /\ u.hdd = hdd
      BY DEF Active
    <2>2. /\ v.pmc.state = pmc.state \/ (pmc.state = "WOWL" /\ v.pmc.state = "BMPS")
          /\ v.toPe = toPe /\ v.link = link /\ v.hdd.pc = hdd.pc
          /\ v.pmc.imps = pmc.imps /\ v.pmc.bmps = pmc.bmps
          /\ v.pmc.bmpsQueued = IF t = "enterBmps" /\ pmc.state = "FULL_POWER"
                                THEN FALSE ELSE pmc.bmpsQueued
          /\ "csr" \in v.pmc.full <=> "csr" \in pmc.full
          /\ v.hdd.full => hdd.full \/ v.pmc.state = "FULL_POWER"
          /\ t # "enterStandby" =>
               ("standby" \in v.pmc.waiting <=> "standby" \in pmc.waiting)
      BY <2>1 DEF Ends, Alike
    <2>3. /\ pmc' = v.pmc /\ toPe' = v.toPe /\ link' = v.link /\ hdd' = v.hdd
          /\ sme'.active = <<>> /\ sme'.csr = sme.csr
      BY <1>2, <1>3, <1>4, WorldIs
    <2> QED BY <1>5, <2>2, <2>3
  <1>7. /\ \A y \in Low :
             /\ Has(sme'.pending, y) <=> Has(p, y)
             /\ Once(sme'.pending, y) <=> Once(p, y)
             /\ \A s : Before(sme'.pending, s, y) <=> Before(p, s, y)
        /\ sme'.pending = v.sme.pending
        /\ sme'.free = IF c.pooled THEN v.sme.free + 1 ELSE v.sme.free
    BY <1>2, <1>3, <1>4, WorldIs
  <1>8. \A y : ~Has(sme'.active, y)
    BY <1>6, EmptyIs
  <1>9. TypeOK'
    BY <1>2, <1>3, TypeIs DEF PmcIInv, Base
  <1>10. Len(sme'.active) <= 1 /\ Calls'
    <2>1. Len(sme'.active) = 0
      BY <1>6
    <2> QED BY <1>6, <2>1 DEF PmcIInv, Base, Calls
  <1>11. RequestMatched' /\ RunsInFullPower'
    <2>1. Len(sme'.active) = 0 /\ ToSet(sme'.active) = {}
      BY <1>6 DEF ToSet
    <2> QED BY <1>6, <2>1 DEF RequestMatched, RunsInFullPower
  <1>12. BuffersKept'
    <2>1. Pooled(sme.active) = 0 /\ Pooled(sme'.active) = 0
      BY <1>5, <1>6, EmptyIs
    <2>2. f + Pooled(p) + (IF c.pooled THEN 1 ELSE 0) = sme.free + Pooled(sme.pending)
      BY DEF Taken
    <2>3. sme.free \in Nat /\ Pooled(sme.pending) \in Nat
      BY ConcatPooled DEF PmcIInv, Base, TypeOK, SmeRecord
    <2>4. sme'.free + Pooled(sme'.pending) = sme.free + Pooled(sme.pending)
      BY <1>4, <1>7, <2>2, <2>3 DEF Taken
    <2>5. sme'.free + Pooled(sme'.pending) + Pooled(sme'.active)
            = sme.free + Pooled(sme.pending) + Pooled(sme.active)
      BY <2>1, <2>4
    <2> QED BY <1>6, <2>5 DEF PmcIInv, Base, BuffersKept
  <1>13. HeldBack' /\ Connection'
    BY <1>6 DEF PmcIInv, Base, HeldBack, Connection
  <1>14. QueueServed'
    BY DEF QueueServed
  <1>15. ImpsApart'
    <2>1. /\ Has(sme'.pending, "enterImps") => Has(sme.pending, "enterImps")
          /\ Before(sme'.pending, "connect", "enterImps") =>
               Before(sme.pending, "connect", "enterImps")
      BY <1>7 DEF Taken
    <2> QED BY <1>6, <1>8, <2>1 DEF PmcIInv, Base, ImpsApart
  <1>16. BmpsRequested'
    <2> SUFFICES ASSUME ~setup.late PROVE BmpsRequested'
      BY DEF BmpsRequested
    <2>1. /\ pmc.bmpsQueued <=> Queued("enterBmps")
          /\ Single("enterBmps")
          /\ Has(sme.pending, "enterBmps") => pmc.state = "FULL_POWER"
          /\ ~Before(sme.pending, "enterImps", "enterBmps")
          /\ ~Before(sme.pending, "enterStandby", "enterBmps")
      BY DEF PmcIInv, Base, BmpsRequested
    <2>2. /\ Queued("enterBmps") <=> Has(sme.pending, "enterBmps")
          /\ Once(sme.pending, "enterBmps")
      BY <1>5, <2>1 DEF Queued, Single
    <2>3. /\ Queued("enterBmps")' <=> Has(p, "enterBmps")
          /\ Single("enterBmps")' <=> Once(p, "enterBmps")
      BY <1>7, <1>8 DEF Queued, Single
    <2>4. /\ ~Before(sme'.pending, "enterImps", "enterBmps")
          /\ ~Before(sme'.pending, "enterStandby", "enterBmps")
      BY <1>7, <2>1 DEF Taken
    <2>5. CASE t = "enterBmps"
      <3>1. t \notin Exit
        BY <2>5, Apart
      <3>2. Has(sme.pending, "enterBmps") /\ ~Has(p, "enterBmps")
        BY <2>2, <2>5, <3>1 DEF Taken
      <3>3. pmc.state = "FULL_POWER"
        BY <2>1, <3>2
      <3>4. Once(p, "enterBmps")
        BY <2>2 DEF Taken
      <3> QED BY <1>6, <1>7, <2>3, <2>4, <2>5, <3>2, <3>3, <3>4 DEF BmpsRequested
    <2>6. CASE t # "enterBmps"
      <3>1. /\ Has(p, "enterBmps") <=> Has(sme.pending, "enterBmps")
            /\ Once(p, "enterBmps")
        BY <2>2, <2>6 DEF Taken
      <3>2. Has(sme'.pending, "enterBmps") => pmc'.state = "FULL_POWER"
        BY <1>6, <1>7, <2>1, <3>1
      <3> QED BY <1>6, <2>1, <2>2, <2>3, <2>4, <2>6, <3>1, <3>2 DEF BmpsRequested
    <2> QED BY <2>5, <2>6
  <1>17. Suspending'
    <2>1. Queued("enterStandby") <=> Has(sme.pending, "enterStandby")
      BY <1>5 DEF Queued
    <2>2. /\ Queued("enterStandby")' <=> Has(p, "enterStandby")
          /\ Single("enterStandby")' <=> Once(p, "enterStandby")
      BY <1>7, <1>8 DEF Queued, Single
    <2>3. /\ Queued("enterStandby")' => Queued("enterStandby")
          /\ Single("enterStandby") => Single("enterStandby")'
      BY <2>1, <2>2 DEF Taken, Single
    <2>4. Single("enterStandby") /\ t = "enterStandby" => ~Queued("enterStandby")'
      BY <2>2, Apart DEF Taken, Single
    <2>5. /\ hdd.pc \in {"off", "full", "ask", "standby"} => ~pmc.imps /\ ~pmc.bmps
          /\ ~setup.late =>
               /\ hdd.pc = "full" /\ hdd.full => pmc.state = "FULL_POWER"
               /\ hdd.pc = "ask" => pmc.state = "FULL_POWER"
               /\ Queued("enterStandby") =>
                    /\ hdd.pc = "standby"
                    /\ "standby" \in pmc.waiting \/ run.then.kind = "standby"
               /\ Single("enterStandby")
      BY DEF PmcIInv, Suspending
    <2> QED BY <1>6, <2>3, <2>4, <2>5 DEF Suspending
  <1>18. Fed'
    <2> SUFFICES ASSUME Ample, Has(p, "enterStandby")
                 PROVE  pmc'.state = "FULL_POWER" /\ sme'.free > 0
      BY <1>7 DEF Fed, Ample
    <2>1. Has(sme.pending, "enterStandby")
      BY DEF Taken
    <2>2. /\ pmc.state = "FULL_POWER"
          /\ sme.free > 0 \/ Head(sme.pending).type \in SmeType
      BY <1>5, <2>1 DEF PmcIInv, Fed
    <2>3. f = sme.free /\ c = Head(sme.pending)
      BY <2>2 DEF Taken
    <2>4. f > 0
      BY <2>2, <2>3, Apart
    <2>5. v.sme.free = f
      BY <2>2 DEF Ends, Active
    <2>6. f \in Nat
      BY DEF Taken
    <2>7. sme'.free > 0
      BY <1>7, <2>4, <2>5, <2>6
    <2> QED BY <1>6, <2>2, <2>7
  <1> QED BY <1>9, <1>10, <1>11, <1>12, <1>13, <1>14, <1>15, <1>16, <1>17, <1>18
          DEF PmcIInv, Base

\* A command of PMC is started.
LEMMA ActiveIs ==
  ASSUME NEW w \in Worlds, NEW c \in Command
  PROVE  LET u == [w EXCEPT !.sme.active = <<c>>]
         IN  /\ u \in Worlds
             /\ u.pmc = w.pmc /\ u.toPe = w.toPe /\ u.link = w.link /\ u.hdd = w.hdd
             /\ u.sme.pending = w.sme.pending /\ u.sme.free = w.sme.free
             /\ u.sme.csr = w.sme.csr /\ u.sme.active = <<c>>
  <1> DEFINE e == <<c>>
  <1>1. e \in Seq(Command)
    BY SingleIs
  <1> HIDE DEF e
  <1>2. LET u == [w EXCEPT !.sme.active = e]
        IN  /\ u \in Worlds
            /\ u.pmc = w.pmc /\ u.toPe = w.toPe /\ u.link = w.link /\ u.hdd = w.hdd
            /\ u.sme.pending = w.sme.pending /\ u.sme.free = w.sme.free
            /\ u.sme.csr = w.sme.csr /\ u.sme.active = e
    BY <1>1 DEF Worlds, SmeRecord
  <1> QED BY <1>2 DEF e

LEMMA StartKept ==
  ASSUME PmcIInv, run.on, Startable, NEW c, NEW p, NEW f, Taken(c, p, f),
         c.type \in PmcType, c.type = "enterStandby" => ~link.connected,
         NEW w \in Worlds, w.pmc = pmc, w.toPe = toPe, w.link = link, w.hdd = hdd,
         w.sme.pending = p, w.sme.free = f, w.sme.csr = sme.csr,
         NEW sent \in BOOLEAN, Becomes(Start(w, c, sent)),
         run' = run, setup' = setup, left' \in [Op -> Nat]
  PROVE  PmcIInv'
  <1> DEFINE u == [w EXCEPT !.sme.active = <<c>>]
             r == ProcessCommand(u, c.type, sent)
  <1>1. c \in Command
    BY DEF Taken
  <1>2. Active(u, c, p, f)
    BY <1>1, ActiveIs DEF Active
  <1>3. Becomes(IF r.done THEN Release([r.w EXCEPT !.sme.active = <<>>], c) ELSE r.w)
    BY DEF Start
  <1>4. /\ u \in Worlds
        /\ u.pmc.state = "FULL_POWER" => "csr" \notin u.pmc.full
        /\ u.pmc.state \notin Requesting
    BY <1>2, NoneUnderWay DEF Active
  <1> HIDE DEF u
  <1>5. \/ ~r.done /\ Sends(u, r.w, c.type)
        \/ /\ r.done /\ Ends(u, r.w, c.type)
           /\ r.w.pmc.state \notin Requesting
    BY <1>4, Processed
  <1> HIDE DEF r
  <1>6. CASE ~r.done /\ Sends(u, r.w, c.type)
    BY <1>2, <1>3, <1>6, SentStep
  <1>7. CASE r.done /\ Ends(u, r.w, c.type) /\ r.w.pmc.state \notin Requesting
    BY <1>2, <1>3, <1>7, EndedStep
  <1> QED BY <1>5, <1>6, <1>7

\* The head of the queue is taken away.
LEMMA PoppedIs ==
  ASSUME TypeOK, sme.pending # <<>>
  PROVE  /\ Popped \in Worlds
         /\ Popped.pmc = pmc /\ Popped.toPe = toPe /\ Popped.link = link /\ Popped.hdd = hdd
         /\ Popped.sme.pending = Tail(sme.pending) /\ Popped.sme.free = sme.free
         /\ Popped.sme.csr = sme.csr /\ Popped.sme.active = sme.active
  <1> DEFINE p == Tail(sme.pending)
  <1>1. p \in Seq(Command)
    BY FromHead DEF Taken
  <1> HIDE DEF p
  <1>2. LET u == [World EXCEPT !.sme.pending = p]
        IN  /\ u \in Worlds
            /\ u.pmc = World.pmc /\ u.toPe = World.toPe /\ u.link = World.link
            /\ u.hdd = World.hdd
            /\ u.sme.pending = p /\ u.sme.free = World.sme.free
            /\ u.sme.csr = World.sme.csr /\ u.sme.active = World.sme.active
    BY <1>1, TypeIs DEF Worlds, SmeRecord
  <1>3. Popped = [World EXCEPT !.sme.pending = p]
    BY WorldIs DEF Popped, p
  <1> QED BY <1>2, <1>3, WorldIs DEF p

LEMMA SendingIs ==
  ASSUME TypeOK, NEW sent \in BOOLEAN, Sending(sent)
  PROVE  left' \in [Op -> Nat]
  <1>1. /\ left \in [Op -> Nat] /\ "noMem" \in Op
    BY DEF TypeOK, Op
  <1>2. ASSUME NEW op \in Op, left[op] > 0, left' = [left EXCEPT ![op] = @ - 1]
        PROVE  left' \in [Op -> Nat]
    BY <1>1, <1>2
  <1>3. \/ left' = left
        \/ left["noMem"] > 0 /\ left' = [left EXCEPT !["noMem"] = @ - 1]
    BY DEF Sending
  <1> QED BY <1>1, <1>2, <1>3

LEMMA StartPmcStep ==
  ASSUME PmcIInv, run.on, Startable, setup' = setup,
         NEW sent \in BOOLEAN, StartPmc(sent)
  PROVE  PmcIInv'
  <1> DEFINE c == Head(sme.pending)
  <1>1. TypeOK /\ sme.pending # <<>>
    BY DEF PmcIInv, Base, Startable
  <1>2. Taken(c, Tail(sme.pending), sme.free)
    BY <1>1, FromHead
  <1>3. /\ c.type \in PmcType
        /\ c.type = "enterStandby" => ~link.connected
        /\ Becomes(Start(Popped, c, sent)) /\ run' = run /\ Sending(sent)
    BY DEF StartPmc, Running
  <1>4. left' \in [Op -> Nat]
    BY <1>1, <1>3, SendingIs
  <1> HIDE DEF c
  <1> QED BY <1>1, <1>2, <1>3, <1>4, PoppedIs, StartKept

LEMMA WakeForStep ==
  ASSUME PmcIInv, run.on, Startable, setup' = setup,
         NEW sent \in BOOLEAN, WakeFor(sent)
  PROVE  PmcIInv'
  <1> DEFINE t == ExitOf[pmc.state]
             c == NewCommand(World, t)
             w == TakeBuffer(World)
  <1>1. TypeOK /\ World \in Worlds
    BY TypeIs DEF PmcIInv, Base
  <1>2. /\ pmc.state \in Saving
        /\ Becomes(Start(w, c, sent)) /\ run' = run /\ Sending(sent)
    <2>1. WokenFor(World, Head(sme.pending).type)
      BY DEF WakeFor
    <2>2. pmc.state \in Saving
      BY <2>1, ExitTypes, WorldIs DEF WokenFor
    <2>3. Becomes(Start(w, c, sent)) /\ run' = run /\ Sending(sent)
      BY DEF WakeFor, Running
    <2> QED BY <2>2, <2>3
  <1>3. t \in Exit
    BY <1>2, ExitTypes
  <1>4. left' \in [Op -> Nat]
    BY <1>1, <1>2, SendingIs
  <1>5. /\ w \in Worlds
        /\ w.pmc = pmc /\ w.toPe = toPe /\ w.link = link /\ w.hdd = hdd
        /\ w.sme.pending = sme.pending /\ w.sme.csr = sme.csr
    BY <1>1, TakeBufferIs, WorldIs
  <1>6. Taken(c, sme.pending, w.sme.free)
    <2>1. pmc.state # "FULL_POWER"
      BY <1>2 DEF Saving
    <2> QED BY <1>1, <1>3, <2>1, FromBuffer
  <1>7. c.type \in PmcType /\ c.type # "enterStandby"
    BY <1>3, Apart DEF NewCommand
  <1> HIDE DEF c, w, t
  <1> QED BY <1>2, <1>4, <1>5, <1>6, <1>7, StartKept

\* A command that is not PMC's leaves the queue: it is dropped or made active.
LEMMA RemovedKept ==
  ASSUME PmcIInv, run.on, Startable, Head(sme.pending).type \in SmeType,
         World' \in Worlds, sme'.pending = Tail(sme.pending),
         \/ /\ sme'.active = <<>>
            /\ sme'.free = IF Head(sme.pending).pooled THEN sme.free + 1 ELSE sme.free
         \/ sme'.active = <<Head(sme.pending)>> /\ sme'.free = sme.free,
         sme'.csr = sme.csr, pmc' = pmc, toPe' = toPe, link' = link, hdd' = hdd,
         run' = run, setup' = setup, left' = left, RunsInFullPower'
  PROVE  PmcIInv'
  <1> DEFINE c == Head(sme.pending)
             p == Tail(sme.pending)
             Low == {"enterImps", "enterBmps", "enterStandby"}
  <1>1. TypeOK /\ sme.pending # <<>>
    BY DEF PmcIInv, Base, Startable
  <1>2. Taken(c, p, sme.free)
    BY <1>1, FromHead
  <1>3. /\ sme.active = <<>> /\ toPe = <<>> /\ pmc.state \notin Requesting
        /\ \A y : ~Has(sme.active, y)
    BY NoneUnderWay
  <1>4. /\ sme'.pending = p /\ c.type \in SmeType /\ c \in Command
        /\ \/ /\ sme'.active = <<>>
              /\ sme'.free = IF c.pooled THEN sme.free + 1 ELSE sme.free
           \/ sme'.active = <<c>> /\ sme'.free = sme.free
    BY <1>2 DEF Taken
  <1> HIDE DEF c, p
  <1>5. \A y : Has(sme'.active, y) => y = c.type
    BY <1>4, EmptyIs, SingleIs
  <1>6. \A y \in Low : y # c.type /\ ~Has(sme'.active, y)
    BY <1>4, <1>5, Apart
  <1>7. c.type \notin Exit
    BY <1>4, Apart
  <1>8. \A y \in Low : /\ Has(sme'.pending, y) <=> Has(sme.pending, y)
                       /\ Once(sme.pending, y) => Once(sme'.pending, y)
                       /\ \A s : Before(sme'.pending, s, y) => Before(sme.pending, s, y)
    BY <1>2, <1>4, <1>6 DEF Taken
  <1>9. TypeOK'
    BY <1>1, TypeIs
  <1>10. Len(sme'.active) <= 1 /\ Calls'
    <2>1. Len(sme'.active) <= 1
      <3>1. CASE sme'.active = <<>>
        BY <3>1
      <3>2. CASE sme'.active = <<c>>
        BY <3>2
      <3> QED BY <1>4, <3>1, <3>2
    <2> QED BY <2>1 DEF PmcIInv, Base, Calls
  <1>11. RequestMatched'
    <2>1. \A i \in 1 .. Len(sme'.active) : sme'.active[i].type \in SmeType
      <3>1. CASE sme'.active = <<>>
        BY <3>1
      <3>2. CASE sme'.active = <<c>>
        <4>1. Len(sme'.active) = 1 /\ sme'.active[1] = c
          BY <3>2
        <4> QED BY <4>1, <1>4
      <3> QED BY <1>4, <3>1, <3>2
    <2> QED BY <1>3, <2>1 DEF RequestMatched
  <1>12. BuffersKept'
    <2>1. Pooled(sme.active) = 0
      BY <1>3, EmptyIs
    <2>2. /\ sme.free + Pooled(p) + (IF c.pooled THEN 1 ELSE 0) = sme.free + Pooled(sme.pending)
          /\ Pooled(p) \in Nat /\ sme.free \in Nat
      BY <1>2 DEF Taken
    <2>3. Pooled(sme.pending) \in Nat
      BY ConcatPooled, <1>1 DEF TypeOK, SmeRecord
    <2>4. \/ /\ Pooled(sme'.active) = 0
             /\ sme'.free = IF c.pooled THEN sme.free + 1 ELSE sme.free
          \/ /\ Pooled(sme'.active) = IF c.pooled THEN 1 ELSE 0
             /\ sme'.free = sme.free
      <3>1. CASE sme'.active = <<>> /\ sme'.free = IF c.pooled THEN sme.free + 1 ELSE sme.free
        BY <3>1, EmptyIs
      <3>2. CASE sme'.active = <<c>> /\ sme'.free = sme.free
        <4>1. Pooled(<<c>>) = IF c.pooled THEN 1 ELSE 0
          BY <1>4, SingleIs
        <4> QED BY <3>2, <4>1
      <3> QED BY <1>4, <3>1, <3>2
    <2>5. sme'.free + Pooled(sme'.pending) + Pooled(sme'.active)
            = sme.free + Pooled(sme.pending) + Pooled(sme.active)
      <3>1. sme'.free + Pooled(p) + Pooled(sme'.active) = sme.free + Pooled(sme.pending) + 0
        BY <2>2, <2>3, <2>4
      <3> QED BY <3>1, <1>4, <2>1
    <2> QED BY <2>5 DEF PmcIInv, Base, BuffersKept
  <1>13. HeldBack' /\ Connection'
    BY DEF PmcIInv, Base, HeldBack, Connection
  <1>14. QueueServed'
    BY DEF QueueServed
  <1>15. ImpsApart'
    <2> SUFFICES ASSUME Has(sme'.pending, "enterImps")
                 PROVE  /\ ~link.connected /\ ~Has(sme'.active, "connect")
                        /\ ~Before(sme'.pending, "connect", "enterImps")
      BY DEF ImpsApart
    <2>1. /\ ~link.connected /\ ~Before(sme.pending, "connect", "enterImps")
      BY <1>8 DEF PmcIInv, Base, ImpsApart
    <2>2. ~Before(sme'.pending, "connect", "enterImps")
      BY <1>8, <2>1
    <2>3. Has(p, "enterImps") => Before(sme.pending, c.type, "enterImps")
      BY <1>2, <1>7 DEF Taken
    <2>4. c.type # "connect"
      BY <1>4, <2>1, <2>3
    <2> QED BY <1>5, <2>1, <2>2, <2>4
  <1>16. /\ \A y \in Low : /\ Queued(y)' <=> Queued(y)
                           /\ Single(y) => Single(y)'
    BY <1>3, <1>6, <1>8 DEF Queued, Single
  <1>17. BmpsRequested'
    BY <1>8, <1>16 DEF PmcIInv, Base, BmpsRequested
  <1>18. Suspending'
    BY <1>16, SuspendingKept DEF PmcIInv
  <1>19. Fed'
    <2> SUFFICES ASSUME Ample, Has(sme.pending, "enterStandby")
                 PROVE  /\ pmc.state = "FULL_POWER"
                        /\ sme'.active = <<>> => sme'.free > 0
      BY <1>8 DEF Fed, Ample
    <2>1. c.pooled
      BY <1>4, Apart DEF Command
    <2>2. sme.free \in Nat
      BY <1>1 DEF TypeOK, SmeRecord
    <2>3. sme'.active = <<>> => sme'.free > 0
      BY <1>4, <2>1, <2>2
    <2> QED BY <2>3 DEF PmcIInv, Fed
  <1> QED BY <1>9, <1>10, <1>11, <1>12, <1>13, <1>14, <1>15, <1>17, <1>18, <1>19
          DEF PmcIInv, Base

LEMMA DropCommandStep ==
  ASSUME PmcIInv, run.on, Startable, setup' = setup, DropCommand
  PROVE  PmcIInv'
  <1> DEFINE c == Head(sme.pending)
             w == Release(Popped, c)
  <1>1. TypeOK /\ sme.pending # <<>> /\ sme.active = <<>>
    BY DEF PmcIInv, Base, Startable
  <1>2. c \in Command
    BY <1>1, FromHead DEF Taken
  <1>3. /\ CsrDropped(World, c.type) /\ Becomes(w) /\ run' = run /\ left' = left
    BY DEF DropCommand, Running
  <1>4. c.type \in SmeType
    BY <1>3, Apart DEF CsrDropped
  <1>5. /\ w \in Worlds
        /\ w.pmc = pmc /\ w.toPe = toPe /\ w.link = link /\ w.hdd = hdd
        /\ w.sme.pending = Tail(sme.pending) /\ w.sme.csr = sme.csr
        /\ w.sme.active = <<>>
        /\ w.sme.free = IF c.pooled THEN sme.free + 1 ELSE sme.free
    BY <1>1, <1>2, PoppedIs, ReleaseIs
  <1> HIDE DEF w
  <1>6. World' = w
    BY <1>3, <1>5, BecomesIs
  <1>7. /\ pmc' = pmc /\ toPe' = toPe /\ link' = link /\ hdd' = hdd
        /\ sme'.pending = Tail(sme.pending) /\ sme'.csr = sme.csr
        /\ sme'.active = <<>>
        /\ sme'.free = IF c.pooled THEN sme.free + 1 ELSE sme.free
    BY <1>5, <1>6, WorldIs
  <1>8. RunsInFullPower'
    <2>1. ToSet(sme'.active) = {}
      BY <1>7 DEF ToSet
    <2> QED BY <2>1 DEF RunsInFullPower
  <1> QED BY <1>3, <1>4, <1>5, <1>6, <1>7, <1>8, RemovedKept

LEMMA ActivateStep ==
  ASSUME PmcIInv, run.on, Startable, setup' = setup, Activate
  PROVE  PmcIInv'
  <1> DEFINE c == Head(sme.pending)
             w == [Popped EXCEPT !.sme.active = <<c>>]
  <1>1. TypeOK /\ sme.pending # <<>> /\ sme.active = <<>>
    BY DEF PmcIInv, Base, Startable
  <1>2. c \in Command
    BY <1>1, FromHead DEF Taken
  <1>3. /\ c.type \in SmeType /\ ~CsrDropped(World, c.type) /\ ~WokenFor(World, c.type)
        /\ Becomes(w) /\ run' = run /\ left' = left
    BY DEF Activate, Running
  <1>4. /\ w \in Worlds
        /\ w.pmc = pmc /\ w.toPe = toPe /\ w.link = link /\ w.hdd = hdd
        /\ w.sme.pending = Tail(sme.pending) /\ w.sme.csr = sme.csr
        /\ w.sme.active = <<c>> /\ w.sme.free = sme.free
    BY <1>1, <1>2, PoppedIs, ActiveIs
  <1> HIDE DEF w
  <1>5. World' = w
    BY <1>3, <1>4, BecomesIs
  <1>6. /\ pmc' = pmc /\ toPe' = toPe /\ link' = link /\ hdd' = hdd
        /\ sme'.pending = Tail(sme.pending) /\ sme'.csr = sme.csr
        /\ sme'.active = <<c>> /\ sme'.free = sme.free
    BY <1>4, <1>5, WorldIs
  <1> HIDE DEF c
  <1>7. RunsInFullPower'
    <2>1. \A d \in ToSet(sme'.active) : d = c
      BY <1>6 DEF ToSet
    <2>2. pmc.state \notin Requesting /\ pmc.state \in PmcState
      BY <1>1, NoneUnderWay DEF TypeOK, PmcRecord
    <2>3. pmc.state \in {"FULL_POWER"} \cup Saving
      BY <2>2, Apart
    <2>4. pmc.state \in Saving => ~CsrNeedsPower(World, c.type) /\ c.type # "addTs"
                                  /\ ~(c.type = "roc" /\ pmc.state = "IMPS")
      BY <1>3, ExitTypes, WorldIs DEF WokenFor, FullPowerNeeded
    <2>5. c.type \in CsrType => pmc.state # "STANDBY"
      BY <1>3, WorldIs DEF CsrDropped
    <2>6. pmc.state \in Saving => c.type \notin RoamType \cup {"addTs"}
      BY <2>4, Apart, WorldIs DEF CsrNeedsPower, Saving
    <2>7. pmc.state = "IMPS" => c.type \notin CsrType /\ c.type # "roc"
      BY <2>4, WorldIs DEF CsrNeedsPower, Saving
    <2> QED BY <1>6, <2>1, <2>3, <2>5, <2>6, <2>7, Apart DEF RunsInFullPower
  <1> QED BY <1>3, <1>4, <1>5, <1>6, <1>7, RemovedKept DEF c

\* A disconnect is put before standby.
LEMMA StartStandbyStep ==
  ASSUME PmcIInv, run.on, Startable, setup' = setup, sme.free > 0,
         NEW sent \in BOOLEAN, StartStandby(sent)
  PROVE  PmcIInv'
  <1> DEFINE q == sme.pending
             d == NewCommand(World, "disconnect")
             w == TakeBuffer(World)
             x == [w EXCEPT !.sme.pending = <<d>> \o @]
             Low == {"enterImps", "enterBmps", "enterStandby"}
  <1>1. /\ TypeOK /\ World \in Worlds /\ q \in Seq(Command) /\ sme.free \in Nat
        /\ sme.active \in Seq(Command)
    BY TypeIs DEF PmcIInv, Base, TypeOK, SmeRecord
  <1>2. "disconnect" \in SmeType \cup PmcType
    BY DEF SmeType, CsrType
  <1>3. d \in Command /\ d.type = "disconnect" /\ d.pooled
    BY <1>1, <1>2, AppendTypes, WorldIs DEF NewCommand
  <1>4. Becomes(x) /\ run' = run /\ left' = left
    BY DEF StartStandby, Running, Sending
  <1>5. /\ w \in Worlds
        /\ w.pmc = pmc /\ w.toPe = toPe /\ w.link = link /\ w.hdd = hdd
        /\ w.sme.pending = q /\ w.sme.csr = sme.csr /\ w.sme.active = sme.active
        /\ w.sme.free = sme.free - 1
    BY <1>1, TakeBufferIs, WorldIs
  <1> HIDE DEF d, w, q
  <1>6. /\ <<d>> \o q \in Seq(Command)
        /\ \A t : Has(<<d>> \o q, t) <=> d.type = t \/ Has(q, t)
        /\ \A t : Once(<<d>> \o q, t) <=> Once(q, t) /\ ~(Has(q, t) /\ d.type = t)
        /\ \A t, u : Before(<<d>> \o q, t, u) <=>
                        Before(q, t, u) \/ (d.type = t /\ Has(q, u))
        /\ Pooled(<<d>> \o q) = Pooled(q) + (IF d.pooled THEN 1 ELSE 0)
    BY <1>1, <1>3, ConsIs
  <1> DEFINE p == <<d>> \o q
  <1>7. x = [w EXCEPT !.sme.pending = p]
    BY <1>5
  <1>8. p \in Seq(Command) /\ Pooled(p) = Pooled(q) + 1
    BY <1>3, <1>6
  <1>9. \A y \in Low : /\ Has(p, y) <=> Has(q, y)
                       /\ Once(p, y) <=> Once(q, y)
                       /\ \A s : s # "disconnect" => (Before(p, s, y) <=> Before(q, s, y))
    BY <1>3, <1>6
  <1> HIDE DEF p, x
  <1>10. /\ x \in Worlds
         /\ x.pmc = pmc /\ x.toPe = toPe /\ x.link = link /\ x.hdd = hdd
         /\ x.sme.pending = p /\ x.sme.csr = sme.csr /\ x.sme.active = sme.active
         /\ x.sme.free = sme.free - 1
    BY <1>5, <1>7, <1>8 DEF Worlds, SmeRecord
  <1>11. World' = x
    BY <1>4, <1>10, BecomesIs
  <1>12. /\ pmc' = pmc /\ toPe' = toPe /\ link' = link /\ hdd' = hdd
         /\ sme'.pending = p /\ sme'.csr = sme.csr /\ sme'.active = sme.active
         /\ sme'.free = sme.free - 1
    BY <1>10, <1>11, WorldIs
  <1>13. TypeOK'
    BY <1>1, <1>4, <1>10, <1>11, TypeIs
  <1>14. Len(sme'.active) <= 1 /\ Calls'
    BY <1>4, <1>12 DEF PmcIInv, Base, Calls
  <1>15. RequestMatched' /\ RunsInFullPower'
    BY <1>12 DEF PmcIInv, Base, RequestMatched, RunsInFullPower
  <1>16. BuffersKept'
    <2>1. Pooled(q) \in Nat
      BY <1>1, ConcatPooled
    <2>2. sme'.free + Pooled(sme'.pending) = sme.free + Pooled(sme.pending)
      <3> DEFINE n == Pooled(q)
      <3>1. n \in Nat /\ sme.free \in Nat /\ Pooled(sme.pending) = n
        BY <1>1, <2>1 DEF q
      <3>2. Pooled(sme'.pending) = n + 1 /\ sme'.free = sme.free - 1
        BY <1>8, <1>12
      <3> HIDE DEF n
      <3> QED BY <3>1, <3>2
    <2> QED BY <1>4, <1>12, <2>2 DEF PmcIInv, Base, BuffersKept
  <1>17. HeldBack' /\ Connection' /\ QueueServed'
    BY <1>4, <1>12 DEF PmcIInv, Base, HeldBack, Connection, QueueServed
  <1>18. /\ \A y \in Low : /\ Has(sme'.pending, y) <=> Has(sme.pending, y)
                           /\ Once(sme'.pending, y) <=> Once(sme.pending, y)
                           /\ \A s : s # "disconnect" =>
                                (Before(sme'.pending, s, y) <=> Before(sme.pending, s, y))
         /\ \A y : Has(sme'.active, y) <=> Has(sme.active, y)
    BY <1>9, <1>12 DEF q
  <1>19. ImpsApart'
    BY <1>12, <1>18 DEF PmcIInv, Base, ImpsApart
  <1>20. \A y \in Low : /\ Queued(y)' <=> Queued(y)
                        /\ Single(y)' <=> Single(y)
    BY <1>18 DEF Queued, Single
  <1>21. BmpsRequested'
    BY <1>12, <1>18, <1>20 DEF PmcIInv, Base, BmpsRequested
  <1>22. Suspending'
    BY <1>4, <1>12, <1>20, SuspendingKept DEF PmcIInv
  <1>23. Fed'
    <2>1. Head(sme'.pending) = d
      BY <1>1, <1>3, <1>12 DEF p
    <2>2. Head(sme'.pending).type \in SmeType
      BY <1>3, <2>1 DEF SmeType, CsrType
    <2> QED BY <1>12, <1>18, <2>2 DEF PmcIInv, Fed, Ample
  <1> QED BY <1>13, <1>14, <1>15, <1>16, <1>17, <1>19, <1>21, <1>22, <1>23 DEF PmcIInv, Base

\* The command that needs a buffer finds none, and standby is at the head.
StandbyStarved ==
  /\ run.on /\ Startable /\ Head(sme.pending).type = "enterStandby"
  /\ link.connected /\ sme.free = 0

LEMMA ProcessQueueStep ==
  ASSUME PmcIInv, ProcessQueue, ~StandbyStarved
  PROVE  PmcIInv'
  <1>1. run.on /\ Startable /\ setup' = setup
    BY DEF ProcessQueue
  <1>2. CASE DropCommand
    BY <1>1, <1>2, DropCommandStep
  <1>3. CASE Activate
    BY <1>1, <1>3, ActivateStep
  <1>4. ASSUME NEW sent \in BOOLEAN, WakeFor(sent) PROVE PmcIInv'
    BY <1>1, <1>4, WakeForStep
  <1>5. ASSUME NEW sent \in BOOLEAN, StartPmc(sent) PROVE PmcIInv'
    BY <1>1, <1>5, StartPmcStep
  <1>6. ASSUME NEW sent \in BOOLEAN, StartStandby(sent) PROVE PmcIInv'
    <2>1. Head(sme.pending).type = "enterStandby" /\ link.connected
      BY <1>6 DEF StartStandby
    <2>2. sme.free # 0 /\ sme.free \in Nat
      BY <1>1, <2>1 DEF StandbyStarved, PmcIInv, Base, TypeOK, SmeRecord
    <2>3. sme.free > 0
      BY <2>2
    <2> QED BY <1>1, <1>6, <2>3, StartStandbyStep
  <1> QED BY <1>2, <1>3, <1>4, <1>5, <1>6 DEF ProcessQueue

\* The call goes on behind the running of the queue.
LEMMA EndQueueStep ==
  ASSUME PmcIInv, EndQueue
  PROVE  PmcIInv'
  <1> DEFINE then == run.then
             v == Finish(World, then)
  <1>1. /\ World \in Worlds /\ TypeOK
        /\ run \in [on: BOOLEAN, then: [kind: Kind, cmd: Command, high: BOOLEAN]]
        /\ left' \in [Op -> Nat] /\ setup' = setup
    BY CallStarts DEF EndQueue, PmcIInv, Base, Calls
  <1>2. /\ ~Startable /\ Becomes(v) /\ run' = [on |-> FALSE, then |-> Nothing]
    BY DEF EndQueue, Ended
  <1>3. /\ Alike(World, v) /\ v.pmc.state = pmc.state
        /\ v.pmc.bmpsQueued = pmc.bmpsQueued
        /\ v.hdd.full = hdd.full
        /\ v.sme.free = sme.free /\ v.sme.pending = sme.pending
        /\ v.sme.active = sme.active
        /\ IF then.kind = "csr"
           THEN /\ v.pmc.full = pmc.full \cup {"csr"}
                /\ v.sme.csr = IF then.high THEN <<then.cmd>> \o sme.csr
                                            ELSE Append(sme.csr, then.cmd)
           ELSE /\ "csr" \in v.pmc.full <=> "csr" \in pmc.full
                /\ v.sme.csr = sme.csr
        /\ "standby" \in v.pmc.waiting <=>
             "standby" \in pmc.waiting \/ then.kind = "standby"
    BY <1>1, FinishIs, WorldIs
  <1> HIDE DEF v
  <1>4. v \in Worlds
    BY <1>3 DEF Alike
  <1>5. World' = v
    BY <1>2, <1>4, BecomesIs
  <1>6. /\ toPe' = toPe /\ link' = link /\ hdd'.pc = hdd.pc /\ hdd'.full = hdd.full
        /\ pmc'.imps = pmc.imps /\ pmc'.bmps = pmc.bmps
        /\ pmc'.state = pmc.state /\ pmc'.bmpsQueued = pmc.bmpsQueued
        /\ sme'.free = sme.free /\ sme'.pending = sme.pending
        /\ sme'.active = sme.active
        /\ "standby" \in pmc'.waiting <=>
             "standby" \in pmc.waiting \/ then.kind = "standby"
    BY <1>3, <1>5, WorldIs DEF Alike
  <1>7. /\ then.kind = "csr" =>
             /\ "csr" \in pmc'.full
             /\ \/ sme'.csr = <<then.cmd>> \o sme.csr
                \/ sme'.csr = Append(sme.csr, then.cmd)
        /\ then.kind # "csr" =>
             /\ "csr" \in pmc'.full <=> "csr" \in pmc.full
             /\ sme'.csr = sme.csr
    BY <1>3, <1>5, WorldIs
  <1>8. run'.then = Nothing /\ ~run'.on /\ Nothing \in Thens /\ Nothing.kind = "none"
    BY <1>2, AfterIs
  <1>9. TypeOK'
    BY <1>1, <1>2, <1>4, <1>5, <1>8, TypeIs DEF Thens
  <1>10. Len(sme'.active) <= 1 /\ Calls'
    <2>1. run' \in [on: BOOLEAN, then: [kind: Kind, cmd: Command, high: BOOLEAN]]
      BY <1>2, <1>8 DEF Thens
    <2> QED BY <1>6, <1>8, <2>1 DEF PmcIInv, Base, Calls
  <1>11. RequestMatched' /\ RunsInFullPower'
    BY <1>6 DEF PmcIInv, Base, RequestMatched, RunsInFullPower
  <1>12. ASSUME then.kind # "csr" PROVE BuffersKept' /\ HeldBack'
    <2>1. BuffersKept'
      <3>1. (IF run'.then.kind = "csr" /\ run'.then.cmd.pooled THEN 1 ELSE 0)
              = (IF run.then.kind = "csr" /\ run.then.cmd.pooled THEN 1 ELSE 0)
        BY <1>8, <1>12
      <3>2. sme'.free + Pooled(sme'.pending) + Pooled(sme'.active) + Pooled(sme'.csr)
              = sme.free + Pooled(sme.pending) + Pooled(sme.active) + Pooled(sme.csr)
        BY <1>6, <1>7, <1>12
      <3>3. BuffersKept /\ setup' = setup
        BY <1>1 DEF PmcIInv, Base
      <3> QED BY <3>1, <3>2, <3>3 DEF BuffersKept
    <2>2. HeldBack'
      BY <1>6, <1>7, <1>12 DEF PmcIInv, Base, HeldBack
    <2> QED BY <2>1, <2>2
  <1>13. ASSUME then.kind = "csr" PROVE BuffersKept' /\ HeldBack'
    <2> DEFINE c == then.cmd
    <2>1. /\ c \in Command /\ c.type \in CsrType /\ pmc.state # "FULL_POWER"
          /\ sme.csr \in Seq(Command) /\ sme.pending \in Seq(Command)
          /\ sme.active \in Seq(Command) /\ sme.free \in Nat
      BY <1>1, <1>13 DEF PmcIInv, Base, Calls, TypeOK, SmeRecord
    <2>2. /\ Pooled(sme'.csr) = Pooled(sme.csr) + (IF c.pooled THEN 1 ELSE 0)
          /\ \A t : Has(sme'.csr, t) <=> Has(sme.csr, t) \/ c.type = t
      <3>1. CASE sme'.csr = <<c>> \o sme.csr
        <4>1. /\ Pooled(<<c>> \o sme.csr) = Pooled(sme.csr) + (IF c.pooled THEN 1 ELSE 0)
              /\ \A t : Has(<<c>> \o sme.csr, t) <=> c.type = t \/ Has(sme.csr, t)
          BY <2>1, ConsIs
        <4> QED BY <3>1, <4>1
      <3>2. CASE sme'.csr = Append(sme.csr, c)
        <4>1. /\ Pooled(Append(sme.csr, c)) = Pooled(sme.csr) + (IF c.pooled THEN 1 ELSE 0)
              /\ \A t : Has(Append(sme.csr, c), t) <=> Has(sme.csr, t) \/ c.type = t
          BY <2>1, AppendIs
        <4> QED BY <3>2, <4>1
      <3> QED BY <1>7, <1>13, <3>1, <3>2
    <2>3. /\ Pooled(sme.csr) \in Nat /\ Pooled(sme.pending) \in Nat
          /\ Pooled(sme.active) \in Nat
      BY <2>1, ConcatPooled
    <2>4. BuffersKept'
      <3>1. sme'.free + Pooled(sme'.pending) + Pooled(sme'.active) + Pooled(sme'.csr)
              = sme.free + Pooled(sme.pending) + Pooled(sme.active) + Pooled(sme.csr)
                  + (IF c.pooled THEN 1 ELSE 0)
        BY <1>6, <2>1, <2>2, <2>3
      <3>2. sme.free + Pooled(sme.pending) + Pooled(sme.active) + Pooled(sme.csr)
                  + (IF c.pooled THEN 1 ELSE 0) = setup.pool
        BY <1>13 DEF PmcIInv, Base, BuffersKept
      <3>3. (IF run'.then.kind = "csr" /\ run'.then.cmd.pooled THEN 1 ELSE 0) = 0
        BY <1>8
      <3>4. setup.pool \in Nat
        BY <2>1, <2>3, <3>2
      <3>5. setup' = setup
        BY <1>1
      <3>6. sme'.free + Pooled(sme'.pending) + Pooled(sme'.active) + Pooled(sme'.csr)
              + (IF run'.then.kind = "csr" /\ run'.then.cmd.pooled THEN 1 ELSE 0) = setup.pool
        BY <3>1, <3>2, <3>3, <3>4
      <3> QED BY <3>5, <3>6 DEF BuffersKept
    <2>5. HeldBack'
      <3>1. \A t \in PmcType : ~Has(sme'.csr, t)
        BY <2>1, <2>2, Apart DEF PmcIInv, Base, HeldBack
      <3> QED BY <1>6, <1>7, <1>13, <2>1, <3>1 DEF HeldBack
    <2> QED BY <2>4, <2>5
  <1>14. Connection' /\ ImpsApart'
    BY <1>1, <1>6 DEF PmcIInv, Base, Connection, ImpsApart
  <1>15. QueueServed'
    BY <1>2, <1>6 DEF QueueServed, Startable
  <1>16. /\ Queued("enterBmps")' <=> Queued("enterBmps")
         /\ Single("enterBmps")' <=> Single("enterBmps")
         /\ Queued("enterStandby")' <=> Queued("enterStandby")
         /\ Single("enterStandby")' <=> Single("enterStandby")
    BY <1>6 DEF Queued, Single
  <1>17. BmpsRequested'
    BY <1>1, <1>6, <1>16 DEF PmcIInv, Base, BmpsRequested
  <1>18. Suspending'
    BY <1>1, <1>6, <1>16, SuspendingKept DEF PmcIInv
  <1>19. Fed'
    BY <1>1, <1>6 DEF PmcIInv, Fed, Ample
  <1> QED BY <1>9, <1>10, <1>11, <1>12, <1>13, <1>14, <1>15, <1>17, <1>18, <1>19
          DEF PmcIInv, Base

-----------------------------------------------------------------------------
(***************************************************************************)
(* Answers.                                                                *)
(***************************************************************************)
\* The active command is done: nothing is active, its buffer is given back, and
\* the queue is run.  The lists p and h and the buffers f are what has come of
\* the queue, of what CSR holds back, and of the free list meanwhile.
LEMMA DoneBuffers ==
  ASSUME PmcIInv, sme.active # <<>>, run.then = Nothing, run'.then = Nothing,
         NEW f \in Nat, Pooled(sme'.pending) \in Nat, Pooled(sme'.csr) \in Nat,
         f + Pooled(sme'.pending) + Pooled(sme'.csr)
           = sme.free + Pooled(sme.pending) + Pooled(sme.csr),
         sme'.free = IF Head(sme.active).pooled THEN f + 1 ELSE f,
         sme'.active = <<>>, setup' = setup
  PROVE  BuffersKept'
  <1> DEFINE c == Head(sme.active)
  <1>1. sme.active \in Seq(Command) /\ Len(sme.active) <= 1
    BY DEF PmcIInv, Base, TypeOK, SmeRecord
  <1>2. c \in Command /\ sme.active = <<c>>
    BY <1>1
  <1> HIDE DEF c
  <1>3. Pooled(sme.active) = IF c.pooled THEN 1 ELSE 0
    BY <1>2, SingleIs
  <1>4. Pooled(sme'.active) = 0
    BY EmptyIs
  <1>5. /\ sme.free \in Nat /\ Pooled(sme.pending) \in Nat /\ Pooled(sme.csr) \in Nat
    BY ConcatPooled DEF PmcIInv, Base, TypeOK, SmeRecord
  <1>6. sme'.free + Pooled(sme'.pending) + Pooled(sme'.active) + Pooled(sme'.csr)
          = sme.free + Pooled(sme.pending) + Pooled(sme.active) + Pooled(sme.csr)
    BY <1>3, <1>4, <1>5 DEF c
  <1>7. BuffersKept
    BY DEF PmcIInv, Base
  <1> QED BY <1>6, <1>7 DEF BuffersKept

\* What PMC asked PE for, and for which command.
LEMMA Asked ==
  ASSUME PmcIInv, toPe # <<>>
  PROVE  /\ sme.active = <<Head(sme.active)>> /\ Head(sme.active) \in Command
         /\ Head(sme.active).type \in PmcType
         /\ pmc.state = To[Head(sme.active).type] /\ pmc.state \in Requesting
         /\ Tail(toPe) = <<>> /\ Request(Head(sme.active).type) = Head(toPe)
  <1>1. /\ pmc.state \in Requesting
        /\ Len(sme.active) = 1 /\ Len(toPe) = 1
        /\ Head(sme.active).type \in PmcType
        /\ To[Head(sme.active).type] = pmc.state
        /\ Request(Head(sme.active).type) = Head(toPe)
    BY DEF PmcIInv, Base, RequestMatched
  <1>2. sme.active \in Seq(Command) /\ toPe \in Seq(PmcType)
    BY DEF PmcIInv, Base, TypeOK, SmeRecord
  <1>3. sme.active = <<Head(sme.active)>> /\ Head(sme.active) \in Command
    BY <1>1, <1>2
  <1>4. Tail(toPe) = <<>>
    <2>1. Tail(toPe) \in Seq(PmcType) /\ Len(Tail(toPe)) = 0
      BY <1>1, <1>2, HeadTailProperties
    <2> QED BY <2>1, EmptySeq
  <1> QED BY <1>1, <1>3, <1>4

\* The lists when the answer to a request has been processed.
LEMMA SettledLists ==
  ASSUME PmcIInv, NEW w \in Worlds, NEW t, NEW v, Settles(w, v, t),
         w.sme = sme, w.pmc.full = pmc.full
  PROVE  /\ \A y \in {"enterImps", "enterBmps", "enterStandby"} :
              /\ Has(v.sme.pending, y) <=> Has(sme.pending, y)
              /\ Once(v.sme.pending, y) <=> Once(sme.pending, y)
              /\ \A s : Before(v.sme.pending, s, y) <=> Before(sme.pending, s, y)
         /\ \A y \in PmcType : ~Has(v.sme.csr, y)
         /\ v.sme.free + Pooled(v.sme.pending) + Pooled(v.sme.csr)
              = sme.free + Pooled(sme.pending) + Pooled(sme.csr)
         /\ v.sme.free \in Nat /\ Pooled(v.sme.pending) \in Nat /\ Pooled(v.sme.csr) \in Nat
  <1>1. /\ v \in Worlds
        /\ sme.pending \in Seq(Command) /\ sme.csr \in Seq(Command) /\ sme.free \in Nat
    BY DEF Settles, Alike, PmcIInv, Base, TypeOK, SmeRecord
  <1>2. /\ Pooled(sme.pending) \in Nat /\ Pooled(sme.csr) \in Nat
        /\ \A y \in PmcType : ~Has(sme.csr, y)
    BY <1>1, ConcatPooled DEF PmcIInv, Base, HeldBack
  <1>3. CASE FullGiven(w, v) /\ "csr" \in pmc.full
    <2> DEFINE p == sme.pending \o sme.csr
    <2>1. /\ v.sme.free = sme.free /\ v.sme.pending = p /\ v.sme.csr = <<>>
      BY <1>3 DEF FullGiven
    <2>2. /\ \A y : Has(p, y) <=> Has(sme.pending, y) \/ Has(sme.csr, y)
          /\ \A y : Once(p, y) <=> /\ Once(sme.pending, y) /\ Once(sme.csr, y)
                                   /\ ~(Has(sme.pending, y) /\ Has(sme.csr, y))
          /\ \A s, y : Before(p, s, y) <=>
                         \/ Before(sme.pending, s, y) \/ Before(sme.csr, s, y)
                         \/ (Has(sme.pending, s) /\ Has(sme.csr, y))
      BY <1>1, ConcatHas, ConcatOnce, ConcatBefore
    <2>3. Pooled(p) = Pooled(sme.pending) + Pooled(sme.csr)
      BY <1>1, ConcatPooled
    <2> HIDE DEF p
    <2>4. /\ \A y \in PmcType : ~Has(v.sme.csr, y)
          /\ Pooled(v.sme.csr) = 0
      BY <2>1, EmptyIs
    <2>5. \A y \in PmcType : Once(sme.csr, y) /\ (\A s : ~Before(sme.csr, s, y))
      BY <1>2 DEF Once, Before, Has
    <2>6. \A y \in PmcType : /\ Has(p, y) <=> Has(sme.pending, y)
                             /\ Once(p, y) <=> Once(sme.pending, y)
                             /\ \A s : Before(p, s, y) <=> Before(sme.pending, s, y)
      BY <1>2, <2>2, <2>5
    <2>7. /\ sme.free + Pooled(p) + 0 = sme.free + Pooled(sme.pending) + Pooled(sme.csr)
          /\ Pooled(p) \in Nat
      BY <1>1, <1>2, <2>3
    <2> QED BY <1>1, <2>1, <2>4, <2>6, <2>7, Apart
  <1>4. CASE v.sme = sme
    BY <1>1, <1>2, <1>4
  <1>5. CASE \E x \in Follow : Queues(w, v, x)
    <2>1. /\ \A y \in {"enterImps", "enterBmps", "enterStandby"} :
              /\ Has(v.sme.pending, y) <=> Has(w.sme.pending, y)
              /\ Once(v.sme.pending, y) <=> Once(w.sme.pending, y)
              /\ \A s : Before(v.sme.pending, s, y) <=> Before(w.sme.pending, s, y)
          /\ v.sme.csr = w.sme.csr
          /\ v.sme.free + Pooled(v.sme.pending) = w.sme.free + Pooled(w.sme.pending)
          /\ v.sme.free \in Nat /\ Pooled(v.sme.pending) \in Nat
      BY <1>1, <1>5, Followed
    <2> QED BY <1>1, <1>2, <2>1
  <1>6. FullGiven(w, v) /\ "csr" \notin pmc.full => v.sme = sme
    BY <1>1, GivenToNone
  <1> QED BY <1>3, <1>4, <1>5, <1>6 DEF Settles

LEMMA PeAnswersStep ==
  ASSUME PmcIInv, NEW ok \in BOOLEAN, PeAnswers(ok)
  PROVE  PmcIInv'
  <1> DEFINE c == Head(sme.active)
             t == c.type
             w == [World EXCEPT !.toPe = Tail(@)]
             w1 == IF t = "enterBmps" THEN [w EXCEPT !.pmc.bmpsQueued = FALSE] ELSE w
             v == Answered(w1, t, ok)
             x == Release([v EXCEPT !.sme.active = <<>>], c)
             Low == {"enterImps", "enterBmps", "enterStandby"}
  <1>1. /\ World \in Worlds /\ TypeOK /\ ~run.on /\ run.then = Nothing /\ setup' = setup
        /\ toPe # <<>>
    BY CallStarts DEF PeAnswers, Locked, PmcIInv, Base
  <1>2. /\ sme.active = <<c>> /\ c \in Command /\ t \in PmcType
        /\ pmc.state = To[t] /\ pmc.state \in Requesting
        /\ Tail(toPe) = <<>> /\ Request(t) = Head(toPe)
    BY <1>1, Asked
  <1>3. left' \in [Op -> Nat]
    <2>1. /\ left \in [Op -> Nat] /\ "refusal" \in Op
      BY <1>1 DEF TypeOK, Op
    <2>2. ASSUME NEW op \in Op, left[op] > 0, left' = [left EXCEPT ![op] = @ - 1]
          PROVE  left' \in [Op -> Nat]
      BY <2>1, <2>2
    <2>3. \/ left' = left
          \/ left["refusal"] > 0 /\ left' = [left EXCEPT !["refusal"] = @ - 1]
      BY DEF PeAnswers
    <2> QED BY <2>1, <2>2, <2>3
  <1>4. ok \/ t \in Enter
    <2>1. ok \/ Head(toPe) \in Enter
      BY DEF PeAnswers
    <2>2. Request(t) \in Enter => t \in Enter
      BY DEF Request, Enter
    <2> QED BY <1>2, <2>1, <2>2
  <1>5. Becomes(x) /\ run' = [on |-> TRUE, then |-> Nothing]
    <2>1. ~(sme.active = <<>> \/ t \notin PmcType \/ Request(t) # Head(toPe))
      BY <1>2
    <2>2. pmc.state = To[t]
      BY <1>2
    <2> QED BY <2>1, <2>2 DEF PeAnswers, Released
  <1>6. /\ w \in Worlds /\ w.pmc = pmc /\ w.sme = sme /\ w.toPe = <<>>
        /\ w.link = link /\ w.hdd = hdd
    <2>1. Tail(toPe) \in Seq(PmcType)
      BY <1>2, EmptySeq
    <2> QED BY <1>1, <1>2, <2>1, WorldIs DEF Worlds
  <1> HIDE DEF w
  <1>7. /\ w1 \in Worlds /\ w1.sme = sme /\ w1.toPe = <<>>
        /\ w1.link = link /\ w1.hdd = hdd
        /\ w1.pmc.state = pmc.state /\ w1.pmc.full = pmc.full
        /\ w1.pmc.waiting = pmc.waiting
        /\ w1.pmc.imps = pmc.imps /\ w1.pmc.bmps = pmc.bmps
    <2>1. CASE t = "enterBmps"
      BY <1>6, <2>1 DEF Worlds, PmcRecord
    <2>2. CASE t # "enterBmps"
      BY <1>6, <2>2
    <2> QED BY <2>1, <2>2
  <1>8. IF t = "enterBmps" THEN ~w1.pmc.bmpsQueued
                           ELSE w1.pmc.bmpsQueued = pmc.bmpsQueued
    BY <1>6 DEF Worlds, PmcRecord
  <1> HIDE DEF w1
  <1>10. Settles(w1, v, t)
    BY <1>2, <1>4, <1>7, AnsweredIs
  <1> HIDE DEF v
  <1>11. /\ v \in Worlds /\ v.toPe = <<>> /\ v.link = link /\ v.hdd.pc = hdd.pc
         /\ v.pmc.imps = pmc.imps /\ v.pmc.bmps = pmc.bmps
         /\ v.pmc.bmpsQueued = w1.pmc.bmpsQueued
         /\ t # "enterStandby" =>
              ("standby" \in v.pmc.waiting <=> "standby" \in pmc.waiting)
         /\ v.pmc.state = "FULL_POWER" \/ (v.pmc.state \in Saving /\ v.hdd.full = hdd.full)
         /\ v.pmc.state = "STANDBY" => t = "enterStandby"
    BY <1>7, <1>10 DEF Settles, Alike
  <1>12. /\ \A y \in Low :
              /\ Has(v.sme.pending, y) <=> Has(sme.pending, y)
              /\ Once(v.sme.pending, y) <=> Once(sme.pending, y)
              /\ \A s : Before(v.sme.pending, s, y) <=> Before(sme.pending, s, y)
         /\ \A y \in PmcType : ~Has(v.sme.csr, y)
         /\ v.sme.free + Pooled(v.sme.pending) + Pooled(v.sme.csr)
              = sme.free + Pooled(sme.pending) + Pooled(sme.csr)
         /\ v.sme.free \in Nat /\ Pooled(v.sme.pending) \in Nat /\ Pooled(v.sme.csr) \in Nat
    BY <1>7, <1>10, SettledLists
  <1>13. /\ x \in Worlds
         /\ x.pmc = v.pmc /\ x.toPe = v.toPe /\ x.link = v.link /\ x.hdd = v.hdd
         /\ x.sme.pending = v.sme.pending /\ x.sme.csr = v.sme.csr
         /\ x.sme.active = <<>>
         /\ x.sme.free = IF c.pooled THEN v.sme.free + 1 ELSE v.sme.free
    BY <1>2, <1>11, DoneIs
  <1> HIDE DEF x
  <1>14. World' = x
    BY <1>5, <1>13, BecomesIs
  <1>15. /\ pmc' = v.pmc /\ toPe' = <<>> /\ link' = link /\ hdd' = v.hdd
         /\ sme'.pending = v.sme.pending /\ sme'.csr = v.sme.csr
         /\ sme'.active = <<>>
         /\ sme'.free = IF c.pooled THEN v.sme.free + 1 ELSE v.sme.free
    BY <1>11, <1>13, <1>14, WorldIs
  <1>16. /\ pmc'.state = "FULL_POWER" \/ pmc'.state \in Saving
         /\ pmc'.state \notin Requesting
    BY <1>11, <1>15, Apart
  <1>17. /\ run'.on /\ run'.then = Nothing /\ Nothing \in Thens /\ Nothing.kind = "none"
         /\ run' \in [on: BOOLEAN, then: Thens]
    BY <1>5, AfterIs
  <1>18. \A y : ~Has(sme'.active, y)
    BY <1>15, EmptyIs
  <1>19. TypeOK'
    BY <1>3, <1>13, <1>14, <1>17, TypeIs DEF Thens
  <1>20. Len(sme'.active) <= 1 /\ Calls'
    <2>1. Len(sme'.active) = 0
      BY <1>15
    <2> QED BY <1>17, <2>1 DEF Calls, Thens
  <1>21. RequestMatched' /\ RunsInFullPower'
    <2>1. Len(sme'.active) = 0 /\ ToSet(sme'.active) = {}
      BY <1>15 DEF ToSet
    <2> QED BY <1>15, <1>16, <2>1 DEF RequestMatched, RunsInFullPower
  <1>22. BuffersKept'
    <2>1. sme.active # <<>>
      BY <1>2
    <2> QED BY <1>1, <1>12, <1>15, <1>17, <2>1, DoneBuffers
  <1>23. HeldBack'
    <2>1. \A y \in PmcType : ~Has(sme'.csr, y)
      BY <1>12, <1>15
    <2>2. CASE pmc'.state = "FULL_POWER"
      <3>1. FullGiven(w1, v)
        BY <1>10, <1>15, <2>2, Apart DEF Settles
      <3>2. pmc'.full = {} /\ sme'.csr = <<>>
        BY <1>7, <1>15, <3>1 DEF FullGiven, PmcIInv, Base, HeldBack
      <3> QED BY <2>1, <3>2 DEF HeldBack
    <2>3. CASE pmc'.state # "FULL_POWER"
      <3>1. /\ v.pmc.full = w1.pmc.full
            /\ v.sme = w1.sme \/ \E y \in Follow : Queues(w1, v, y)
        BY <1>10, <1>15, <2>3 DEF Settles
      <3>2. v.sme.csr = w1.sme.csr
        BY <3>1 DEF Queues
      <3>3. pmc'.full = pmc.full /\ sme'.csr = sme.csr
        BY <1>7, <1>15, <3>1, <3>2
      <3> QED BY <2>1, <2>3, <3>3 DEF PmcIInv, Base, HeldBack
    <2> QED BY <2>2, <2>3
  <1>24. Connection'
    <2>1. t = "enterStandby" => pmc.state = "REQUEST_STANDBY"
      BY <1>2 DEF To
    <2>2. pmc'.state \in {"REQUEST_STANDBY", "STANDBY"} => t = "enterStandby"
      BY <1>11, <1>15, <1>16 DEF Requesting
    <2> QED BY <1>1, <1>15, <2>1, <2>2 DEF PmcIInv, Base, Connection
  <1>25. QueueServed'
    BY <1>17 DEF QueueServed
  <1>26. /\ \A y \in Low : /\ Has(sme'.pending, y) <=> Has(sme.pending, y)
                           /\ Once(sme'.pending, y) <=> Once(sme.pending, y)
                           /\ \A s : Before(sme'.pending, s, y) <=> Before(sme.pending, s, y)
    BY <1>12, <1>15
  <1>27. ImpsApart'
    BY <1>15, <1>18, <1>26 DEF PmcIInv, Base, ImpsApart
  <1>28. \A y : Has(sme.active, y) <=> t = y
    BY <1>2, SingleIs
  <1>29. \A y \in Low : /\ Queued(y)' <=> Has(sme.pending, y)
                        /\ Single(y) => Single(y)' /\ Once(sme.pending, y)
                        /\ Queued(y)' => Queued(y)
                        /\ Single(y) /\ t = y => ~Queued(y)'
                        /\ t # y => (Queued(y) <=> Has(sme.pending, y))
    BY <1>18, <1>26, <1>28 DEF Queued, Single
  <1>30. pmc.state # "FULL_POWER"
    BY <1>2, Apart
  <1>31. BmpsRequested'
    <2> SUFFICES ASSUME ~setup.late PROVE BmpsRequested'
      BY <1>1 DEF BmpsRequested
    <2>1. /\ pmc.bmpsQueued <=> Queued("enterBmps")
          /\ Single("enterBmps")
          /\ ~Has(sme.pending, "enterBmps")
          /\ ~Before(sme.pending, "enterImps", "enterBmps")
          /\ ~Before(sme.pending, "enterStandby", "enterBmps")
      BY <1>30 DEF PmcIInv, Base, BmpsRequested
    <2>2. ~Queued("enterBmps")' /\ ~Has(sme'.pending, "enterBmps") /\ Single("enterBmps")'
      BY <1>26, <1>29, <2>1
    <2>3. ~pmc'.bmpsQueued
      BY <1>8, <1>11, <1>15, <1>29, <2>1
    <2>4. /\ ~Before(sme'.pending, "enterImps", "enterBmps")
          /\ ~Before(sme'.pending, "enterStandby", "enterBmps")
      BY <1>26, <2>1
    <2> QED BY <2>2, <2>3, <2>4 DEF BmpsRequested
  <1>32. Suspending'
    <2>1. /\ hdd.pc \in {"off", "full", "ask", "standby"} => ~pmc.imps /\ ~pmc.bmps
          /\ ~setup.late =>
               /\ ~(hdd.pc = "full" /\ hdd.full)
               /\ hdd.pc # "ask"
               /\ Queued("enterStandby") =>
                    hdd.pc = "standby" /\ "standby" \in pmc.waiting
               /\ Single("enterStandby")
      BY <1>1, <1>30 DEF PmcIInv, Suspending, Nothing
    <2>2. /\ hdd'.pc = hdd.pc /\ pmc'.imps = pmc.imps /\ pmc'.bmps = pmc.bmps
          /\ pmc'.state = "FULL_POWER" \/ hdd'.full = hdd.full
          /\ t # "enterStandby" =>
               ("standby" \in pmc'.waiting <=> "standby" \in pmc.waiting)
      BY <1>11, <1>15
    <2>3. /\ Queued("enterStandby")' => Queued("enterStandby")
          /\ Single("enterStandby") => Single("enterStandby")'
          /\ Single("enterStandby") /\ t = "enterStandby" => ~Queued("enterStandby")'
      BY <1>29
    <2> QED BY <1>1, <2>1, <2>2, <2>3 DEF Suspending
  <1>33. Fed'
    BY <1>1, <1>26, <1>30 DEF PmcIInv, Fed, Ample
  <1> QED BY <1>19, <1>20, <1>21, <1>22, <1>23, <1>24, <1>25, <1>27, <1>31, <1>32, <1>33
          DEF PmcIInv, Base

\* A command that is not PMC's is done, and the connection is as it left it.
LEMMA CompletedKept ==
  ASSUME PmcIInv, ~run.on, sme.active # <<>>, Head(sme.active).type \in SmeType,
         World' \in Worlds,
         pmc'.state = pmc.state, pmc'.bmpsQueued = pmc.bmpsQueued,
         pmc'.full = pmc.full, pmc'.imps = pmc.imps, pmc'.bmps = pmc.bmps,
         "standby" \in pmc'.waiting <=> "standby" \in pmc.waiting,
         toPe' = toPe, hdd' = hdd,
         sme'.pending = sme.pending, sme'.csr = sme.csr, sme'.active = <<>>,
         sme'.free = IF Head(sme.active).pooled THEN sme.free + 1 ELSE sme.free,
         link'.waitKey => link'.connected /\ setup.secure,
         link'.connected => link.connected \/ Head(sme.active).type = "connect",
         run' = [on |-> TRUE, then |-> Nothing], setup' = setup, left' = left
  PROVE  PmcIInv'
  <1> DEFINE c == Head(sme.active)
             Low == {"enterImps", "enterBmps", "enterStandby"}
  <1>1. /\ TypeOK /\ run.then = Nothing
        /\ sme.active \in Seq(Command) /\ Len(sme.active) <= 1
    BY CallStarts DEF PmcIInv, Base, TypeOK, SmeRecord
  <1>2. c \in Command /\ sme.active = <<c>> /\ c.type \in SmeType
    BY <1>1
  <1> HIDE DEF c
  <1>3. pmc.state \notin Requesting /\ toPe = <<>>
    <2>1. ~(Head(sme.active).type \in PmcType)
      BY Apart
    <2> QED BY <2>1 DEF PmcIInv, Base, RequestMatched
  <1>4. /\ run'.on /\ run'.then = Nothing /\ Nothing \in Thens /\ Nothing.kind = "none"
        /\ run' \in [on: BOOLEAN, then: Thens]
    BY AfterIs
  <1>5. /\ \A y : ~Has(sme'.active, y)
        /\ \A y : Has(sme.active, y) <=> c.type = y
    BY <1>2, EmptyIs, SingleIs
  <1>6. \A y \in Low : ~Has(sme.active, y)
    BY <1>2, <1>5, Apart
  <1>7. TypeOK'
    BY <1>1, <1>4, TypeIs DEF Thens
  <1>8. Len(sme'.active) <= 1 /\ Calls'
    <2>1. Len(sme'.active) = 0
      OBVIOUS
    <2> QED BY <1>4, <2>1 DEF Calls, Thens
  <1>9. RequestMatched' /\ RunsInFullPower'
    <2>1. Len(sme'.active) = 0 /\ ToSet(sme'.active) = {}
      BY DEF ToSet
    <2> QED BY <1>3, <2>1 DEF RequestMatched, RunsInFullPower
  <1>10. BuffersKept'
    <2>1. /\ sme.free \in Nat /\ Pooled(sme.pending) \in Nat /\ Pooled(sme.csr) \in Nat
      BY <1>1, ConcatPooled DEF TypeOK, SmeRecord
    <2> QED BY <1>1, <1>4, <2>1, DoneBuffers
  <1>11. HeldBack'
    BY DEF PmcIInv, Base, HeldBack
  <1>12. c.type = "connect" => pmc.state = "FULL_POWER"
    <2>1. c \in ToSet(sme.active)
      BY <1>2 DEF ToSet
    <2> QED BY <2>1 DEF PmcIInv, Base, RunsInFullPower, RoamType
  <1>13. Connection'
    BY <1>12 DEF PmcIInv, Base, Connection, c
  <1>14. QueueServed'
    BY <1>4 DEF QueueServed
  <1>15. ImpsApart'
    BY <1>5 DEF PmcIInv, Base, ImpsApart, c
  <1>16. \A y \in Low : /\ Queued(y)' <=> Queued(y)
                        /\ Single(y)' <=> Single(y)
    BY <1>5, <1>6 DEF Queued, Single
  <1>17. BmpsRequested'
    BY <1>16 DEF PmcIInv, Base, BmpsRequested
  <1>18. Suspending'
    <2>1. run.then.kind # "standby"
      BY <1>1, <1>4
    <2> QED BY <1>16, <2>1, SuspendingKept DEF PmcIInv
  <1>19. Fed'
    <2>1. c.pooled
      BY <1>2, Apart DEF Command
    <2>2. sme.free \in Nat
      BY <1>1 DEF TypeOK, SmeRecord
    <2>3. sme'.free > 0
      BY <2>1, <2>2 DEF c
    <2> QED BY <2>3 DEF PmcIInv, Fed, Ample
  <1> QED BY <1>7, <1>8, <1>9, <1>10, <1>11, <1>13, <1>14, <1>15, <1>17, <1>18, <1>19
          DEF PmcIInv, Base

LEMMA CompleteStep ==
  ASSUME PmcIInv, setup \in Setups, NEW ok \in BOOLEAN, Complete(ok)
  PROVE  PmcIInv'
  <1> DEFINE c == Head(sme.active)
             w == Release([World EXCEPT !.sme.active = <<>>], c)
             lk == [connected |-> TRUE, waitKey |-> setup.secure]
             lno == [connected |-> FALSE, waitKey |-> FALSE]
  <1>1. /\ World \in Worlds /\ ~run.on /\ setup' = setup /\ left' = left
        /\ sme.active # <<>> /\ c.type \in SmeType
        /\ sme.active \in Seq(Command)
    BY CallStarts DEF Complete, Locked, quota, PmcIInv, Base, TypeOK, SmeRecord
  <1>2. c \in Command
    BY <1>1
  <1>3. \/ Released(w) /\ c.type # "disconnect"
        \/ Released(StartTrafficTimer([w EXCEPT !.link = lk])) /\ c.type = "connect"
        \/ Released([w EXCEPT !.link = lno])
        \/ Released([w EXCEPT !.link.waitKey = FALSE])
    BY DEF Complete
  <1>4. /\ w \in Worlds
        /\ w.pmc = pmc /\ w.toPe = toPe /\ w.link = link /\ w.hdd = hdd
        /\ w.sme.pending = sme.pending /\ w.sme.csr = sme.csr
        /\ w.sme.active = <<>>
        /\ w.sme.free = IF c.pooled THEN sme.free + 1 ELSE sme.free
    BY <1>1, <1>2, DoneIs, WorldIs
  <1> HIDE DEF w
  <1>5. setup.secure \in BOOLEAN
    BY SetupsAssumption
  <1>6. lk \in LinkRecord /\ lno \in LinkRecord
    BY <1>5 DEF LinkRecord
  <1>7. /\ link \in LinkRecord
        /\ link.waitKey => link.connected /\ setup.secure
    BY DEF PmcIInv, Base, TypeOK, Connection
  <1>8. ASSUME NEW x \in Worlds, Released(x), x.sme = w.sme, x.toPe = toPe, x.hdd = hdd,
               x.pmc.state = pmc.state, x.pmc.bmpsQueued = pmc.bmpsQueued,
               x.pmc.full = pmc.full, x.pmc.imps = pmc.imps, x.pmc.bmps = pmc.bmps,
               "standby" \in x.pmc.waiting <=> "standby" \in pmc.waiting,
               x.link.waitKey => x.link.connected /\ setup.secure,
               x.link.connected => link.connected \/ c.type = "connect"
        PROVE  PmcIInv'
    <2>1. World' = x
      BY <1>8, BecomesIs DEF Released
    <2>2. /\ pmc' = x.pmc /\ sme' = w.sme /\ toPe' = toPe /\ hdd' = hdd
          /\ link' = x.link /\ World' \in Worlds
          /\ run' = [on |-> TRUE, then |-> Nothing]
      BY <1>8, <2>1, WorldIs DEF Released
    <2> HIDE DEF c
    <2> QED BY <1>1, <1>4, <1>8, <2>2, CompletedKept DEF c
  <1>9. CASE Released(w) /\ c.type # "disconnect"
    BY <1>4, <1>7, <1>8, <1>9
  <1>10. CASE Released(StartTrafficTimer([w EXCEPT !.link = lk])) /\ c.type = "connect"
    <2> DEFINE u == [w EXCEPT !.link = lk]
               x == StartTrafficTimer(u)
    <2>1. /\ u \in Worlds /\ u.pmc = pmc /\ u.toPe = toPe /\ u.link = lk
          /\ u.hdd = hdd /\ u.sme = w.sme
      BY <1>4, <1>6 DEF Worlds
    <2> HIDE DEF u
    <2>2. Same(u, x)
      BY <2>1, TrafficTimer
    <2> HIDE DEF x
    <2>3. /\ x \in Worlds /\ x.toPe = toPe /\ x.link = lk /\ x.sme = w.sme
          /\ x.pmc.state = pmc.state /\ x.pmc.bmpsQueued = pmc.bmpsQueued
          /\ x.pmc.full = pmc.full /\ x.pmc.imps = pmc.imps /\ x.pmc.bmps = pmc.bmps
          /\ "standby" \in x.pmc.waiting <=> "standby" \in pmc.waiting
      BY <2>1, <2>2 DEF Same, Kept, Alike
    <2>4. x.hdd = hdd
      BY <2>1 DEF x, StartTrafficTimer, Worlds
    <2>5. Released(x)
      BY <1>10 DEF x, u
    <2> QED BY <1>8, <1>10, <2>3, <2>4, <2>5
  <1>11. CASE Released([w EXCEPT !.link = lno])
    <2> DEFINE u == [w EXCEPT !.link = lno]
    <2>1. /\ u \in Worlds /\ u.pmc = pmc /\ u.toPe = toPe /\ u.link = lno
          /\ u.hdd = hdd /\ u.sme = w.sme
      BY <1>4, <1>6 DEF Worlds
    <2>2. Released(u)
      BY <1>11
    <2> HIDE DEF u
    <2> QED BY <1>8, <2>1, <2>2
  <1>12. CASE Released([w EXCEPT !.link.waitKey = FALSE])
    <2> DEFINE u == [w EXCEPT !.link.waitKey = FALSE]
    <2>1. /\ u \in Worlds /\ u.pmc = pmc /\ u.toPe = toPe
          /\ u.link.connected = link.connected /\ ~u.link.waitKey
          /\ u.hdd = hdd /\ u.sme = w.sme
      BY <1>4, <1>7 DEF Worlds, LinkRecord
    <2>2. Released(u)
      BY <1>12
    <2> HIDE DEF u
    <2> QED BY <1>8, <2>1, <2>2
  <1> QED BY <1>3, <1>9, <1>10, <1>11, <1>12

-----------------------------------------------------------------------------
(***************************************************************************)
(* Commands of CSR, of QoS and of P2P.                                     *)
(***************************************************************************)
\* A new command has taken a buffer; a disconnect no longer waits for a key.
Bought(w, c) ==
  /\ w \in Worlds /\ c \in Command /\ c.pooled /\ c.type \in SmeType
  /\ w.pmc = pmc /\ w.toPe = toPe /\ w.hdd = hdd
  /\ w.sme.pending = sme.pending /\ w.sme.active = sme.active /\ w.sme.csr = sme.csr
  /\ w.sme.free \in Nat /\ sme.free = w.sme.free + 1
  /\ w.link.connected = link.connected
  /\ w.link.waitKey => link.waitKey
  /\ w.link = link \/ (c.type = "disconnect" /\ ~w.link.waitKey)

\* Common to all that becomes of it: the lists but for the command, the state.
LEMMA BoughtKept ==
  ASSUME PmcIInv, ~run.on, NEW w, NEW c, Bought(w, c), World' \in Worlds,
         pmc'.state = pmc.state, pmc'.bmpsQueued = pmc.bmpsQueued,
         pmc'.imps = pmc.imps, pmc'.bmps = pmc.bmps,
         "standby" \in pmc.waiting => "standby" \in pmc'.waiting,
         toPe' = toPe, hdd'.pc = hdd.pc, hdd'.full = hdd.full, link' = w.link,
         sme'.active = sme.active,
         \A y \in {"enterImps", "enterBmps", "enterStandby"} :
           /\ Has(sme'.pending, y) <=> Has(sme.pending, y)
           /\ Once(sme'.pending, y) <=> Once(sme.pending, y)
           /\ \A s \in PmcType \cup {"connect"} :
                Before(sme'.pending, s, y) => Before(sme.pending, s, y),
         Calls', BuffersKept', HeldBack', QueueServed',
         run'.on \in BOOLEAN, run'.then.cmd \in Command,
         setup' = setup, left' \in [Op -> Nat]
  PROVE  PmcIInv'
  <1> DEFINE Low == {"enterImps", "enterBmps", "enterStandby"}
  <1>1. TypeOK'
    BY TypeIs
  <1>2. Len(sme'.active) <= 1
    BY DEF PmcIInv, Base
  <1>3. RequestMatched' /\ RunsInFullPower'
    BY DEF PmcIInv, Base, RequestMatched, RunsInFullPower
  <1>4. Connection'
    BY DEF PmcIInv, Base, Connection, Bought
  <1>5. \A y : Has(sme'.active, y) <=> Has(sme.active, y)
    OBVIOUS
  <1>6. ImpsApart'
    BY <1>5 DEF PmcIInv, Base, ImpsApart, Bought
  <1>7. \A y \in Low : /\ Queued(y)' <=> Queued(y)
                       /\ Single(y)' <=> Single(y)
    BY <1>5 DEF Queued, Single
  <1>8. BmpsRequested'
    <2>1. /\ ~Before(sme.pending, "enterImps", "enterBmps") =>
               ~Before(sme'.pending, "enterImps", "enterBmps")
          /\ ~Before(sme.pending, "enterStandby", "enterBmps") =>
               ~Before(sme'.pending, "enterStandby", "enterBmps")
      BY Apart
    <2> QED BY <1>7, <2>1 DEF PmcIInv, Base, BmpsRequested
  <1>9. run.then = Nothing /\ Nothing.kind = "none"
    BY CallStarts, AfterIs
  <1>10. Suspending'
    BY <1>7, <1>9, SuspendingKept DEF PmcIInv
  <1>11. Fed'
    <2> SUFFICES ASSUME Ample, Has(sme.pending, "enterStandby")
                 PROVE  pmc.state = "FULL_POWER" /\ sme.active # <<>>
      BY DEF Fed, Ample
    <2> QED BY Busy DEF PmcIInv, Fed
  <1> QED BY <1>1, <1>2, <1>3, <1>4, <1>6, <1>8, <1>10, <1>11 DEF PmcIInv, Base

\* What may be said of the lists it comes from.
LEMMA ListTypes ==
  ASSUME PmcIInv
  PROVE  /\ sme.pending \in Seq(Command) /\ sme.csr \in Seq(Command)
         /\ sme.active \in Seq(Command) /\ sme.free \in Nat
         /\ Pooled(sme.pending) \in Nat /\ Pooled(sme.csr) \in Nat
         /\ Pooled(sme.active) \in Nat
  <1>1. /\ sme.pending \in Seq(Command) /\ sme.csr \in Seq(Command)
        /\ sme.active \in Seq(Command) /\ sme.free \in Nat
    BY DEF PmcIInv, Base, TypeOK, SmeRecord
  <1> QED BY <1>1, ConcatPooled

\* It is put on the queue, behind the others or, as a key is, before them.
LEMMA PushedKept ==
  ASSUME PmcIInv, ~run.on, NEW w, NEW c, Bought(w, c), NEW high \in BOOLEAN,
         high => c.type # "connect",
         Call(Push(w, c, high), Nothing), setup' = setup, left' \in [Op -> Nat]
  PROVE  PmcIInv'
  <1> DEFINE q == sme.pending
             p == IF high THEN <<c>> \o q ELSE Append(q, c)
             v == Push(w, c, high)
             Low == {"enterImps", "enterBmps", "enterStandby"}
  <1>1. w \in Worlds /\ c \in Command /\ c.type \in SmeType /\ c.pooled
    BY DEF Bought
  <1>2. q \in Seq(Command) /\ Pooled(q) \in Nat /\ sme.free \in Nat
    BY ListTypes
  <1>3. /\ v \in Worlds
        /\ v.pmc = pmc /\ v.toPe = toPe /\ v.link = w.link /\ v.hdd = hdd
        /\ v.sme.free = w.sme.free /\ v.sme.pending = p
        /\ v.sme.active = sme.active /\ v.sme.csr = sme.csr
    BY <1>1, PushIs DEF Bought
  <1> HIDE DEF q, v
  <1>4. /\ \A t : Has(p, t) <=> Has(q, t) \/ c.type = t
        /\ \A t : Once(p, t) <=> Once(q, t) /\ ~(Has(q, t) /\ c.type = t)
        /\ \A t, u : Before(p, t, u) =>
                       \/ Before(q, t, u)
                       \/ ~high /\ c.type = u
                       \/ high /\ c.type = t
        /\ Pooled(p) = Pooled(q) + (IF c.pooled THEN 1 ELSE 0)
        /\ p # q
    <2>1. CASE high
      <3>1. /\ \A t : Has(<<c>> \o q, t) <=> c.type = t \/ Has(q, t)
            /\ \A t : Once(<<c>> \o q, t) <=> Once(q, t) /\ ~(Has(q, t) /\ c.type = t)
            /\ \A t, u : Before(<<c>> \o q, t, u) <=>
                           Before(q, t, u) \/ (c.type = t /\ Has(q, u))
            /\ Pooled(<<c>> \o q) = Pooled(q) + (IF c.pooled THEN 1 ELSE 0)
        BY <1>1, <1>2, ConsIs
      <3>2. <<c>> \o q # q
        BY <1>1, <1>2, ConcatProperties, LenProperties
      <3>3. p = <<c>> \o q
        BY <2>1
      <3> HIDE DEF p
      <3> QED BY <2>1, <3>1, <3>2, <3>3
    <2>2. CASE ~high
      <3>1. /\ \A t : Has(Append(q, c), t) <=> Has(q, t) \/ c.type = t
            /\ \A t : Once(Append(q, c), t) <=> Once(q, t) /\ ~(Has(q, t) /\ c.type = t)
            /\ \A t, u : Before(Append(q, c), t, u) <=>
                           Before(q, t, u) \/ (Has(q, t) /\ c.type = u)
            /\ Pooled(Append(q, c)) = Pooled(q) + (IF c.pooled THEN 1 ELSE 0)
        BY <1>1, <1>2, AppendIs
      <3>2. Append(q, c) # q
        BY <1>1, <1>2, AppendProperties, LenProperties
      <3>3. p = Append(q, c)
        BY <2>2
      <3> HIDE DEF p
      <3> QED BY <2>2, <3>1, <3>2, <3>3
    <2> QED BY <2>1, <2>2
  <1> HIDE DEF p
  <1>5. Becomes(v) /\ run' = [on |-> TRUE, then |-> Nothing]
    BY <1>3, <1>4 DEF Call, v, q
  <1>6. World' = v
    BY <1>3, <1>5, BecomesIs
  <1>7. /\ pmc' = pmc /\ toPe' = toPe /\ link' = w.link /\ hdd' = hdd
        /\ sme'.free = w.sme.free /\ sme'.pending = p
        /\ sme'.active = sme.active /\ sme'.csr = sme.csr
    BY <1>3, <1>6, WorldIs
  <1>8. \A y \in Low : c.type # y
    BY <1>1, Apart
  <1>9. \A s \in PmcType \cup {"connect"} : high => c.type # s
    BY <1>1, Apart
  <1>10. \A y \in Low : /\ Has(sme'.pending, y) <=> Has(sme.pending, y)
                        /\ Once(sme'.pending, y) <=> Once(sme.pending, y)
                        /\ \A s \in PmcType \cup {"connect"} :
                             Before(sme'.pending, s, y) => Before(sme.pending, s, y)
    BY <1>4, <1>7, <1>8, <1>9 DEF q
  <1>11. /\ run'.on /\ run'.then = Nothing /\ Nothing \in Thens /\ Nothing.kind = "none"
         /\ run.then = Nothing
    BY <1>5, AfterIs, CallStarts
  <1>12. Calls' /\ QueueServed' /\ run'.on \in BOOLEAN /\ run'.then.cmd \in Command
    BY <1>5, <1>11 DEF Calls, QueueServed, Thens
  <1>13. HeldBack'
    BY <1>7 DEF PmcIInv, Base, HeldBack
  <1>14. BuffersKept'
    <2>1. sme'.free + Pooled(sme'.pending) = sme.free + Pooled(sme.pending)
      <3> DEFINE n == Pooled(q)
      <3>1. n \in Nat /\ Pooled(sme.pending) = n /\ Pooled(p) = n + 1
        BY <1>1, <1>2, <1>4 DEF q
      <3>2. w.sme.free \in Nat /\ sme.free = w.sme.free + 1
        BY DEF Bought
      <3> HIDE DEF n
      <3> QED BY <1>7, <3>1, <3>2
    <2>2. BuffersKept
      BY DEF PmcIInv, Base
    <2> QED BY <1>7, <1>11, <2>1, <2>2 DEF BuffersKept
  <1> QED BY <1>6, <1>3, <1>7, <1>10, <1>12, <1>13, <1>14, BoughtKept

\* The lists and the buffers are all there is to them.
LEMMA SmeIs ==
  ASSUME NEW s \in SmeRecord, NEW t \in SmeRecord,
         s.free = t.free, s.pending = t.pending, s.active = t.active, s.csr = t.csr
  PROVE  s = t
  BY DEF SmeRecord

\* One buffer more is held by CSR and one less is free.
LEMMA BufferMoved ==
  ASSUME PmcIInv, sme.free = sme'.free + 1, sme'.free \in Nat,
         Pooled(sme'.csr) = Pooled(sme.csr) + 1,
         sme'.pending = sme.pending, sme'.active = sme.active,
         run' = run, setup' = setup
  PROVE  BuffersKept'
  <1>1. /\ Pooled(sme.pending) \in Nat /\ Pooled(sme.csr) \in Nat
        /\ Pooled(sme.active) \in Nat
    BY ListTypes
  <1>2. BuffersKept
    BY DEF PmcIInv, Base
  <1>3. /\ Pooled(sme'.pending) = Pooled(sme.pending)
        /\ Pooled(sme'.active) = Pooled(sme.active)
    OBVIOUS
  <1> QED BY <1>1, <1>2, <1>3 DEF BuffersKept

\* It is held back until full power comes, for which CSR already waits or is
\* going to.
LEMMA HeldKept ==
  ASSUME PmcIInv, ~run.on, NEW w, NEW c, Bought(w, c), World' \in Worlds,
         pmc'.state = pmc.state, pmc'.bmpsQueued = pmc.bmpsQueued,
         pmc'.imps = pmc.imps, pmc'.bmps = pmc.bmps,
         "csr" \in pmc'.full, pmc.state # "FULL_POWER",
         "standby" \in pmc.waiting => "standby" \in pmc'.waiting,
         toPe' = toPe, hdd'.pc = hdd.pc, hdd'.full = hdd.full, link' = w.link,
         sme'.pending = sme.pending, sme'.active = sme.active,
         sme'.free = w.sme.free,
         \/ sme'.csr = <<c>> \o sme.csr
         \/ sme'.csr = Append(sme.csr, c),
         link' = link \/ sme.active # <<>>,
         run' = run, setup' = setup, left' \in [Op -> Nat]
  PROVE  PmcIInv'
  <1>1. /\ c \in Command /\ c.type \in SmeType /\ c.pooled
        /\ sme.free = w.sme.free + 1 /\ w.sme.free \in Nat
    BY DEF Bought
  <1>2. sme.csr \in Seq(Command)
    BY ListTypes
  <1>3. /\ Pooled(sme'.csr) = Pooled(sme.csr) + (IF c.pooled THEN 1 ELSE 0)
        /\ \A t : Has(sme'.csr, t) <=> Has(sme.csr, t) \/ c.type = t
    <2>1. CASE sme'.csr = <<c>> \o sme.csr
      <3>1. /\ Pooled(<<c>> \o sme.csr) = Pooled(sme.csr) + (IF c.pooled THEN 1 ELSE 0)
            /\ \A t : Has(<<c>> \o sme.csr, t) <=> c.type = t \/ Has(sme.csr, t)
        BY <1>1, <1>2, ConsIs
      <3> QED BY <2>1, <3>1
    <2>2. CASE sme'.csr = Append(sme.csr, c)
      <3>1. /\ Pooled(Append(sme.csr, c)) = Pooled(sme.csr) + (IF c.pooled THEN 1 ELSE 0)
            /\ \A t : Has(Append(sme.csr, c), t) <=> Has(sme.csr, t) \/ c.type = t
        BY <1>1, <1>2, AppendIs
      <3> QED BY <2>2, <3>1
    <2> QED BY <2>1, <2>2
  <1>4. HeldBack'
    <2>1. \A t \in PmcType : ~Has(sme'.csr, t)
      BY <1>1, <1>3, Apart DEF PmcIInv, Base, HeldBack
    <2> QED BY <2>1 DEF HeldBack
  <1>5. BuffersKept'
    <2>1. Pooled(sme'.csr) = Pooled(sme.csr) + 1
      BY <1>1, <1>3
    <2>2. sme.free = sme'.free + 1 /\ sme'.free \in Nat
      BY <1>1
    <2> QED BY <2>1, <2>2, BufferMoved
  <1>6. Calls'
    BY DEF PmcIInv, Base, Calls
  <1>7. QueueServed'
    BY DEF PmcIInv, Base, QueueServed, Startable
  <1>8. run'.on \in BOOLEAN /\ run'.then.cmd \in Command
    BY DEF PmcIInv, Base, TypeOK
  <1> QED BY <1>4, <1>5, <1>6, <1>7, <1>8, BoughtKept

\* It is dropped: its buffer is given back.
LEMMA DroppedKept ==
  ASSUME PmcIInv, ~run.on, NEW w, NEW c, Bought(w, c), CsrDropped(w, c.type),
         Call(Release(w, c), Nothing), setup' = setup, left' \in [Op -> Nat]
  PROVE  PmcIInv'
  <1> DEFINE v == Release(w, c)
  <1>1. w \in Worlds /\ c \in Command /\ c.pooled /\ World \in Worlds
    BY CallStarts DEF Bought
  <1>2. /\ v \in Worlds
        /\ v.pmc = pmc /\ v.toPe = toPe /\ v.link = w.link /\ v.hdd = hdd
        /\ v.sme.free = sme.free /\ v.sme.pending = sme.pending
        /\ v.sme.active = sme.active /\ v.sme.csr = sme.csr
    BY <1>1, ReleaseIs DEF Bought
  <1> HIDE DEF v
  <1>3. v.sme = sme
    <2>1. v.sme \in SmeRecord /\ sme \in SmeRecord
      BY <1>1, <1>2, WorldIs DEF Worlds
    <2> QED BY <1>2, <2>1, SmeIs
  <1>4. v.link = link
    <2>1. ~link.waitKey
      BY DEF CsrDropped, Bought, PmcIInv, Base, Connection
    <2>2. w.link.connected = link.connected /\ ~w.link.waitKey
      BY <2>1 DEF Bought
    <2>3. w.link \in LinkRecord /\ link \in LinkRecord
      BY <1>1, WorldIs DEF Worlds
    <2>4. w.link = link
      BY <2>1, <2>2, <2>3 DEF LinkRecord
    <2> QED BY <1>2, <2>4
  <1>5. Calm(World, v)
    BY <1>2, <1>3, <1>4, WorldIs DEF Calm, Alike
  <1> QED BY <1>5, AfterIs, CallKept DEF v

\* Full power is requested for it from a power state, and the queue is run.
LEMMA WokenKept ==
  ASSUME PmcIInv, ~run.on, NEW w, NEW c, Bought(w, c), c.type \in CsrType,
         pmc.state \in Saving,
         NEW v, NEW t \in Exit, Issued(w, v, t), v.pmc.bmpsQueued = pmc.bmpsQueued,
         NEW high \in BOOLEAN, Becomes(v),
         run' = [on |-> TRUE, then |-> [kind |-> "csr", cmd |-> c, high |-> high]],
         setup' = setup, left' \in [Op -> Nat]
  PROVE  PmcIInv'
  <1> DEFINE Low == {"enterImps", "enterBmps", "enterStandby"}
  <1>1. w \in Worlds /\ v \in Worlds /\ t \in PmcType /\ c \in Command /\ c.pooled
    BY Apart DEF Bought, Issued, Kept, Alike
  <1>2. World' = v
    BY <1>1, BecomesIs
  <1>3. /\ pmc'.state = pmc.state /\ pmc'.bmpsQueued = pmc.bmpsQueued
        /\ pmc'.imps = pmc.imps /\ pmc'.bmps = pmc.bmps /\ pmc'.full = pmc.full
        /\ "standby" \in pmc'.waiting <=> "standby" \in pmc.waiting
        /\ toPe' = toPe /\ link' = w.link /\ hdd'.pc = hdd.pc /\ hdd'.full = hdd.full
    BY <1>2, WorldIs DEF Issued, Kept, Alike, Bought
  <1>4. /\ v.sme.active = w.sme.active /\ v.sme.csr = w.sme.csr
        /\ \A x : Has(v.sme.pending, x) <=> Has(w.sme.pending, x) \/ t = x
        /\ \A x : Once(v.sme.pending, x)
                    <=> Once(w.sme.pending, x) /\ ~(Has(w.sme.pending, x) /\ t = x)
        /\ \A x, y : Before(v.sme.pending, x, y) <=>
                       \/ Before(w.sme.pending, x, y)
                       \/ Has(w.sme.pending, x) /\ t = y
        /\ v.sme.free + Pooled(v.sme.pending) = w.sme.free + Pooled(w.sme.pending)
        /\ v.sme.free \in Nat /\ Pooled(v.sme.pending) \in Nat
    BY <1>1, QueuesIs DEF Issued
  <1>5. /\ w.sme.pending = sme.pending /\ w.sme.active = sme.active
        /\ w.sme.csr = sme.csr /\ sme.free = w.sme.free + 1 /\ w.sme.free \in Nat
    BY DEF Bought
  <1>6. sme' = v.sme
    BY <1>2, WorldIs
  <1>7. \A y \in Low : t # y
    BY Apart
  <1>8. \A y \in Low : /\ Has(sme'.pending, y) <=> Has(sme.pending, y)
                       /\ Once(sme'.pending, y) <=> Once(sme.pending, y)
                       /\ \A s \in PmcType \cup {"connect"} :
                            Before(sme'.pending, s, y) => Before(sme.pending, s, y)
    BY <1>4, <1>5, <1>6, <1>7
  <1>9. /\ [kind |-> "csr", cmd |-> c, high |-> high] \in Thens
        /\ run'.then.kind = "csr" /\ run'.then.cmd = c /\ run'.on
    BY <1>1 DEF Thens, Kind
  <1>10. Calls' /\ QueueServed' /\ run'.on \in BOOLEAN /\ run'.then.cmd \in Command
    <2>1. pmc'.state # "FULL_POWER"
      BY <1>3, Apart
    <2> QED BY <1>1, <1>9, <2>1 DEF Calls, QueueServed, Thens
  <1>11. sme'.active = sme.active /\ sme'.csr = sme.csr
    BY <1>4, <1>5, <1>6
  <1>12. HeldBack'
    BY <1>3, <1>11 DEF PmcIInv, Base, HeldBack
  <1>13. BuffersKept'
    <2> DEFINE m == Pooled(sme.pending)
               rest == Pooled(sme.active) + Pooled(sme.csr)
    <2>1. m \in Nat /\ Pooled(sme.active) \in Nat /\ Pooled(sme.csr) \in Nat
      BY ListTypes
    <2>2. sme'.free + Pooled(sme'.pending) = w.sme.free + m
      BY <1>4, <1>5, <1>6
    <2>3. (IF run'.then.kind = "csr" /\ run'.then.cmd.pooled THEN 1 ELSE 0) = 1
      BY <1>1, <1>9
    <2>4. run.then = Nothing /\ Nothing.kind = "none"
      BY CallStarts, AfterIs
    <2>5. sme.free + m + Pooled(sme.active) + Pooled(sme.csr) + 0 = setup.pool
      BY <2>4 DEF PmcIInv, Base, BuffersKept
    <2>6. /\ sme'.free \in Nat /\ Pooled(sme'.pending) \in Nat
      BY <1>4, <1>6
    <2> HIDE DEF m
    <2>7. sme'.free + Pooled(sme'.pending) + Pooled(sme.active) + Pooled(sme.csr) + 1 = setup.pool
      BY <1>5, <2>1, <2>2, <2>5, <2>6
    <2> QED BY <1>11, <2>3, <2>7 DEF BuffersKept
  <1> QED BY <1>1, <1>2, <1>3, <1>8, <1>10, <1>11, <1>12, <1>13, BoughtKept

LEMMA RequestedIs ==
  ASSUME NEW u \in Worlds
  PROVE  LET v == RequestFullPower(u)
         IN  IF u.pmc.state \in Saving
             THEN Issued(u, v, ExitOf[u.pmc.state]) /\ v.pmc.bmpsQueued = u.pmc.bmpsQueued
             ELSE Same(u, v)
  <1> DEFINE x == [u EXCEPT !.pmc.impsTimer = @ /\ u.pmc.state # "IMPS"]
             v == RequestFullPower(u)
  <1>1. Same(u, x) /\ x \in Worlds /\ x.pmc.state = u.pmc.state
        /\ x.pmc.bmpsQueued = u.pmc.bmpsQueued
    BY DEF Same, Kept, Alike, Worlds, PmcRecord
  <1>2. v = EnterRequestFullPowerState(x)
    BY DEF RequestFullPower
  <1> HIDE DEF x
  <1>3. IF x.pmc.state \in Saving
        THEN Issued(x, v, ExitOf[x.pmc.state]) /\ v.pmc = x.pmc
        ELSE Same(x, v)
    BY <1>1, <1>2, FullPowerRequested
  <1> HIDE DEF v
  <1>4. CASE u.pmc.state \in Saving
    <2>1. Issued(x, v, ExitOf[u.pmc.state]) /\ v.pmc = x.pmc
      BY <1>1, <1>3, <1>4
    <2>2. Issued(u, v, ExitOf[u.pmc.state])
      BY <1>1, <2>1, SameThenIssued
    <2> QED BY <1>1, <1>4, <2>1, <2>2 DEF v
  <1>5. CASE u.pmc.state \notin Saving
    <2>1. Same(u, v)
      BY <1>1, <1>3, <1>5, SameTrans
    <2> QED BY <1>5, <2>1 DEF v
  <1> QED BY <1>4, <1>5

\* It waits for full power, which CSR asks for.
LEMMA NeedyKept ==
  ASSUME PmcIInv, ~run.on, NEW w, NEW c, Bought(w, c), NEW high \in BOOLEAN,
         CsrNeedsPower(w, c.type),
         NEW u, Same(w, u),
         Call(RequestFullPower(u), [kind |-> "csr", cmd |-> c, high |-> high]),
         setup' = setup, left' \in [Op -> Nat]
  PROVE  PmcIInv'
  <1> DEFINE held == [kind |-> "csr", cmd |-> c, high |-> high]
             v == RequestFullPower(u)
             f == Finish(v, held)
  <1>1. /\ w \in Worlds /\ c \in Command /\ World \in Worlds
        /\ w.pmc = pmc /\ w.sme.pending = sme.pending
        /\ w.sme.active = sme.active /\ w.sme.csr = sme.csr
        /\ w.toPe = toPe /\ w.hdd = hdd
    BY CallStarts DEF Bought
  <1>2. u \in Worlds /\ u.pmc.state = pmc.state /\ u.pmc.bmpsQueued = pmc.bmpsQueued
    BY <1>1 DEF Same, Kept, Alike
  <1>3. /\ held \in Thens /\ held.kind = "csr" /\ held.cmd = c /\ held.high = high
    BY <1>1 DEF Thens, Kind
  <1>4. c.type \in CsrType /\ pmc.state # "FULL_POWER"
    BY <1>1 DEF CsrNeedsPower
  <1>5. IF pmc.state \in Saving
        THEN Issued(u, v, ExitOf[pmc.state]) /\ v.pmc.bmpsQueued = pmc.bmpsQueued
        ELSE Same(u, v)
    BY <1>2, RequestedIs
  <1>6. IF v.sme.pending # sme.pending
        THEN Becomes(v) /\ run' = [on |-> TRUE, then |-> held]
        ELSE Becomes(f) /\ run' = run
    BY DEF Call
  <1> HIDE DEF v
  <1>7. CASE pmc.state \in Saving
    <2> DEFINE t == ExitOf[pmc.state]
    <2>1. t \in Exit /\ t \in PmcType
      BY <1>7, ExitTypes, Apart
    <2>2. Issued(u, v, t) /\ v.pmc.bmpsQueued = pmc.bmpsQueued
      BY <1>5, <1>7
    <2> HIDE DEF t
    <2>3. Issued(w, v, t)
      BY <2>2, SameThenIssued
    <2>4. v \in Worlds
      BY <2>3 DEF Issued, Kept, Alike
    <2>5. v.sme.pending # sme.pending
      BY <1>1, <2>1, <2>3, <2>4, QueuesIs DEF Issued
    <2>6. Becomes(v) /\ run' = [on |-> TRUE, then |-> held]
      BY <1>6, <2>5
    <2> QED BY <1>4, <1>7, <2>1, <2>2, <2>3, <2>6, WokenKept
  <1>8. CASE pmc.state \notin Saving
    <2>1. Same(w, v)
      BY <1>5, <1>8, SameTrans
    <2>2. /\ v \in Worlds /\ v.sme = w.sme /\ v.pmc.state = pmc.state
          /\ v.pmc.bmpsQueued = pmc.bmpsQueued /\ v.pmc.full = pmc.full
          /\ v.pmc.imps = pmc.imps /\ v.pmc.bmps = pmc.bmps
          /\ v.hdd.pc = hdd.pc /\ v.hdd.full = hdd.full
          /\ v.toPe = toPe /\ v.link = w.link
          /\ "standby" \in v.pmc.waiting <=> "standby" \in pmc.waiting
      BY <1>1, <2>1 DEF Same, Kept, Alike
    <2>3. Becomes(f) /\ run' = run
      BY <1>1, <1>6, <2>2
    <2>4. /\ Alike(v, f) /\ f.pmc.state = v.pmc.state
          /\ f.pmc.bmpsQueued = v.pmc.bmpsQueued
          /\ f.hdd.full = v.hdd.full
          /\ f.sme.free = v.sme.free /\ f.sme.pending = v.sme.pending
          /\ f.sme.active = v.sme.active
          /\ f.pmc.full = v.pmc.full \cup {"csr"}
          /\ f.sme.csr = IF high THEN <<c>> \o v.sme.csr ELSE Append(v.sme.csr, c)
          /\ "standby" \in f.pmc.waiting <=> "standby" \in v.pmc.waiting
      BY <1>3, <2>2, FinishIs DEF Thens
    <2> HIDE DEF f
    <2>5. f \in Worlds
      BY <2>4 DEF Alike
    <2>6. World' = f
      BY <2>3, <2>5, BecomesIs
    <2>7. /\ pmc'.state = pmc.state /\ pmc'.bmpsQueued = pmc.bmpsQueued
          /\ pmc'.imps = pmc.imps /\ pmc'.bmps = pmc.bmps
          /\ "csr" \in pmc'.full
          /\ "standby" \in pmc.waiting => "standby" \in pmc'.waiting
          /\ toPe' = toPe /\ hdd'.pc = hdd.pc /\ hdd'.full = hdd.full /\ link' = w.link
      BY <2>2, <2>4, <2>6, WorldIs DEF Alike
    <2>8. /\ sme'.pending = sme.pending /\ sme'.active = sme.active
          /\ sme'.free = w.sme.free
          /\ sme'.csr = IF high THEN <<c>> \o sme.csr ELSE Append(sme.csr, c)
      BY <1>1, <2>2, <2>4, <2>6, WorldIs
    <2>9. sme.active # <<>>
      <3>1. pmc.state \in PmcState
        BY DEF PmcIInv, Base, TypeOK, PmcRecord
      <3>2. pmc.state \in Requesting
        BY <1>4, <1>8, <3>1, Apart
      <3>3. Len(sme.active) = 1
        BY <3>2 DEF PmcIInv, Base, RequestMatched
      <3>4. Len(<<>>) = 0
        OBVIOUS
      <3> QED BY ONLY <3>3, <3>4
    <2>10. \/ sme'.csr = <<c>> \o sme.csr
           \/ sme'.csr = Append(sme.csr, c)
      BY <2>8
    <2> QED BY <1>4, <2>3, <2>5, <2>6, <2>7, <2>8, <2>9, <2>10, HeldKept
  <1> QED BY <1>7, <1>8

LEMMA CsrSet ==
  ASSUME NEW w \in Worlds, NEW s \in Seq(Command)
  PROVE  LET v == [w EXCEPT !.sme.csr = s]
         IN  /\ v \in Worlds /\ v.pmc = w.pmc /\ v.toPe = w.toPe /\ v.hdd = w.hdd
             /\ v.link = w.link /\ v.sme.pending = w.sme.pending
             /\ v.sme.active = w.sme.active /\ v.sme.free = w.sme.free
             /\ v.sme.csr = s
  <1>1. [w EXCEPT !.sme.csr = s] = [w EXCEPT !.sme = [w.sme EXCEPT !.csr = s]]
    BY DEF Worlds
  <1>2. w.sme \in SmeRecord
    BY DEF Worlds
  <1> DEFINE r == [w.sme EXCEPT !.csr = s]
  <1>3. /\ r \in SmeRecord /\ r.pending = w.sme.pending /\ r.active = w.sme.active
        /\ r.free = w.sme.free /\ r.csr = s
    BY <1>2 DEF SmeRecord
  <1> HIDE DEF r
  <1>4. LET v == [w EXCEPT !.sme = r]
        IN  /\ v \in Worlds /\ v.pmc = w.pmc /\ v.toPe = w.toPe
            /\ v.hdd = w.hdd /\ v.link = w.link /\ v.sme = r
    BY <1>3 DEF Worlds
  <1> QED BY <1>1, <1>3, <1>4 DEF r

\* Others are held back, and it takes its place among them.
LEMMA BehindKept ==
  ASSUME PmcIInv, ~run.on, NEW w, NEW c, Bought(w, c), NEW high \in BOOLEAN,
         ~CsrNeedsPower(w, c.type), w.sme.csr # <<>>,
         Call([w EXCEPT !.sme.csr = IF high THEN <<c>> \o @ ELSE Append(@, c)], Nothing),
         setup' = setup, left' \in [Op -> Nat]
  PROVE  PmcIInv'
  <1> DEFINE s == IF high THEN <<c>> \o sme.csr ELSE Append(sme.csr, c)
             v == [w EXCEPT !.sme.csr = IF high THEN <<c>> \o @ ELSE Append(@, c)]
             f == Finish(v, Nothing)
  <1>1. /\ w \in Worlds /\ c \in Command
        /\ w.pmc = pmc /\ w.sme.pending = sme.pending
        /\ w.sme.active = sme.active /\ w.sme.csr = sme.csr
        /\ w.toPe = toPe /\ w.hdd = hdd
    BY DEF Bought
  <1>2. s \in Seq(Command)
    <2>1. sme.csr \in Seq(Command)
      BY ListTypes
    <2>2. <<c>> \o sme.csr \in Seq(Command) /\ Append(sme.csr, c) \in Seq(Command)
      BY <1>1, <2>1, ConsIs, AppendIs
    <2> QED BY <2>2
  <1>3. v = [w EXCEPT !.sme.csr = s]
    BY <1>1
  <1>4. \/ s = <<c>> \o sme.csr
        \/ s = Append(sme.csr, c)
    OBVIOUS
  <1> HIDE DEF s
  <1>5. /\ v \in Worlds /\ v.pmc = pmc /\ v.toPe = toPe /\ v.hdd = hdd /\ v.link = w.link
        /\ v.sme.pending = sme.pending /\ v.sme.active = sme.active
        /\ v.sme.free = w.sme.free /\ v.sme.csr = s
    <2>1. LET x == [w EXCEPT !.sme.csr = s]
          IN  /\ x \in Worlds /\ x.pmc = w.pmc /\ x.toPe = w.toPe /\ x.hdd = w.hdd
              /\ x.link = w.link /\ x.sme.pending = w.sme.pending
              /\ x.sme.active = w.sme.active /\ x.sme.free = w.sme.free
              /\ x.sme.csr = s
      BY <1>1, <1>2, CsrSet
    <2> HIDE DEF v
    <2> QED BY <1>1, <1>3, <2>1
  <1>6. Call(v, Nothing)
    OBVIOUS
  <1> HIDE DEF v
  <1>7. Becomes(f) /\ run' = run
    BY <1>5, <1>6 DEF Call
  <1>8. Nothing \in Thens /\ Nothing.kind = "none"
    BY AfterIs
  <1>9. /\ Alike(v, f) /\ f.pmc.state = v.pmc.state
        /\ f.pmc.bmpsQueued = v.pmc.bmpsQueued
        /\ f.hdd.full = v.hdd.full
        /\ f.sme.free = v.sme.free /\ f.sme.pending = v.sme.pending
        /\ f.sme.active = v.sme.active /\ f.sme.csr = v.sme.csr
        /\ "csr" \in f.pmc.full <=> "csr" \in v.pmc.full
        /\ "standby" \in f.pmc.waiting <=> "standby" \in v.pmc.waiting
    BY <1>5, <1>8, FinishIs DEF Thens
  <1> HIDE DEF f
  <1>10. f \in Worlds
    BY <1>9 DEF Alike
  <1>11. World' = f
    BY <1>7, <1>10, BecomesIs
  <1>12. "csr" \in pmc.full /\ pmc.state # "FULL_POWER"
    BY <1>1 DEF PmcIInv, Base, HeldBack
  <1>13. /\ pmc'.state = pmc.state /\ pmc'.bmpsQueued = pmc.bmpsQueued
         /\ pmc'.imps = pmc.imps /\ pmc'.bmps = pmc.bmps
         /\ "csr" \in pmc'.full
         /\ "standby" \in pmc.waiting => "standby" \in pmc'.waiting
         /\ toPe' = toPe /\ hdd'.pc = hdd.pc /\ hdd'.full = hdd.full /\ link' = w.link
         /\ sme'.pending = sme.pending /\ sme'.active = sme.active
         /\ sme'.free = w.sme.free /\ sme'.csr = s
    BY <1>5, <1>9, <1>11, <1>12, WorldIs DEF Alike
  <1>14. link' = link \/ sme.active # <<>>
    <2>1. CASE w.link = link
      BY <1>13, <2>1
    <2>2. CASE c.type = "disconnect"
      <3>1. c.type \in CsrType /\ c.type \in RoamType
        BY <2>2 DEF CsrType, RoamType
      <3>2. pmc.state = "REQUEST_FULL_POWER"
        BY <1>1, <1>12, <3>1 DEF CsrNeedsPower
      <3>3. pmc.state \in Requesting
        BY <3>2 DEF Requesting
      <3>4. Len(sme.active) = 1
        BY <3>3 DEF PmcIInv, Base, RequestMatched
      <3> QED BY <3>4
    <2> QED BY <2>1, <2>2 DEF Bought
  <1> QED BY <1>4, <1>7, <1>10, <1>11, <1>12, <1>13, <1>14, HeldKept

LEMMA CsrQueueKept ==
  ASSUME PmcIInv, ~run.on, NEW w, NEW c, Bought(w, c), NEW high \in BOOLEAN,
         high => c.type # "connect", CsrQueue(w, c, high),
         setup' = setup, left' \in [Op -> Nat]
  PROVE  PmcIInv'
  <1> DEFINE u == IF c.type = "disconnect" /\ w.pmc.state \notin {"REQUEST_IMPS", "IMPS"}
                  THEN Forget(w) ELSE w
             held == [kind |-> "csr", cmd |-> c, high |-> high]
  <1>1. w \in Worlds
    BY DEF Bought
  <1>2. Same(w, u)
    BY <1>1, ForgetSame, SmallChanges
  <1>3. IF CsrDropped(w, c.type) THEN Call(Release(w, c), Nothing)
        ELSE IF CsrNeedsPower(w, c.type) THEN Call(RequestFullPower(u), held)
        ELSE IF w.sme.csr = <<>> THEN Call(Push(w, c, high), Nothing)
        ELSE Call([w EXCEPT !.sme.csr = IF high THEN <<c>> \o @ ELSE Append(@, c)],
                  Nothing)
    BY DEF CsrQueue
  <1> HIDE DEF u
  <1>4. CASE CsrDropped(w, c.type)
    BY <1>3, <1>4, DroppedKept
  <1>5. CASE ~CsrDropped(w, c.type) /\ CsrNeedsPower(w, c.type)
    <2>1. Call(RequestFullPower(u), held)
      BY <1>3, <1>5
    <2> QED BY <1>2, <1>5, <2>1, NeedyKept
  <1>6. CASE /\ ~CsrDropped(w, c.type) /\ ~CsrNeedsPower(w, c.type)
             /\ w.sme.csr = <<>>
    BY <1>3, <1>6, PushedKept
  <1>7. CASE /\ ~CsrDropped(w, c.type) /\ ~CsrNeedsPower(w, c.type)
             /\ w.sme.csr # <<>>
    <2>1. Call([w EXCEPT !.sme.csr = IF high THEN <<c>> \o @ ELSE Append(@, c)], Nothing)
      BY <1>3, <1>7
    <2> QED BY <1>7, <2>1, BehindKept
  <1> QED BY <1>4, <1>5, <1>6, <1>7

\* There was a buffer; otherwise the call does nothing.
LEMMA BoughtIs ==
  ASSUME PmcIInv, ~run.on, sme.free # 0, NEW t \in SmeType,
         NEW u \in Worlds, u.pmc = pmc, u.sme = sme, u.toPe = toPe, u.hdd = hdd,
         u.link.connected = link.connected, u.link.waitKey => link.waitKey,
         u.link = link \/ (t = "disconnect" /\ ~u.link.waitKey)
  PROVE  Bought(TakeBuffer(u), NewCommand(u, t)) /\ NewCommand(u, t).type = t
  <1> DEFINE w == TakeBuffer(u)
             c == NewCommand(u, t)
  <1>1. sme.free \in Nat /\ sme.free > 0
    BY ListTypes
  <1>2. c \in Command /\ c.type = t /\ c.pooled
    BY <1>1, AppendTypes DEF NewCommand
  <1>3. /\ w \in Worlds
        /\ w.pmc = u.pmc /\ w.toPe = u.toPe /\ w.link = u.link /\ w.hdd = u.hdd
        /\ w.sme.free = sme.free - 1
        /\ w.sme.pending = u.sme.pending
        /\ w.sme.active = u.sme.active /\ w.sme.csr = u.sme.csr
    BY <1>1, TakeBufferIs
  <1>4. w.sme.free \in Nat /\ sme.free = w.sme.free + 1
    BY <1>1, <1>3
  <1> HIDE DEF w, c
  <1> QED BY <1>2, <1>3, <1>4 DEF Bought, w, c

LEMMA NothingDone ==
  ASSUME PmcIInv, UNCHANGED <<pmc, sme, toPe, link, hdd, run>>,
         setup' = setup, left' \in [Op -> Nat]
  PROVE  PmcIInv'
  <1>1. Same(World, World) /\ World \in Worlds
    BY CallStarts, SmallChanges
  <1>2. Calm(World, World)
    BY <1>1, SameCalm
  <1>3. Becomes(World) /\ run' = run
    BY WorldIs DEF Becomes
  <1> QED BY <1>2, <1>3, QuietKept

LEMMA CsrRequestStep ==
  ASSUME PmcIInv, NEW t \in CsrType, CsrRequest(t)
  PROVE  PmcIInv'
  <1> DEFINE u == IF t = "disconnect" THEN [World EXCEPT !.link.waitKey = FALSE]
                                      ELSE World
             w == TakeBuffer(u)
             c == NewCommand(u, t)
  <1>1. /\ World \in Worlds /\ left' \in [Op -> Nat] /\ setup' = setup
        /\ ~run.on /\ t \in SmeType
    <2>1. t \in Op /\ t \in SmeType
      BY DEF CsrType, Op, SmeType
    <2> QED BY <2>1, CallStarts DEF CsrRequest, Locked
  <1>2. IF sme.free = 0 THEN UNCHANGED <<pmc, sme, toPe, link, hdd, run>>
        ELSE CsrQueue(w, c, t = "setKey")
    BY DEF CsrRequest
  <1>3. CASE sme.free = 0
    BY <1>1, <1>2, <1>3, NothingDone
  <1>4. CASE sme.free # 0
    <2>1. /\ u \in Worlds /\ u.pmc = pmc /\ u.sme = sme /\ u.toPe = toPe /\ u.hdd = hdd
          /\ u.link.connected = link.connected
          /\ u.link.waitKey => link.waitKey
          /\ u.link = link \/ (t = "disconnect" /\ ~u.link.waitKey)
      BY <1>1, WorldIs DEF Worlds, LinkRecord
    <2> HIDE DEF u
    <2>2. Bought(w, c) /\ c.type = t
      BY <1>1, <1>4, <2>1, BoughtIs
    <2>3. CsrQueue(w, c, t = "setKey")
      BY <1>2, <1>4
    <2> HIDE DEF w, c
    <2> DEFINE high == t = "setKey"
    <2>4. /\ high \in BOOLEAN
          /\ high => c.type # "connect"
      BY <2>2
    <2>5. CsrQueue(w, c, high)
      BY <2>3
    <2> HIDE DEF high
    <2> QED BY <1>1, <2>2, <2>4, <2>5, CsrQueueKept
  <1> QED BY <1>3, <1>4

LEMMA SmeRequestStep ==
  ASSUME PmcIInv, NEW t \in {"roc", "addTs"}, SmeRequest(t)
  PROVE  PmcIInv'
  <1> DEFINE w == TakeBuffer(World)
             c == NewCommand(World, t)
  <1>1. /\ World \in Worlds /\ left' \in [Op -> Nat] /\ setup' = setup
        /\ ~run.on /\ t \in SmeType
    <2>1. t \in Op /\ t \in SmeType
      BY DEF Op, SmeType
    <2> QED BY <2>1, CallStarts DEF SmeRequest, Locked
  <1>2. IF sme.free = 0 THEN UNCHANGED <<pmc, sme, toPe, link, hdd, run>>
        ELSE IF t = "roc" THEN CsrQueue(w, c, FALSE) ELSE Call(Push(w, c, FALSE), Nothing)
    BY DEF SmeRequest
  <1>3. CASE sme.free = 0
    BY <1>1, <1>2, <1>3, NothingDone
  <1>4. CASE sme.free # 0
    <2>1. Bought(w, c)
      BY <1>1, <1>4, WorldIs, BoughtIs
    <2>2. CsrQueue(w, c, FALSE) \/ Call(Push(w, c, FALSE), Nothing)
      BY <1>2, <1>4
    <2> HIDE DEF w, c
    <2>3. CASE CsrQueue(w, c, FALSE)
      BY <1>1, <2>1, <2>3, CsrQueueKept
    <2>4. CASE Call(Push(w, c, FALSE), Nothing)
      BY <1>1, <2>1, <2>4, PushedKept
    <2> QED BY <2>2, <2>3, <2>4
  <1> QED BY <1>3, <1>4

-----------------------------------------------------------------------------
(***************************************************************************)
(* HDD.                                                                    *)
(***************************************************************************)
\* A call of HDD leaves the world as v: of the lists, no more than a command
\* of type t has been queued.
Steered(v, t) ==
  /\ v \in Worlds
  /\ v.pmc.state = pmc.state /\ v.pmc.bmpsQueued = pmc.bmpsQueued
  /\ "csr" \in v.pmc.full <=> "csr" \in pmc.full
  /\ v.toPe = toPe /\ v.link = link
  /\ t \in Exit \cup {"enterStandby"}
  /\ v.sme = sme \/ Queues(World, v, t)

\* It goes on behind the running of the queue, if there is something to run.
LEMMA SteeredBase ==
  ASSUME PmcIInv, ~run.on, NEW v, NEW t, Steered(v, t),
         NEW then \in Thens, then.kind # "csr", Call(v, then),
         setup' = setup, left' \in [Op -> Nat]
  PROVE  /\ Base'
         /\ pmc'.state = pmc.state
         /\ pmc'.imps = v.pmc.imps /\ pmc'.bmps = v.pmc.bmps
         /\ hdd'.pc = v.hdd.pc /\ hdd'.full = v.hdd.full
         /\ Queued("enterStandby")' => Queued("enterStandby") \/ t = "enterStandby"
         /\ ~Queued("enterStandby") /\ Single("enterStandby") => Single("enterStandby")'
         /\ Queued("enterStandby")' /\ then.kind = "standby" =>
              "standby" \in pmc'.waiting \/ run'.then.kind = "standby"
         /\ sme'.active = sme.active
         /\ sme'.free >= sme.free - 1
  <1>1. /\ v \in Worlds /\ World \in Worlds /\ t \in PmcType
        /\ t # "enterImps" /\ t # "enterBmps"
    BY CallStarts, Apart DEF Steered, PmcType, Enter, Exit
  <1>2. CASE v.sme = sme
    <2> DEFINE f == Finish(v, then)
    <2>1. Becomes(f) /\ run' = run
      BY <1>2 DEF Call
    <2>2. /\ Alike(v, f) /\ f.pmc.state = v.pmc.state
          /\ f.pmc.bmpsQueued = v.pmc.bmpsQueued
          /\ f.hdd.full = v.hdd.full
          /\ f.sme.free = v.sme.free /\ f.sme.pending = v.sme.pending
          /\ f.sme.active = v.sme.active /\ f.sme.csr = v.sme.csr
          /\ "csr" \in f.pmc.full <=> "csr" \in v.pmc.full
          /\ "standby" \in f.pmc.waiting <=>
               "standby" \in v.pmc.waiting \/ then.kind = "standby"
      BY <1>1, FinishIs DEF Thens
    <2> HIDE DEF f
    <2>3. World' = f /\ f \in Worlds
      BY <2>1, <2>2, BecomesIs DEF Alike
    <2>4. /\ pmc'.state = pmc.state /\ pmc'.bmpsQueued = pmc.bmpsQueued
          /\ "csr" \in pmc'.full <=> "csr" \in pmc.full
          /\ sme'.free = sme.free /\ sme'.pending = sme.pending
          /\ sme'.active = sme.active /\ sme'.csr = sme.csr
          /\ toPe' = toPe /\ link' = link
          /\ pmc'.imps = v.pmc.imps /\ pmc'.bmps = v.pmc.bmps
          /\ hdd'.pc = v.hdd.pc /\ hdd'.full = v.hdd.full
          /\ then.kind = "standby" => "standby" \in pmc'.waiting
      BY <1>2, <2>2, <2>3, WorldIs DEF Alike, Steered
    <2>5. Base'
      BY <2>1, <2>3, <2>4, QuietBase DEF PmcIInv
    <2>6. /\ Queued("enterStandby")' <=> Queued("enterStandby")
          /\ Single("enterStandby")' <=> Single("enterStandby")
      BY <2>4 DEF Queued, Single
    <2>7. sme'.free >= sme.free - 1
      BY <1>1, <2>4, WorldIs DEF Worlds, SmeRecord
    <2> QED BY <2>4, <2>5, <2>6, <2>7
  <1>3. CASE Queues(World, v, t)
    <2>1. /\ v.sme.pending # sme.pending
          /\ v.sme.active = sme.active
          /\ \A x : Has(v.sme.pending, x) <=> Has(sme.pending, x) \/ t = x
          /\ \A x : Once(v.sme.pending, x)
                      <=> Once(sme.pending, x) /\ ~(Has(sme.pending, x) /\ t = x)
      BY <1>1, <1>3, QueuesIs, WorldIs
    <2>2. Becomes(v) /\ run' = [on |-> TRUE, then |-> then]
      BY <2>1 DEF Call
    <2>3. World' = v
      BY <1>1, <2>2, BecomesIs
    <2>4. /\ pmc' = v.pmc /\ toPe' = v.toPe /\ link' = v.link /\ hdd' = v.hdd
          /\ sme'.pending = v.sme.pending /\ sme'.active = v.sme.active
      BY <2>3, WorldIs
    <2>5. Queues(World, World', t) /\ World' \in Worlds
      BY <1>1, <1>3, <2>3
    <2>6. /\ run'.on /\ run'.then = then
          /\ run' \in [on: BOOLEAN, then: Thens]
      BY <2>2
    <2>7. Calls'
      BY <2>6 DEF Calls, Thens
    <2>8. run.then = Nothing
      BY CallStarts
    <2>9. BuffersKept'
      BY <1>1, <2>5, <2>6, <2>8, IssueBuffers DEF PmcIInv
    <2>10. /\ pmc'.state = pmc.state /\ pmc'.bmpsQueued = pmc.bmpsQueued
           /\ "csr" \in pmc'.full <=> "csr" \in pmc.full
           /\ toPe' = toPe /\ link' = link
      BY <2>4 DEF Steered
    <2>11. Base'
      BY <1>1, <2>5, <2>6, <2>7, <2>9, <2>10, IssueBase DEF PmcIInv
    <2>12. /\ Queued("enterStandby")' => Queued("enterStandby") \/ t = "enterStandby"
           /\ ~Queued("enterStandby") /\ Single("enterStandby") => Single("enterStandby")'
      BY <2>1, <2>4 DEF Queued, Single
    <2>13. sme'.active = sme.active /\ sme'.free >= sme.free - 1
      <3>1. sme.free \in Nat
        BY <1>1, WorldIs DEF Worlds, SmeRecord
      <3> QED BY <2>1, <2>3, <2>4, <2>5, <3>1, WorldIs DEF Queues
    <2> QED BY <2>4, <2>6, <2>10, <2>11, <2>12, <2>13
  <1> QED BY <1>2, <1>3 DEF Steered

\* HDD does so where no standby is asked for, or asks for it now.
LEMMA SteeredKept ==
  ASSUME PmcIInv, ~run.on, NEW v, NEW t, Steered(v, t),
         NEW then \in Thens, then.kind # "csr", Call(v, then),
         v.hdd.pc \in {"off", "full", "ask", "standby"} => ~v.pmc.imps /\ ~v.pmc.bmps,
         ~setup.late =>
           /\ v.hdd.pc = "full" /\ v.hdd.full => pmc.state = "FULL_POWER"
           /\ v.hdd.pc = "ask" => pmc.state = "FULL_POWER"
           /\ ~Queued("enterStandby")
           /\ t = "enterStandby" => /\ v.hdd.pc = "standby" /\ then.kind = "standby"
                                    /\ pmc.state = "FULL_POWER",
         setup' = setup, left' \in [Op -> Nat]
  PROVE  PmcIInv'
  <1>1. /\ Base'
        /\ pmc'.state = pmc.state
        /\ pmc'.imps = v.pmc.imps /\ pmc'.bmps = v.pmc.bmps
        /\ hdd'.pc = v.hdd.pc /\ hdd'.full = v.hdd.full
        /\ Queued("enterStandby")' => Queued("enterStandby") \/ t = "enterStandby"
        /\ ~Queued("enterStandby") /\ Single("enterStandby") => Single("enterStandby")'
        /\ Queued("enterStandby")' /\ then.kind = "standby" =>
             "standby" \in pmc'.waiting \/ run'.then.kind = "standby"
        /\ sme'.active = sme.active
        /\ sme'.free >= sme.free - 1
    BY SteeredBase
  <1>2. ~setup.late => Single("enterStandby")
    BY DEF PmcIInv, Suspending
  <1>3. ASSUME ~setup.late
        PROVE  /\ hdd'.pc = "full" /\ hdd'.full => pmc'.state = "FULL_POWER"
               /\ hdd'.pc = "ask" => pmc'.state = "FULL_POWER"
               /\ Queued("enterStandby")' =>
                    /\ hdd'.pc = "standby"
                    /\ "standby" \in pmc'.waiting \/ run'.then.kind = "standby"
               /\ Single("enterStandby")'
    BY <1>1, <1>2, <1>3
  <1>4. Suspending'
    BY <1>1, <1>3 DEF Suspending
  <1>5. Fed'
    <2> SUFFICES ASSUME Ample, Has(sme'.pending, "enterStandby")
                 PROVE  /\ pmc'.state = "FULL_POWER"
                        /\ sme'.active = <<>> => sme'.free > 0
      BY DEF Fed, Ample
    <2>1. pmc.state = "FULL_POWER"
      BY <1>1 DEF Ample, Queued
    <2>2. ASSUME sme.active = <<>> PROVE sme'.free > 0
      <3>1. sme.pending = <<>>
        BY <2>2 DEF PmcIInv, Base, QueueServed, Startable, Connection, Ample
      <3>2. sme.csr = <<>>
        BY <2>1 DEF PmcIInv, Base, HeldBack
      <3>3. run.then = Nothing /\ Nothing.kind = "none"
        BY CallStarts, AfterIs
      <3>4. sme.free + 0 + 0 + 0 + 0 = setup.pool
        BY <2>2, <3>1, <3>2, <3>3, EmptyIs DEF PmcIInv, Base, BuffersKept
      <3>5. sme.free \in Nat /\ sme'.free \in Nat
        BY <1>1 DEF PmcIInv, Base, TypeOK, SmeRecord
      <3>6. sme.free >= 2
        BY <3>4, <3>5 DEF Ample
      <3> QED BY <1>1, <3>5, <3>6
    <2> QED BY <1>1, <2>1, <2>2
  <1> QED BY <1>1, <1>4, <1>5 DEF PmcIInv

\* HDD changes only what it keeps itself, or enables and disables the power
\* saves.
LEMMA SetIs ==
  ASSUME NEW u \in Worlds, u.pmc.state = pmc.state, u.pmc.bmpsQueued = pmc.bmpsQueued,
         "csr" \in u.pmc.full <=> "csr" \in pmc.full,
         u.toPe = toPe, u.link = link, u.sme = sme
  PROVE  Steered(u, "exitImps")
  BY DEF Steered, Exit

LEMMA EnabledIs ==
  ASSUME NEW w \in Worlds, NEW b \in BOOLEAN
  PROVE  LET v == Enabled(w, b)
         IN  /\ v \in Worlds /\ v.pmc.state = w.pmc.state
             /\ v.pmc.bmpsQueued = w.pmc.bmpsQueued /\ v.pmc.full = w.pmc.full
             /\ v.toPe = w.toPe /\ v.link = w.link /\ v.sme = w.sme
             /\ v.pmc.imps = b /\ v.pmc.bmps = b /\ v.hdd = w.hdd
  BY DEF Enabled, Worlds, PmcRecord

\* Where HDD is.
HddPc == {"idle", "off", "full", "ask", "standby", "resume"}

LEMMA FlagSet ==
  ASSUME NEW w \in Worlds, NEW b \in BOOLEAN
  PROVE  /\ LET v == [w EXCEPT !.hdd.full = b]
            IN  /\ v \in Worlds /\ v.pmc = w.pmc /\ v.sme = w.sme /\ v.toPe = w.toPe
                /\ v.link = w.link /\ v.hdd.pc = w.hdd.pc /\ v.hdd.full = b
         /\ LET v == [w EXCEPT !.hdd.standby = b]
            IN  /\ v \in Worlds /\ v.pmc = w.pmc /\ v.sme = w.sme /\ v.toPe = w.toPe
                /\ v.link = w.link /\ v.hdd.pc = w.hdd.pc /\ v.hdd.full = w.hdd.full
         /\ LET v == [w EXCEPT !.hdd.ps = b]
            IN  /\ v \in Worlds /\ v.pmc = w.pmc /\ v.sme = w.sme /\ v.toPe = w.toPe
                /\ v.link = w.link /\ v.hdd.pc = w.hdd.pc /\ v.hdd.full = w.hdd.full
  BY DEF Worlds, HddRecord

LEMMA PcSet ==
  ASSUME NEW w \in Worlds, NEW pc \in HddPc
  PROVE  LET v == [w EXCEPT !.hdd.pc = pc]
         IN  /\ v \in Worlds /\ v.pmc = w.pmc /\ v.sme = w.sme /\ v.toPe = w.toPe
             /\ v.link = w.link /\ v.hdd.pc = pc /\ v.hdd.full = w.hdd.full
  BY DEF Worlds, HddRecord, HddPc

LEMMA SuspendStep ==
  ASSUME PmcIInv, Suspend
  PROVE  PmcIInv'
  <1> DEFINE u == Enabled(World, FALSE)
             v == [u EXCEPT !.hdd.pc = "off"]
  <1>1. /\ World \in Worlds /\ left' \in [Op -> Nat] /\ setup' = setup
        /\ ~run.on /\ hdd.pc = "idle"
    BY CallStarts DEF Suspend, Locked, Op
  <1>2. Call(v, Nothing)
    BY DEF Suspend
  <1>3. /\ v \in Worlds /\ v.pmc.state = pmc.state
        /\ v.pmc.bmpsQueued = pmc.bmpsQueued /\ v.pmc.full = pmc.full
        /\ v.toPe = toPe /\ v.link = link /\ v.sme = sme
        /\ ~v.pmc.imps /\ ~v.pmc.bmps /\ v.hdd.pc = "off"
    <2>1. /\ u \in Worlds /\ u.pmc.state = pmc.state
          /\ u.pmc.bmpsQueued = pmc.bmpsQueued /\ u.pmc.full = pmc.full
          /\ u.toPe = toPe /\ u.link = link /\ u.sme = sme
          /\ ~u.pmc.imps /\ ~u.pmc.bmps
      BY <1>1, EnabledIs, WorldIs
    <2> HIDE DEF u
    <2>2. "off" \in HddPc
      BY DEF HddPc
    <2> QED BY <2>1, <2>2, PcSet
  <1> HIDE DEF v
  <1>4. Steered(v, "exitImps")
    BY <1>3, SetIs
  <1>5. ~setup.late => ~Queued("enterStandby")
    BY <1>1 DEF PmcIInv, Suspending
  <1> QED BY <1>1, <1>2, <1>3, <1>4, <1>5, AfterIs, SteeredKept

\* The suspend is over where no standby is asked for.
LEMMA EndSuspendStep ==
  ASSUME PmcIInv, ~run.on, setup' = setup, left' \in [Op -> Nat],
         NEW w \in Worlds, w.pmc = pmc, w.sme = sme, w.toPe = toPe, w.link = link,
         EndSuspend(w), ~setup.late => ~Queued("enterStandby")
  PROVE  PmcIInv'
  <1> DEFINE u == Enabled(w, TRUE)
             v == [u EXCEPT !.hdd.pc = "idle"]
  <1>2. Call(v, Nothing)
    BY DEF EndSuspend
  <1>3. /\ v \in Worlds /\ v.pmc.state = pmc.state
        /\ v.pmc.bmpsQueued = pmc.bmpsQueued /\ v.pmc.full = pmc.full
        /\ v.toPe = toPe /\ v.link = link /\ v.sme = sme /\ v.hdd.pc = "idle"
    <2>1. /\ u \in Worlds /\ u.pmc.state = pmc.state
          /\ u.pmc.bmpsQueued = pmc.bmpsQueued /\ u.pmc.full = pmc.full
          /\ u.toPe = toPe /\ u.link = link /\ u.sme = sme
      BY EnabledIs
    <2> HIDE DEF u
    <2>2. "idle" \in HddPc
      BY DEF HddPc
    <2> QED BY <2>1, <2>2, PcSet
  <1> HIDE DEF v
  <1>4. Steered(v, "exitImps")
    BY <1>3, SetIs
  <1> QED BY <1>2, <1>3, <1>4, AfterIs, SteeredKept

\* HDD has asked for full power from a power state, or from another request.
LEMMA AskedSteered ==
  ASSUME PmcIInv, NEW pc \in {"full", "resume"}
  PROVE  LET w == [Forget(World) EXCEPT !.hdd.full = FALSE]
             v == [RequestFullPower(w) EXCEPT !.hdd.pc = pc]
         IN  /\ \E t \in Exit : Steered(v, t)
             /\ v.hdd.pc = pc /\ ~v.hdd.full
             /\ v.pmc.imps = pmc.imps /\ v.pmc.bmps = pmc.bmps
  <1> DEFINE u == Forget(World)
             w == [u EXCEPT !.hdd.full = FALSE]
             x == RequestFullPower(w)
             v == [x EXCEPT !.hdd.pc = pc]
  <1>1. World \in Worlds /\ pc \in HddPc
    BY CallStarts DEF HddPc
  <1>2. Same(World, u) /\ u \in Worlds
    BY <1>1, ForgetSame, SameIs
  <1> HIDE DEF u
  <1>3. /\ w \in Worlds /\ w.pmc = u.pmc /\ w.sme = u.sme /\ w.toPe = u.toPe
        /\ w.link = u.link /\ ~w.hdd.full
    BY <1>2, FlagSet
  <1> HIDE DEF w
  <1>4. /\ w.pmc.state = pmc.state /\ w.pmc.bmpsQueued = pmc.bmpsQueued
        /\ w.pmc.full = pmc.full /\ w.pmc.imps = pmc.imps /\ w.pmc.bmps = pmc.bmps
        /\ w.sme = sme /\ w.toPe = toPe /\ w.link = link
    BY <1>2, <1>3, WorldIs DEF Same, Kept, Alike
  <1>5. IF w.pmc.state \in Saving
        THEN Issued(w, x, ExitOf[w.pmc.state]) /\ x.pmc.bmpsQueued = w.pmc.bmpsQueued
        ELSE Same(w, x)
    BY <1>3, RequestedIs
  <1> HIDE DEF x
  <1>6. /\ Kept(w, x) /\ x.pmc.bmpsQueued = w.pmc.bmpsQueued
        /\ \E t \in Exit : x.sme = w.sme \/ Queues(w, x, t)
    <2>1. CASE w.pmc.state \in Saving
      BY <1>5, <2>1, ExitTypes DEF Issued
    <2>2. CASE w.pmc.state \notin Saving
      <3>1. "exitImps" \in Exit
        BY DEF Exit
      <3> QED BY <1>5, <2>2, <3>1 DEF Same
    <2> QED BY <2>1, <2>2
  <1>7. /\ x \in Worlds /\ x.pmc.state = pmc.state /\ x.pmc.bmpsQueued = pmc.bmpsQueued
        /\ x.pmc.full = pmc.full /\ x.toPe = toPe /\ x.link = link /\ ~x.hdd.full
        /\ x.pmc.imps = pmc.imps /\ x.pmc.bmps = pmc.bmps
    BY <1>3, <1>4, <1>6 DEF Kept, Alike
  <1>8. /\ v \in Worlds /\ v.pmc = x.pmc /\ v.sme = x.sme /\ v.toPe = x.toPe
        /\ v.link = x.link /\ v.hdd.pc = pc /\ v.hdd.full = x.hdd.full
    BY <1>1, <1>7, PcSet
  <1> HIDE DEF v
  <1>9. PICK t \in Exit : x.sme = w.sme \/ Queues(w, x, t)
    BY <1>6
  <1>10. v.sme = sme \/ Queues(World, v, t)
    BY <1>4, <1>8, <1>9, WorldIs DEF Queues
  <1>11. Steered(v, t)
    BY <1>7, <1>8, <1>10 DEF Steered
  <1> QED BY <1>7, <1>8, <1>11 DEF v, x, w, u

LEMMA AskFullPowerStep ==
  ASSUME PmcIInv, AskFullPower
  PROVE  PmcIInv'
  <1> DEFINE u == Forget(World)
             w == [u EXCEPT !.hdd.full = FALSE]
             a == [w EXCEPT !.hdd.pc = "ask"]
             f == [RequestFullPower(w) EXCEPT !.hdd.pc = "full"]
  <1>1. /\ World \in Worlds /\ left' \in [Op -> Nat] /\ setup' = setup
        /\ ~run.on /\ hdd.pc = "off"
    BY CallStarts DEF AskFullPower, Locked
  <1>2. /\ ~pmc.imps /\ ~pmc.bmps
        /\ ~setup.late => ~Queued("enterStandby")
    BY <1>1 DEF PmcIInv, Suspending
  <1>3. IF pmc.state = "FULL_POWER" THEN Call(a, Nothing) ELSE Call(f, After("hdd"))
    BY DEF AskFullPower
  <1>4. /\ Nothing \in Thens /\ Nothing.kind # "csr"
        /\ After("hdd") \in Thens /\ After("hdd").kind # "csr"
    BY AfterIs DEF Kind
  <1>5. CASE pmc.state = "FULL_POWER"
    <2>1. Call(a, Nothing)
      BY <1>3, <1>5
    <2>2. Same(World, u) /\ u \in Worlds
      BY <1>1, ForgetSame, SameIs
    <2> HIDE DEF u
    <2>3. /\ w \in Worlds /\ w.pmc = u.pmc /\ w.sme = u.sme /\ w.toPe = u.toPe
          /\ w.link = u.link
      BY <2>2, FlagSet
    <2> HIDE DEF w
    <2>4. "ask" \in HddPc
      BY DEF HddPc
    <2>5. /\ a \in Worlds /\ a.pmc = w.pmc /\ a.sme = w.sme /\ a.toPe = w.toPe
          /\ a.link = w.link /\ a.hdd.pc = "ask"
      BY <2>3, <2>4, PcSet
    <2> HIDE DEF a
    <2>6. /\ a.pmc.state = pmc.state /\ a.pmc.bmpsQueued = pmc.bmpsQueued
          /\ a.pmc.full = pmc.full /\ a.pmc.imps = pmc.imps /\ a.pmc.bmps = pmc.bmps
          /\ a.sme = sme /\ a.toPe = toPe /\ a.link = link
      BY <2>2, <2>3, <2>5, WorldIs DEF Same, Kept, Alike
    <2>7. Steered(a, "exitImps")
      BY <2>5, <2>6, SetIs
    <2> QED BY <1>1, <1>2, <1>4, <1>5, <2>1, <2>5, <2>6, <2>7, SteeredKept
  <1>6. CASE pmc.state # "FULL_POWER"
    <2>1. Call(f, After("hdd"))
      BY <1>3, <1>6
    <2>2. /\ \E t \in Exit : Steered(f, t)
          /\ f.hdd.pc = "full" /\ ~f.hdd.full
          /\ f.pmc.imps = pmc.imps /\ f.pmc.bmps = pmc.bmps
      BY AskedSteered
    <2> HIDE DEF f
    <2>3. PICK t \in Exit : Steered(f, t)
      BY <2>2
    <2>4. t # "enterStandby"
      BY Apart
    <2> QED BY <1>1, <1>2, <1>4, <2>1, <2>2, <2>3, <2>4, SteeredKept
  <1> QED BY <1>5, <1>6

LEMMA FullPowerGivenStep ==
  ASSUME PmcIInv, FullPowerGiven
  PROVE  PmcIInv'
  <1> DEFINE a == [World EXCEPT !.hdd.pc = "ask"]
  <1>1. /\ World \in Worlds /\ left' \in [Op -> Nat] /\ setup' = setup
        /\ ~run.on /\ hdd.pc = "full"
    BY CallStarts DEF FullPowerGiven, Waited, Locked
  <1>2. /\ ~pmc.imps /\ ~pmc.bmps
        /\ ~setup.late => ~Queued("enterStandby")
    BY <1>1 DEF PmcIInv, Suspending
  <1>3. CASE hdd.full
    <2>1. Call(a, Nothing)
      BY <1>3 DEF FullPowerGiven
    <2>2. "ask" \in HddPc
      BY DEF HddPc
    <2>3. /\ a \in Worlds /\ a.pmc = pmc /\ a.sme = sme /\ a.toPe = toPe
          /\ a.link = link /\ a.hdd.pc = "ask"
      BY <1>1, <2>2, PcSet, WorldIs
    <2> HIDE DEF a
    <2>4. Steered(a, "exitImps")
      BY <2>3, SetIs
    <2>5. ~setup.late => pmc.state = "FULL_POWER"
      BY <1>1, <1>3 DEF PmcIInv, Suspending
    <2> QED BY <1>1, <1>2, <2>1, <2>3, <2>4, <2>5, AfterIs, SteeredKept
  <1>4. CASE ~hdd.full
    <2>1. setup.late /\ EndSuspend(World)
      BY <1>4 DEF FullPowerGiven
    <2> QED BY <1>1, <2>1, WorldIs, EndSuspendStep
  <1> QED BY <1>3, <1>4

LEMMA AskStandbyStep ==
  ASSUME PmcIInv, AskStandby
  PROVE  PmcIInv'
  <1> DEFINE w == [World EXCEPT !.hdd.standby = FALSE]
             p == [w EXCEPT !.hdd.ps = TRUE]
             x == [w EXCEPT !.pmc.traffic = FALSE]
             y == Issue(x, "enterStandby")
             v == [y EXCEPT !.hdd.pc = "standby"]
  <1>1. /\ World \in Worlds /\ left' \in [Op -> Nat] /\ setup' = setup
        /\ ~run.on /\ hdd.pc = "ask"
    BY CallStarts DEF AskStandby, Locked
  <1>2. /\ ~pmc.imps /\ ~pmc.bmps
        /\ ~setup.late => ~Queued("enterStandby") /\ pmc.state = "FULL_POWER"
    BY <1>1 DEF PmcIInv, Suspending
  <1>3. IF pmc.state = "FULL_POWER" THEN Call(v, After("standby"))
        ELSE EndSuspend(p) \/ EndSuspend(w)
    BY DEF AskStandby
  <1>4. /\ w \in Worlds /\ w.pmc = pmc /\ w.sme = sme /\ w.toPe = toPe
        /\ w.link = link
    BY <1>1, FlagSet, WorldIs
  <1> HIDE DEF w
  <1>5. /\ p \in Worlds /\ p.pmc = pmc /\ p.sme = sme /\ p.toPe = toPe
        /\ p.link = link
    BY <1>4, FlagSet
  <1> HIDE DEF p
  <1>6. CASE pmc.state # "FULL_POWER"
    BY <1>1, <1>2, <1>3, <1>4, <1>5, <1>6, EndSuspendStep
  <1>7. CASE pmc.state = "FULL_POWER"
    <2>1. Call(v, After("standby"))
      BY <1>3, <1>7
    <2>2. "enterStandby" \in PmcType /\ "standby" \in HddPc /\ "standby" \in Kind \ {"csr"}
      BY DEF PmcType, Enter, HddPc, Kind
    <2>3. Same(w, x) /\ x \in Worlds
      BY <1>4, SmallChanges, SameIs
    <2> HIDE DEF x
    <2>4. Issued(x, y, "enterStandby") /\ y.pmc = x.pmc
      BY <2>2, <2>3, IssueIs
    <2> HIDE DEF y
    <2>5. y \in Worlds
      BY <2>4 DEF Issued, Kept, Alike
    <2>6. /\ v \in Worlds /\ v.pmc = y.pmc /\ v.sme = y.sme /\ v.toPe = y.toPe
          /\ v.link = y.link /\ v.hdd.pc = "standby"
      BY <2>2, <2>5, PcSet
    <2> HIDE DEF v
    <2>7. /\ v.pmc.state = pmc.state /\ v.pmc.bmpsQueued = pmc.bmpsQueued
          /\ v.pmc.full = pmc.full /\ v.pmc.imps = pmc.imps /\ v.pmc.bmps = pmc.bmps
          /\ v.toPe = toPe /\ v.link = link
      BY <1>4, <2>3, <2>4, <2>6 DEF Same, Issued, Kept, Alike
    <2>8. Queues(World, v, "enterStandby")
      BY <1>4, <2>3, <2>4, <2>6, WorldIs DEF Same, Issued, Queues
    <2>9. Steered(v, "enterStandby")
      BY <2>6, <2>7, <2>8 DEF Steered
    <2>10. After("standby") \in Thens /\ After("standby").kind = "standby"
      BY <2>2, AfterIs
    <2> QED BY <1>1, <1>2, <2>1, <2>6, <2>7, <2>9, <2>10, SteeredKept
  <1> QED BY <1>6, <1>7

LEMMA StandbyGivenStep ==
  ASSUME PmcIInv, StandbyGiven
  PROVE  PmcIInv'
  <1>1. /\ World \in Worlds /\ left' \in [Op -> Nat] /\ setup' = setup
        /\ ~run.on /\ run.then = Nothing /\ EndSuspend(World)
        /\ "standby" \notin pmc.waiting \/ setup.late
    BY CallStarts DEF StandbyGiven, Waited, Locked
  <1>2. ~setup.late => ~Queued("enterStandby")
    BY <1>1, AfterIs DEF PmcIInv, Suspending
  <1> QED BY <1>1, <1>2, WorldIs, EndSuspendStep

LEMMA ResumeStep ==
  ASSUME PmcIInv, Resume
  PROVE  PmcIInv'
  <1> DEFINE u == Forget(World)
             w == [u EXCEPT !.hdd.full = FALSE]
             a == [w EXCEPT !.hdd.ps = FALSE]
             f == [RequestFullPower(w) EXCEPT !.hdd.pc = "resume"]
  <1>1. /\ World \in Worlds /\ left' \in [Op -> Nat] /\ setup' = setup
        /\ ~run.on /\ hdd.pc = "idle"
    BY CallStarts DEF Resume, Locked, Op
  <1>2. ~setup.late => ~Queued("enterStandby")
    BY <1>1 DEF PmcIInv, Suspending
  <1>3. IF pmc.state = "FULL_POWER" THEN Call(a, Nothing) ELSE Call(f, After("hdd"))
    BY DEF Resume
  <1>4. /\ Nothing \in Thens /\ Nothing.kind # "csr"
        /\ After("hdd") \in Thens /\ After("hdd").kind # "csr"
    BY AfterIs DEF Kind
  <1>5. CASE pmc.state = "FULL_POWER"
    <2>1. Call(a, Nothing)
      BY <1>3, <1>5
    <2>2. Same(World, u) /\ u \in Worlds
      BY <1>1, ForgetSame, SameIs
    <2> HIDE DEF u
    <2>3. /\ w \in Worlds /\ w.pmc = u.pmc /\ w.sme = u.sme /\ w.toPe = u.toPe
          /\ w.link = u.link /\ w.hdd.pc = u.hdd.pc
      BY <2>2, FlagSet
    <2> HIDE DEF w
    <2>5. /\ a \in Worlds /\ a.pmc = w.pmc /\ a.sme = w.sme /\ a.toPe = w.toPe
          /\ a.link = w.link /\ a.hdd.pc = w.hdd.pc
      BY <2>3, FlagSet
    <2> HIDE DEF a
    <2>6. /\ a.pmc.state = pmc.state /\ a.pmc.bmpsQueued = pmc.bmpsQueued
          /\ a.pmc.full = pmc.full /\ a.hdd.pc = "idle"
          /\ a.sme = sme /\ a.toPe = toPe /\ a.link = link
      BY <1>1, <2>2, <2>3, <2>5, WorldIs DEF Same, Kept, Alike
    <2>7. Steered(a, "exitImps")
      BY <2>5, <2>6, SetIs
    <2> QED BY <1>1, <1>2, <1>4, <2>1, <2>6, <2>7, SteeredKept
  <1>6. CASE pmc.state # "FULL_POWER"
    <2>1. Call(f, After("hdd"))
      BY <1>3, <1>6
    <2>2. (\E t \in Exit : Steered(f, t)) /\ f.hdd.pc = "resume"
      BY AskedSteered
    <2> HIDE DEF f
    <2>3. PICK t \in Exit : Steered(f, t)
      BY <2>2
    <2>4. t # "enterStandby"
      BY Apart
    <2> QED BY <1>1, <1>2, <1>4, <2>1, <2>2, <2>3, <2>4, SteeredKept
  <1> QED BY <1>5, <1>6

LEMMA ResumedStep ==
  ASSUME PmcIInv, Resumed
  PROVE  PmcIInv'
  <1> DEFINE a == [World EXCEPT !.hdd.pc = "idle"]
  <1>1. /\ World \in Worlds /\ left' \in [Op -> Nat] /\ setup' = setup
        /\ ~run.on /\ hdd.pc = "resume" /\ Call(a, Nothing)
    BY CallStarts DEF Resumed, Waited, Locked
  <1>2. ~setup.late => ~Queued("enterStandby")
    BY <1>1 DEF PmcIInv, Suspending
  <1>3. "idle" \in HddPc
    BY DEF HddPc
  <1>4. /\ a \in Worlds /\ a.pmc = pmc /\ a.sme = sme /\ a.toPe = toPe
        /\ a.link = link /\ a.hdd.pc = "idle"
    BY <1>1, <1>3, PcSet, WorldIs
  <1> HIDE DEF a
  <1>5. Steered(a, "exitImps")
    BY <1>4, SetIs
  <1> QED BY <1>1, <1>2, <1>4, <1>5, AfterIs, SteeredKept

-----------------------------------------------------------------------------
(***************************************************************************)
(* The theorems.                                                           *)
(***************************************************************************)
LEMMA InitIInv == Init => PmcIInv
  <1> SUFFICES ASSUME Init PROVE PmcIInv
    OBVIOUS
  <1>1. /\ setup.pool \in Nat /\ setup.connected \in BOOLEAN /\ setup.auto \in BOOLEAN
        /\ setup.ops \in [Op -> Nat]
    BY SetupsAssumption DEF Init
  <1>2. /\ sme.pending = <<>> /\ sme.active = <<>> /\ sme.csr = <<>>
        /\ sme.free = setup.pool
    BY DEF Init
  <1>3. Nothing \in Thens /\ Nothing.kind = "none" /\ run.then = Nothing /\ ~run.on
    BY AfterIs DEF Init
  <1>4. /\ pmc.state = "FULL_POWER" /\ ~pmc.bmpsQueued /\ pmc.full = {}
        /\ toPe = <<>> /\ link.waitKey = FALSE /\ hdd.pc = "idle"
    BY DEF Init
  <1>5. TypeOK
    <2>1. pmc \in PmcRecord
      BY <1>1 DEF Init, PmcRecord, PmcState
    <2>2. sme \in SmeRecord
      BY <1>1, EmptyIs DEF Init, SmeRecord
    <2>3. toPe \in Seq(PmcType)
      BY DEF Init
    <2>4. link \in LinkRecord /\ hdd \in HddRecord
      BY <1>1 DEF Init, LinkRecord, HddRecord
    <2>5. run.on \in BOOLEAN /\ run.then.cmd \in Command /\ left \in [Op -> Nat]
      BY <1>1, <1>3 DEF Init, Thens
    <2> QED BY <2>1, <2>2, <2>3, <2>4, <2>5 DEF TypeOK
  <1>6. Len(sme.active) <= 1 /\ Len(sme.active) = 0
    BY <1>2
  <1>7. Calls
    BY <1>3 DEF Calls, Init, Thens
  <1>8. RequestMatched
    BY <1>4, <1>6, Apart DEF RequestMatched
  <1>9. RunsInFullPower
    <2>1. ToSet(sme.active) = {}
      BY <1>2 DEF ToSet
    <2> QED BY <2>1 DEF RunsInFullPower
  <1>10. BuffersKept
    BY <1>1, <1>2, <1>3, EmptyIs DEF BuffersKept
  <1>11. HeldBack
    BY <1>2, <1>4, EmptyIs DEF HeldBack
  <1>12. Connection
    BY <1>4 DEF Connection
  <1>13. QueueServed
    BY <1>2 DEF QueueServed, Startable
  <1>14. ImpsApart
    BY <1>2, EmptyIs DEF ImpsApart
  <1>15. \A t : ~Queued(t) /\ Single(t)
    BY <1>2, EmptyIs DEF Queued, Single
  <1>16. BmpsRequested
    BY <1>2, <1>4, <1>15, EmptyIs DEF BmpsRequested
  <1>17. Suspending
    BY <1>4, <1>15 DEF Suspending
  <1>18. Fed
    BY <1>2, EmptyIs DEF Fed
  <1> QED BY <1>5, <1>6, <1>7, <1>8, <1>9, <1>10, <1>11, <1>12, <1>13, <1>14,
             <1>16, <1>17, <1>18 DEF PmcIInv, Base

LEMMA NextIInv ==
  ASSUME PmcIInv, setup \in Setups, ~StandbyStarved, [Next]_vars
  PROVE  PmcIInv'
  <1>1. CASE Requests
    BY <1>1, CsrRequestStep, SmeRequestStep, RequestImpsStep, RequestBmpsStep,
       StartUapsdStep, StopUapsdStep, EnterWowlStep, ExitWowlStep, RequestFullStep
       DEF Requests
  <1>2. CASE Timers
    BY <1>2, TrafficTimerStep, ImpsTimerStep, KeyTimeoutStep DEF Timers
  <1>3. CASE Queue
    BY <1>3, ProcessQueueStep, EndQueueStep DEF Queue
  <1>4. CASE Hdd
    BY <1>4, SuspendStep, AskFullPowerStep, FullPowerGivenStep, AskStandbyStep,
       StandbyGivenStep, ResumeStep, ResumedStep DEF Hdd
  <1>5. CASE PeLeavesBmps
    BY <1>5, PeLeavesBmpsStep
  <1>6. ASSUME NEW ok \in BOOLEAN, PeAnswers(ok) \/ Complete(ok)
        PROVE  PmcIInv'
    BY <1>6, PeAnswersStep, CompleteStep
  <1>7. CASE UNCHANGED vars
    <2>1. /\ UNCHANGED <<pmc, sme, toPe, link, hdd, run>>
          /\ UNCHANGED quota
      BY <1>7 DEF vars, quota
    <2> QED BY <2>1, CallStarts, NothingDone
  <1> QED BY <1>1, <1>2, <1>3, <1>4, <1>5, <1>6, <1>7 DEF Next

\* The situation is the same to the end: no step changes it.
LEMMA SetupStep ==
  ASSUME [Next]_vars
  PROVE  setup' = setup
  <1>1. \A t \in CsrType : CsrRequest(t) => setup' = setup
    BY DEF CsrRequest, Spend
  <1>2. \A t \in {"roc", "addTs"} : SmeRequest(t) => setup' = setup
    BY DEF SmeRequest, Spend
  <1>3. /\ RequestImps \/ RequestBmps \/ StartUapsd \/ StopUapsd => setup' = setup
        /\ EnterWowl \/ ExitWowl \/ RequestFull \/ PeLeavesBmps => setup' = setup
    BY DEF RequestImps, RequestBmps, StartUapsd, StopUapsd, EnterWowl, ExitWowl,
           RequestFull, PeLeavesBmps, Spend
  <1>4. Timers \/ Queue => setup' = setup
    BY DEF Timers, TrafficTimerExpires, ImpsTimerExpires, KeyTimeout, Queue,
           ProcessQueue, EndQueue, quota
  <1>5. Hdd => setup' = setup
    BY DEF Hdd, Suspend, AskFullPower, FullPowerGiven, AskStandby, StandbyGiven,
           Resume, Resumed, Spend, quota
  <1>6. \A ok \in BOOLEAN : PeAnswers(ok) \/ Complete(ok) => setup' = setup
    BY DEF PeAnswers, Complete, quota
  <1>7. UNCHANGED vars => setup' = setup
    BY DEF vars
  <1> QED BY <1>1, <1>2, <1>3, <1>4, <1>5, <1>6, <1>7 DEF Next, Requests

LEMMA SetupKept == Spec => [](setup \in Setups)
<1>1. Init => setup \in Setups
  BY DEF Init
<1>2. setup \in Setups /\ [Next]_vars => (setup \in Setups)'
  BY SetupStep
<1> QED BY <1>1, <1>2, PTL DEF Spec

\* Where there are buffers enough, the disconnect finds one.
LEMMA NotStarved ==
  ASSUME PmcIInv, Ample
  PROVE  ~StandbyStarved
  <1> SUFFICES ASSUME StandbyStarved PROVE FALSE
    OBVIOUS
  <1>1. /\ sme.active = <<>> /\ sme.pending # <<>> /\ sme.free = 0
        /\ Head(sme.pending).type = "enterStandby"
    BY DEF StandbyStarved, Startable
  <1>2. "enterStandby" \notin Exit /\ "enterStandby" \notin SmeType
    BY DEF Exit, SmeType, CsrType
  <1>3. Has(sme.pending, "enterStandby")
    <2>1. TypeOK
      BY DEF PmcIInv, Base
    <2> QED BY <1>1, <1>2, <2>1, FromHead DEF Taken
  <1> QED BY <1>1, <1>2, <1>3 DEF PmcIInv, Fed

\* What the inductive invariant says of the properties.
LEMMA ImpliedByIInv ==
  ASSUME PmcIInv
  PROVE  PmcInv /\ RequestMatched /\ QueueServed /\ BmpsFlag
  <1>1. TypeOK /\ BuffersKept /\ RunsInFullPower /\ RequestMatched /\ QueueServed
    BY DEF PmcIInv, Base
  <1>2. FoundInFullPower
    BY DEF PmcIInv, Suspending, FoundInFullPower
  <1>3. ASSUME pmc.bmpsQueued, ~setup.late
        PROVE  \E c \in ToSet(sme.pending) \cup ToSet(sme.active) :
                 c.type = "enterBmps"
    <2>1. Has(sme.pending, "enterBmps") \/ Has(sme.active, "enterBmps")
      BY <1>3 DEF PmcIInv, Base, BmpsRequested, Queued
    <2> QED BY <2>1 DEF Has, ToSet
  <1> QED BY <1>1, <1>2, <1>3 DEF PmcInv, BmpsFlag

\* The inductive invariant holds in every behaviour in which the disconnect
\* that goes before a standby finds a buffer.
THEOREM PmcIInvariant ==
  Spec /\ []~StandbyStarved => []PmcIInv
<1>1. PmcIInv /\ setup \in Setups /\ ~StandbyStarved /\ [Next]_vars => PmcIInv'
  BY NextIInv
<1> QED BY <1>1, InitIInv, SetupKept, PTL DEF Spec

\* No command buffer is lost and none is given back twice, whatever starts a
\* command, drops it, holds it back or wakes the device for it
\* (smeGetCommandBuffer, smeReleaseCommand, csrQueueSmeCommand); a command runs
\* in the power it needs to its end; and the full power HDD has brought the
\* device to is still there when it asks for standby (hdd_enter_standby).
THEOREM PmcInvCorrect ==
  Spec /\ []~StandbyStarved => []PmcInv
<1>1. PmcIInv => PmcInv
  BY ImpliedByIInv
<1> QED BY <1>1, PmcIInvariant, PTL

\* PMC is in a state of request exactly while the command that led there is the
\* active one and PE has its one request unanswered: no answer is taken for
\* another's, and PMC does not wait for one that is not coming (pmcIssueCommand,
\* pmcMessageProcessor).
THEOREM RequestMatchedCorrect ==
  Spec /\ []~StandbyStarved => []RequestMatched
<1>1. PmcIInv => RequestMatched
  BY ImpliedByIInv
<1> QED BY <1>1, PmcIInvariant, PTL

\* When no call runs the queue, no command stands in it that could be started
\* (smeProcessPendingQueue), unless the wait for a key may time out.
THEOREM QueueServedCorrect ==
  Spec /\ []~StandbyStarved => []QueueServed
<1>1. PmcIInv => QueueServed
  BY ImpliedByIInv
<1> QED BY <1>1, PmcIInvariant, PTL

\* bmpsRequestQueued is set only while a request for BMPS is queued or active,
\* so that it never keeps the next one from being made (pmcEnterRequestBmpsState).
THEOREM BmpsFlagCorrect ==
  Spec /\ []~StandbyStarved => []BmpsFlag
<1>1. PmcIInv => BmpsFlag
  BY ImpliedByIInv
<1> QED BY <1>1, PmcIInvariant, PTL

\* With two command buffers, no connection that waits for a key and no wait that
\* times out, the disconnect that smeProcessPendingQueue puts before the
\* standby of a connected station always finds a buffer: what the theorems above
\* assume is so.
THEOREM StandbySupplied ==
  Spec => [](Ample => PmcIInv /\ ~StandbyStarved)
<1>1. Init => (Ample => PmcIInv)
  BY InitIInv
<1>2. setup \in Setups /\ [Next]_vars /\ (Ample => PmcIInv) => (Ample => PmcIInv)'
  <2> SUFFICES ASSUME setup \in Setups, [Next]_vars, Ample => PmcIInv, Ample'
               PROVE  PmcIInv'
    OBVIOUS
  <2>1. Ample
    BY SetupStep DEF Ample
  <2> QED BY <2>1, NotStarved, NextIInv
<1>3. (Ample => PmcIInv) => (Ample => PmcIInv /\ ~StandbyStarved)
  BY NotStarved
<1> QED BY <1>1, <1>2, <1>3, SetupKept, PTL DEF Spec

\* There everything above holds without a condition on the behaviour, for any
\* number of calls, power saves, suspends, refusals and failed allocations; the
\* flag of BMPS and the serving of the queue hold without their exceptions.
THEOREM SuppliedCorrect ==
  Spec => [](Ample => PmcInv /\ RequestMatched /\ QueueServed /\ BmpsFlag)
<1>1. PmcIInv => PmcInv /\ RequestMatched /\ QueueServed /\ BmpsFlag
  BY ImpliedByIInv
<1> QED BY <1>1, StandbySupplied, PTL

=============================================================================
