-------------------------- MODULE MinerActionsProofs --------------------------
(***************************************************************************)
(* The safety of MinerActions for every number of calls, coordinators,     *)
(* polls and changes, every set of profiles and every beginning: types,    *)
(* the exclusion of the action lock, and that mutations, saved profiles    *)
(* and incidents go by what the device was while the lock was held.        *)
(***************************************************************************)
EXTENDS MinerActions, TLAPS

(* Which operation may be suspended where. *)
PlaceOf(k) ==
  /\ k.pc = "idle" => ~k.auto
  /\ k.pc # "idle" => k.coordinator # 0 /\ k.op \in Operation
  /\ k.pc = "asking" => k.op \in {"capture", "apply"}
  /\ k.pc = "saving" => k.op = "capture"
  /\ k.pc = "sending" => k.op # "capture"
  /\ k.pc \in {"verifying", "noting"} => k.op = "apply"

(* What a call has seen of the device, which is d now.  The device as it   *)
(* is belongs to the tenure of every call inside, so a reading does when   *)
(* it is made; it stays there because a tenure only grows.                 *)
SightOf(k, d) ==
  /\ k.pc \in Inside => d \in k.tenure
  /\ k.pc \in {"sending", "verifying"} => d \in k.after
  /\ k.pc \in {"asking", "sending"} /\ ~k.stale => k.read \in k.tenure
  /\ k.op = "capture" /\ k.pc \in {"asking", "saving", "recording"} /\ ~k.stale =>
       \E s \in k.tenure : s.config = k.profile
  /\ k.op = "capture" /\ k.pc \in {"saving", "recording"} => k.profile \in Supported
  /\ k.outcome = "verified" /\ k.pc = "recording" /\ ~k.stale =>
       \E s \in k.after : s.config = k.profile

(* What became of its mutation. *)
FateOf(k) ==
  /\ k.pc \in {"idle", "waiting", "reading", "asking", "saving"} => ~k.landed
  /\ k.pc = "verifying" => k.outcome \in {"requested", "uncertain"}
  /\ k.pc \in {"verifying", "recording", "noting"} /\ k.outcome \in {"requested", "drift"} =>
       k.landed
  /\ k.pc \in {"recording", "noting"} /\ k.outcome = "failed" => ~k.landed

Sound(k, d) == k \in CallType /\ PlaceOf(k) /\ SightOf(k, d) /\ FateOf(k)

(* A request under way was sent, and its call heard of no refusal. *)
SentBy(k) ==
  /\ k.pc \in {"sending", "verifying", "recording", "noting", "done"}
  /\ k.pc \in {"recording", "noting"} => k.outcome # "failed"

(* The lock is first come, first served: whoever is inside is first, since *)
(* calls start in their order.                                             *)
LockInv ==
  /\ \A c \in Calls : calls[c].pc \in Inside => FirstInLine(c)
  /\ \A c, d \in Calls : c < d /\ calls[c].pc = "idle" => calls[d].pc = "idle"

CallsInv ==
  /\ \A c \in Calls : Sound(calls[c], device)
  /\ \A c \in requests : SentBy(calls[c])
  /\ LockInv

IInv == TypeOK /\ CallsInv

-----------------------------------------------------------------------------
(* The segments of a call: what each leaves of a call with a coordinator.  *)

Live(k) == k \in CallType /\ k.coordinator # 0 /\ k.op \in Operation

(* The result n of a segment of k: a sound call of the same coordinator,   *)
(* which is inside the lock or past it, and not about to send unless it    *)
(* has a reason to.                                                        *)
Step(k, n) ==
  /\ Sound(n, device) /\ Live(n)
  /\ n.coordinator = k.coordinator
  /\ n.pc \in Inside \cup {"recording", "done"}

LEMMA EndedCall ==
  ASSUME NEW k, Live(k)
  PROVE  Step(k, Ended(k)) /\ Ended(k).pc = "done"
<1> USE ActionsAssumption
<1>1. Ended(k) \in CallType
  <2>1. NoReading \in Reading /\ "done" \in Pc /\ "none" \in Outcome
        /\ NoProfile \in Profiles \cup {NoProfile} /\ {} \in SUBSET Device
    BY DEF Reading, Pc, Outcome
  <2> HIDE ActionsAssumption
  <2> QED
    BY <2>1 DEF Live, Ended, CallType
<1>2. Ended(k).pc = "done" /\ Ended(k).outcome = "none" /\ Ended(k).landed = FALSE
      /\ Ended(k).coordinator = k.coordinator /\ Ended(k).op = k.op
  BY DEF Live, Ended, CallType
<1> QED
  BY <1>1, <1>2 DEF Step, Live, Sound, PlaceOf, SightOf, FateOf, Inside

LEMMA CancelledCall ==
  ASSUME NEW k, Live(k)
  PROVE  Step(k, Cancelled(k)) /\ Cancelled(k).pc = "done"
<1>1. Ended(k) \in CallType /\ Step(k, Ended(k))
  BY EndedCall DEF Step, Live
<1>2. Cancelled(k) \in CallType
  BY <1>1 DEF Cancelled, CallType, Outcome
<1>3. Cancelled(k).pc = "done" /\ Cancelled(k).outcome = "cancelled"
      /\ Cancelled(k).landed = FALSE
      /\ Cancelled(k).coordinator = k.coordinator /\ Cancelled(k).op = k.op
  BY DEF Live, Ended, Cancelled, CallType
<1> QED
  BY <1>2, <1>3 DEF Step, Live, Sound, PlaceOf, SightOf, FateOf, Inside

LEMMA RecordingCall ==
  ASSUME NEW k, Live(k), NEW outcome \in Outcome,
         outcome \in {"requested", "drift"} => k.landed,
         outcome = "failed" => ~k.landed,
         k.op = "capture" =>
           /\ k.profile \in Supported
           /\ ~k.stale => \E s \in k.tenure : s.config = k.profile,
         outcome = "verified" /\ ~k.stale => \E s \in k.after : s.config = k.profile
  PROVE  LET n == Recording(k, outcome)
         IN  Step(k, n) /\ n.pc = "recording" /\ n.outcome = outcome
<1> DEFINE n == Recording(k, outcome)
<1>1. n \in CallType
  <2>1. "recording" \in Pc
    BY DEF Pc
  <2> QED
    BY <2>1 DEF Live, Recording, CallType
<1>2. /\ n.pc = "recording" /\ n.outcome = outcome
      /\ n.coordinator = k.coordinator /\ n.op = k.op /\ n.landed = k.landed
      /\ n.stale = k.stale /\ n.profile = k.profile
      /\ n.tenure = k.tenure /\ n.after = k.after
  BY DEF Live, Recording, CallType
<1> HIDE DEF n
<1>3. PlaceOf(n) /\ SightOf(n, device) /\ FateOf(n)
  BY <1>2 DEF Live, PlaceOf, SightOf, FateOf, Inside
<1> QED
  BY <1>1, <1>2, <1>3 DEF n, Step, Live, Sound

LEMMA NamedActionEndsCall ==
  ASSUME NEW k, Live(k), k.op # "capture",
         NEW outcome \in {"requested", "uncertain", "failed"},
         outcome = "requested" => k.landed, outcome = "failed" => ~k.landed
  PROVE  LET n == NamedActionEnds(k, outcome)
         IN  Step(k, n) /\ ((n.pc = "recording" /\ n.outcome = outcome) \/ n.pc = "done")
<1>1. outcome \in Outcome /\ outcome # "drift" /\ outcome # "verified"
  BY DEF Outcome
<1> QED
  BY <1>1, EndedCall, RecordingCall DEF NamedActionEnds

LEMMA SendingCall ==
  ASSUME NEW k, Live(k), device \in Device, device \in k.tenure, k.op # "capture",
         k.stale \/ k.read \in k.tenure
  PROVE  LET n == Sending(k)
         IN  Step(k, n) /\ n.pc = "sending"
<1> DEFINE n == Sending(k)
<1>1. n \in CallType
  <2>1. "sending" \in Pc
    BY DEF Pc, Inside
  <2> QED
    BY <2>1 DEF Live, Sending, CallType
<1>2. /\ n.pc = "sending" /\ n.after = {device}
      /\ n.coordinator = k.coordinator /\ n.op = k.op
      /\ n.stale = k.stale /\ n.read = k.read /\ n.tenure = k.tenure
  BY DEF Live, Sending, CallType
<1> HIDE DEF n
<1>3. PlaceOf(n) /\ SightOf(n, device) /\ FateOf(n)
  BY <1>2 DEF Live, PlaceOf, SightOf, FateOf, Inside
<1> QED
  BY <1>1, <1>2, <1>3 DEF n, Step, Live, Sound, Inside

(* The fresh read, or the snapshot of a coordinator that was shut down.    *)
LEMMA AfterReadCall ==
  ASSUME NEW k, Live(k), device \in Device, device \in k.tenure, ~k.landed,
         NEW reading \in Reading, k.stale \/ reading \in {device, NoReading}
  PROVE  LET n == AfterRead(k, reading)
         IN  /\ Step(k, n)
             /\ \/ n.pc \in {"sending", "asking", "done"}
                \/ n.pc = "recording" /\ n.outcome = "failed"
<1> DEFINE n == AfterRead(k, reading)
           known == [k EXCEPT !.read = reading]
           asked == [known EXCEPT !.pc = "asking"]
           captured == [known EXCEPT !.pc = "asking", !.profile = reading.config]
<1>1. /\ Live(known) /\ known.op = k.op /\ known.coordinator = k.coordinator
      /\ known.read = reading /\ known.tenure = k.tenure /\ known.stale = k.stale
      /\ known.landed = k.landed
  BY DEF Live, CallType
<1>2. CASE reading = NoReading
  <2>1. CASE k.op \in NamedAction
    <3>1. n = NamedActionEnds(k, "failed") /\ k.op # "capture"
      BY <1>2, <2>1 DEF AfterRead, NamedAction
    <3> QED
      BY <3>1, NamedActionEndsCall
  <2>2. CASE k.op \notin NamedAction
    BY <1>2, <2>2, EndedCall DEF AfterRead
  <2> QED
    BY <2>1, <2>2
<1>3. CASE reading # NoReading /\ k.op \in NamedAction
  <2>1. n = Sending(known) /\ k.op # "capture"
    BY <1>3 DEF AfterRead, NamedAction
  <2>2. known.stale \/ known.read \in known.tenure
    BY <1>1, <1>3
  <2>3. Step(known, n) /\ n.pc = "sending"
    BY <1>1, <2>1, <2>2, SendingCall
  <2> QED
    BY <1>1, <2>3 DEF Step
<1>4. CASE reading # NoReading /\ k.op = "apply"
  <2>1. n = asked /\ k.op \notin NamedAction
    BY <1>4 DEF AfterRead, NamedAction
  <2>2. asked \in CallType
    <3>1. "asking" \in Pc
      BY DEF Pc, Inside
    <3> QED
      BY <1>1, <3>1 DEF Live, CallType
  <2>3. /\ asked.pc = "asking" /\ asked.op = "apply" /\ asked.coordinator = k.coordinator
        /\ asked.read = reading /\ asked.tenure = k.tenure /\ asked.stale = k.stale
        /\ asked.landed = FALSE
    BY <1>4 DEF Live, CallType
  <2> HIDE DEF n, asked, known
  <2>4. PlaceOf(asked) /\ SightOf(asked, device) /\ FateOf(asked)
    BY <1>4, <2>3 DEF Live, PlaceOf, SightOf, FateOf, Inside
  <2> QED
    BY <1>4, <2>1, <2>2, <2>3, <2>4 DEF n, Step, Live, Sound, Inside
<1>5. CASE reading # NoReading /\ k.op = "capture"
  <2>1. k.op \notin NamedAction /\ k.op # "apply" /\ reading \in Device
    BY <1>5 DEF NamedAction, Reading
  <2>2. CASE reading.config = NoProfile
    BY <1>5, <2>1, <2>2, EndedCall DEF AfterRead
  <2>3. CASE reading.config # NoProfile
    <3>1. n = captured
      BY <1>5, <2>1, <2>3 DEF AfterRead
    <3>2. captured \in CallType
      <4>1. "asking" \in Pc /\ reading.config \in Profiles \cup {NoProfile}
        BY <2>1 DEF Pc, Inside, Device
      <4> QED
        BY <1>1, <4>1 DEF Live, CallType
    <3>3. /\ captured.pc = "asking" /\ captured.op = "capture"
          /\ captured.coordinator = k.coordinator /\ captured.profile = reading.config
          /\ captured.read = reading /\ captured.tenure = k.tenure
          /\ captured.stale = k.stale /\ captured.landed = FALSE
      BY <1>5 DEF Live, CallType
    <3> HIDE DEF n, captured, known
    <3>4. PlaceOf(captured) /\ SightOf(captured, device) /\ FateOf(captured)
      BY <1>5, <3>3 DEF Live, PlaceOf, SightOf, FateOf, Inside
    <3> QED
      BY <1>5, <3>1, <3>2, <3>3, <3>4 DEF n, Step, Live, Sound, Inside
  <2> QED
    BY <2>2, <2>3
<1> QED
  BY <1>2, <1>3, <1>4, <1>5 DEF Live, Operation

(* What a call becomes by getting the lock. *)
LEMMA HoldLockCall ==
  ASSUME TypeOK, NEW k, Live(k), ~k.landed
  PROVE  LET n == HoldLock(k)
         IN  /\ Step(k, n)
             /\ \/ n.pc \in {"reading", "sending", "asking", "done"}
                \/ n.pc = "recording" /\ n.outcome = "failed"
<1> DEFINE n == HoldLock(k)
           holding == [k EXCEPT !.tenure = {device}]
           refreshing == [holding EXCEPT !.pc = "reading"]
           skipping == [holding EXCEPT !.stale = TRUE]
<1>1. device \in Device /\ snapshots[k.coordinator] \in Reading
  BY DEF TypeOK, Live, CallType
<1>2. /\ refreshing \in CallType /\ refreshing.pc = "reading"
      /\ refreshing.op = k.op /\ refreshing.coordinator = k.coordinator
      /\ refreshing.tenure = {device} /\ refreshing.landed = FALSE
  <2>1. "reading" \in Pc
    BY DEF Pc, Inside
  <2> QED
    BY <1>1, <2>1 DEF Live, CallType
<1>3. /\ Live(skipping) /\ skipping.coordinator = k.coordinator
      /\ skipping.tenure = {device} /\ skipping.stale = TRUE
      /\ skipping.landed = FALSE
  BY <1>1 DEF Live, CallType
<1>4. CASE k.coordinator = current
  <2>1. n = refreshing
    BY <1>4 DEF HoldLock
  <2> HIDE DEF n, refreshing
  <2>2. PlaceOf(refreshing) /\ SightOf(refreshing, device) /\ FateOf(refreshing)
    BY <1>2 DEF Live, PlaceOf, SightOf, FateOf, Inside
  <2> QED
    BY <1>2, <2>1, <2>2 DEF n, Step, Live, Sound, Inside
<1>5. CASE k.coordinator # current
  <2>1. n = AfterRead(skipping, snapshots[k.coordinator])
    BY <1>5 DEF HoldLock
  <2> HIDE DEF n, skipping
  <2>2. /\ Step(skipping, n)
        /\ \/ n.pc \in {"sending", "asking", "done"}
           \/ n.pc = "recording" /\ n.outcome = "failed"
    BY <1>1, <1>3, <2>1, AfterReadCall
  <2> QED
    BY <1>3, <2>2 DEF n, Step
<1> QED
  BY <1>4, <1>5

LEMMA AfterAskingCall ==
  ASSUME NEW k, Sound(k, device), device \in Device, k.pc = "asking"
  PROVE  LET n == AfterAsking(k)
         IN  Step(k, n) /\ n.pc \in {"saving", "sending", "done"}
<1> DEFINE n == AfterAsking(k)
           saving == [k EXCEPT !.pc = "saving"]
<1>1. Live(k) /\ k.op \in {"capture", "apply"} /\ ~k.landed
      /\ device \in k.tenure /\ (k.stale \/ k.read \in k.tenure)
  BY DEF Sound, Live, PlaceOf, SightOf, FateOf, Inside, CallType
<1>2. CASE k.profile \notin Supported
  BY <1>1, <1>2, EndedCall DEF AfterAsking
<1>3. CASE k.profile \in Supported /\ k.op = "capture"
  <2>1. n = saving
    BY <1>3 DEF AfterAsking
  <2>2. saving \in CallType
    <3>1. "saving" \in Pc
      BY DEF Pc, Inside
    <3> QED
      BY <1>1, <3>1 DEF Live, CallType
  <2>3. /\ saving.pc = "saving" /\ saving.op = "capture"
        /\ saving.coordinator = k.coordinator /\ saving.profile = k.profile
        /\ saving.tenure = k.tenure /\ saving.stale = k.stale /\ saving.landed = k.landed
    BY <1>1, <1>3 DEF Live, CallType
  <2>4. ~k.stale => \E s \in k.tenure : s.config = k.profile
    BY <1>3 DEF Sound, SightOf
  <2> HIDE DEF n, saving
  <2>5. PlaceOf(saving) /\ SightOf(saving, device) /\ FateOf(saving)
    BY <1>1, <1>3, <2>3, <2>4 DEF Live, PlaceOf, SightOf, FateOf, Inside
  <2> QED
    BY <1>1, <1>3, <2>1, <2>2, <2>3, <2>5 DEF n, Step, Live, Sound, Inside
<1>4. CASE k.profile \in Supported /\ k.op = "apply"
  BY <1>1, <1>4, SendingCall DEF AfterAsking
<1> QED
  BY <1>1, <1>2, <1>3, <1>4

(* An applied profile whose settings were read back. *)
LEMMA AfterReadBackCall ==
  ASSUME NEW k, Live(k), device \in Device, k.op = "apply",
         device \in k.tenure, device \in k.after,
         k.outcome \in {"requested", "uncertain"}, k.outcome = "requested" => k.landed,
         NEW reading \in Reading, k.stale \/ reading \in {device, NoReading}
  PROVE  LET n == AfterReadBack(k, reading)
         IN  /\ Step(k, n)
             /\ n.pc \in {"recording", "noting", "done"}
             /\ n.pc \in {"recording", "noting"} => n.outcome # "failed"
<1> DEFINE n == AfterReadBack(k, reading)
           told == IF k.outcome = "uncertain" THEN k.outcome ELSE "drift"
           noting == [k EXCEPT !.pc = "noting", !.outcome = told]
<1>1. CASE reading = NoReading
  BY <1>1, EndedCall DEF AfterReadBack
<1>2. CASE reading # NoReading /\ reading.config = k.profile
  <2>1. n = Recording(k, "verified") /\ "verified" \in Outcome
    BY <1>2 DEF AfterReadBack, Outcome
  <2>2. ~k.stale => \E s \in k.after : s.config = k.profile
    BY <1>2
  <2> QED
    BY <2>1, <2>2, RecordingCall
<1>3. CASE reading # NoReading /\ reading.config # k.profile
  <2>1. n = noting
    BY <1>3 DEF AfterReadBack, Live, CallType
  <2>2. noting \in CallType
    <3>1. "noting" \in Pc /\ told \in Outcome
      BY DEF Pc, Inside, Outcome
    <3> HIDE DEF told
    <3> QED
      BY <3>1 DEF Live, CallType
  <2>3. /\ noting.pc = "noting" /\ noting.op = "apply" /\ noting.coordinator = k.coordinator
        /\ noting.outcome = told /\ noting.tenure = k.tenure /\ noting.landed = k.landed
    BY DEF Live, CallType
  <2>4. told \in {"uncertain", "drift"} /\ (told = "drift" => k.landed)
    OBVIOUS
  <2> HIDE DEF n, noting, told
  <2>5. PlaceOf(noting) /\ SightOf(noting, device) /\ FateOf(noting)
    BY <2>3, <2>4 DEF Live, PlaceOf, SightOf, FateOf, Inside
  <2> QED
    BY <2>1, <2>2, <2>3, <2>4, <2>5 DEF n, Step, Live, Sound, Inside
<1> QED
  BY <1>1, <1>2, <1>3

LEMMA ReadBackCall ==
  ASSUME TypeOK, NEW k, Live(k), k.op = "apply",
         device \in k.tenure, device \in k.after,
         k.outcome \in {"requested", "uncertain"}, k.outcome = "requested" => k.landed
  PROVE  LET n == ReadBack(k)
         IN  /\ Step(k, n)
             /\ n.pc \in {"verifying", "recording", "noting", "done"}
             /\ n.pc \in {"recording", "noting"} => n.outcome # "failed"
<1> DEFINE n == ReadBack(k)
           verifying == [k EXCEPT !.pc = "verifying"]
           skipping == [k EXCEPT !.stale = TRUE]
<1>1. device \in Device /\ snapshots[k.coordinator] \in Reading
  BY DEF TypeOK, Live, CallType
<1>2. CASE k.coordinator = current
  <2>1. n = verifying
    BY <1>2 DEF ReadBack
  <2>2. verifying \in CallType
    <3>1. "verifying" \in Pc
      BY DEF Pc, Inside
    <3> QED
      BY <3>1 DEF Live, CallType
  <2>3. /\ verifying.pc = "verifying" /\ verifying.op = "apply"
        /\ verifying.coordinator = k.coordinator /\ verifying.outcome = k.outcome
        /\ verifying.tenure = k.tenure /\ verifying.after = k.after
        /\ verifying.landed = k.landed
    BY DEF Live, CallType
  <2> HIDE DEF n, verifying
  <2>4. PlaceOf(verifying) /\ SightOf(verifying, device) /\ FateOf(verifying)
    BY <2>3 DEF Live, PlaceOf, SightOf, FateOf, Inside
  <2> QED
    BY <2>1, <2>2, <2>3, <2>4 DEF n, Step, Live, Sound, Inside
<1>3. CASE k.coordinator # current
  <2>1. n = AfterReadBack(skipping, snapshots[k.coordinator])
    BY <1>3 DEF ReadBack
  <2>2. /\ Live(skipping) /\ skipping.op = "apply" /\ skipping.coordinator = k.coordinator
        /\ skipping.tenure = k.tenure /\ skipping.after = k.after /\ skipping.stale = TRUE
        /\ skipping.outcome = k.outcome /\ skipping.landed = k.landed
    BY DEF Live, CallType
  <2> HIDE DEF n, skipping
  <2>3. /\ Step(skipping, n)
        /\ n.pc \in {"recording", "noting", "done"}
        /\ n.pc \in {"recording", "noting"} => n.outcome # "failed"
    BY <1>1, <2>1, <2>2, AfterReadBackCall
  <2> QED
    BY <2>2, <2>3 DEF n, Step
<1> QED
  BY <1>2, <1>3

(* The answer to a mutation: a refusal only where nothing was done, and a  *)
(* success only where something was.                                       *)
LEMMA AfterAnswerCall ==
  ASSUME TypeOK, NEW k, Sound(k, device), k.pc = "sending",
         NEW answer \in {"requested", "uncertain", "failed"},
         answer = "requested" => k.landed, answer = "failed" => ~k.landed
  PROVE  LET n == AfterAnswer(k, answer)
         IN  /\ Step(k, n)
             /\ n.pc \in {"verifying", "recording", "noting", "done"}
             /\ n.pc \in {"recording", "noting"} /\ answer # "failed" =>
                  n.outcome # "failed"
<1> DEFINE n == AfterAnswer(k, answer)
           noting == [k EXCEPT !.pc = "noting", !.outcome = answer]
           answered == [k EXCEPT !.outcome = answer]
<1>1. Live(k) /\ k.op # "capture" /\ device \in k.tenure /\ device \in k.after
  BY DEF Sound, Live, PlaceOf, SightOf, Inside
<1>2. CASE k.op # "apply"
  <2>1. n = NamedActionEnds(k, answer)
    BY <1>2 DEF AfterAnswer
  <2> QED
    BY <1>1, <2>1, NamedActionEndsCall
<1>3. CASE k.op = "apply" /\ answer = "failed"
  <2>1. n = noting
    BY <1>3 DEF AfterAnswer
  <2>2. noting \in CallType
    <3>1. "noting" \in Pc /\ answer \in Outcome
      BY DEF Pc, Inside, Outcome
    <3> QED
      BY <1>1, <3>1 DEF Live, CallType
  <2>3. /\ noting.pc = "noting" /\ noting.op = "apply" /\ noting.coordinator = k.coordinator
        /\ noting.outcome = "failed" /\ noting.tenure = k.tenure /\ noting.landed = k.landed
    BY <1>1, <1>3 DEF Live, CallType
  <2> HIDE DEF n, noting
  <2>4. PlaceOf(noting) /\ SightOf(noting, device) /\ FateOf(noting)
    BY <1>1, <1>3, <2>3 DEF Live, PlaceOf, SightOf, FateOf, Inside
  <2> QED
    BY <1>1, <1>3, <2>1, <2>2, <2>3, <2>4 DEF n, Step, Live, Sound, Inside
<1>4. CASE k.op = "apply" /\ answer # "failed"
  <2>1. n = ReadBack(answered)
    BY <1>4 DEF AfterAnswer
  <2>2. /\ Live(answered) /\ answered.op = "apply"
        /\ answered.coordinator = k.coordinator /\ answered.outcome = answer
        /\ answered.tenure = k.tenure /\ answered.after = k.after
        /\ answered.landed = k.landed
    <3>1. answer \in Outcome
      BY DEF Outcome
    <3> QED
      BY <1>1, <1>4, <3>1 DEF Live, CallType
  <2> HIDE DEF n, answered
  <2>3. /\ Step(answered, n)
        /\ n.pc \in {"verifying", "recording", "noting", "done"}
        /\ n.pc \in {"recording", "noting"} => n.outcome # "failed"
    BY <1>1, <1>4, <2>1, <2>2, ReadBackCall
  <2> QED
    BY <2>2, <2>3 DEF n, Step
<1> QED
  BY <1>2, <1>3, <1>4

-----------------------------------------------------------------------------
(* The lock.                                                               *)

(* Whoever is inside stays first in line while calls of the queue keep     *)
(* their coordinator and only leave it, or go inside when they are first.  *)
LEMMA LockKept ==
  ASSUME LockInv,
         NEW S \in SUBSET Calls,
         \A c \in Calls \ S : /\ calls'[c].pc = calls[c].pc
                             /\ calls'[c].coordinator = calls[c].coordinator,
         \A c \in S : /\ calls[c].pc # "idle"
                      /\ calls'[c].coordinator = calls[c].coordinator
                      /\ calls'[c].pc \in Inside \cup {"recording", "done"}
                      /\ calls'[c].pc \in Inside =>
                           /\ calls[c].pc \in Inside \cup {"waiting"}
                           /\ FirstInLine(c)
  PROVE  LockInv'
<1>1. ASSUME NEW d \in Calls, calls'[d].pc \in Inside \cup {"waiting"}
      PROVE  /\ calls[d].pc \in Inside \cup {"waiting"}
             /\ calls'[d].coordinator = calls[d].coordinator
             /\ calls'[d].pc \in Inside => FirstInLine(d)
  <2>1. CASE d \in S
    <3>1. calls'[d].pc \in Inside
      BY <1>1, <2>1 DEF Inside
    <3> QED
      BY <2>1, <3>1
  <2>2. CASE d \notin S
    BY <1>1, <2>2 DEF LockInv
  <2> QED
    BY <2>1, <2>2
<1>2. ASSUME NEW c \in Calls, calls'[c].pc \in Inside PROVE FirstInLine(c)'
  <2>1. SUFFICES ASSUME NEW d \in Calls, calls'[d].coordinator = calls'[c].coordinator,
                        calls'[d].pc \in Inside \cup {"waiting"}
                 PROVE  c <= d
    BY DEF FirstInLine, Queue, Waiters
  <2>2. d \in Queue(calls[c].coordinator)
    BY <1>1, <1>2, <2>1 DEF Queue, Waiters
  <2> QED
    BY <1>1, <1>2, <2>2 DEF FirstInLine
<1>3. ASSUME NEW c \in Calls, NEW d \in Calls, c < d, calls'[c].pc = "idle"
      PROVE  calls'[d].pc = "idle"
  <2>1. c \notin S /\ calls[c].pc = "idle"
    BY <1>3 DEF Inside
  <2>2. calls[d].pc = "idle" /\ d \notin S
    BY <1>3, <2>1 DEF LockInv
  <2> QED
    BY <2>2
<1> QED
  BY <1>2, <1>3 DEF LockInv

(* Two calls inside the lock of one coordinator are one.                   *)
LEMMA Exclusion ==
  ASSUME LockInv, NEW c \in Calls, NEW d \in Calls,
         calls[c].pc \in Inside, calls[d].pc \in Inside,
         calls[c].coordinator = calls[d].coordinator
  PROVE  c = d
<1>1. c \in Queue(calls[d].coordinator) /\ d \in Queue(calls[c].coordinator)
  BY DEF Queue, Waiters
<1>2. c <= d /\ d <= c
  BY <1>1 DEF LockInv, FirstInLine
<1> QED
  BY <1>2, ActionsAssumption DEF Calls

-----------------------------------------------------------------------------
(* The steps.                                                              *)

(* A step of one call under way.                                           *)
LEMMA OneCallMoves ==
  ASSUME IInv, NEW c \in Calls, NEW n, Step(calls[c], n), calls[c].pc # "idle",
         n.pc \in Inside => \/ calls[c].pc \in Inside
                            \/ calls[c].pc = "waiting" /\ FirstInLine(c),
         device' = device, calls' = [calls EXCEPT ![c] = n],
         requests' \subseteq requests \cup {c}, c \in requests' => SentBy(n)
  PROVE  CallsInv' /\ calls' \in [Calls -> CallType] /\ requests' \subseteq Calls
<1>1. calls \in [Calls -> CallType] /\ n \in CallType /\ requests \subseteq Calls
  BY DEF IInv, TypeOK, Step, Sound
<1>2. calls' \in [Calls -> CallType] /\ requests' \subseteq Calls
  BY <1>1
<1>3. calls'[c] = n /\ \A d \in Calls \ {c} : calls'[d] = calls[d]
  BY <1>1
<1>4. \A d \in Calls : Sound(calls[d], device)'
  <2>1. \A d \in Calls : Sound(calls'[d], device)
    BY <1>3 DEF IInv, CallsInv, Step
  <2> QED
    BY <2>1
<1>5. \A d \in requests' : SentBy(calls[d])'
  <2>1. \A d \in requests' : SentBy(calls'[d])
    BY <1>3 DEF IInv, CallsInv
  <2> QED
    BY <2>1
<1>6. LockInv'
  <2>1. n.pc \in Inside => FirstInLine(c) /\ calls[c].pc \in Inside \cup {"waiting"}
    BY DEF IInv, CallsInv, LockInv
  <2>2. \A d \in {c} : /\ calls[d].pc # "idle"
                       /\ calls'[d].coordinator = calls[d].coordinator
                       /\ calls'[d].pc \in Inside \cup {"recording", "done"}
                       /\ calls'[d].pc \in Inside =>
                            /\ calls[d].pc \in Inside \cup {"waiting"}
                            /\ FirstInLine(d)
    BY <1>3, <2>1 DEF Step
  <2>3. \A d \in Calls \ {c} : /\ calls'[d].pc = calls[d].pc
                              /\ calls'[d].coordinator = calls[d].coordinator
    BY <1>3
  <2>4. LockInv
    BY DEF IInv, CallsInv
  <2> QED
    BY <2>2, <2>3, <2>4, LockKept
<1> QED
  BY <1>2, <1>4, <1>5, <1>6 DEF CallsInv

(* A call of Becomes: a request is on its way only if the call sent it.    *)
LEMMA BecomesSends ==
  ASSUME NEW c \in Calls, NEW n, Becomes(c, n), c \in requests => SentBy(n)
  PROVE  /\ calls' = [calls EXCEPT ![c] = n]
         /\ requests' \subseteq requests \cup {c}
         /\ c \in requests' => SentBy(n)
BY DEF Becomes, SentBy

LEMMA LiveCall ==
  ASSUME IInv, NEW c \in Calls, calls[c].pc # "idle"
  PROVE  Live(calls[c]) /\ Sound(calls[c], device)
BY DEF IInv, CallsInv, Sound, Live, PlaceOf

LEMMA WaitingCall ==
  ASSUME TypeOK, current # 0, NEW op \in Operation, NEW auto \in BOOLEAN
  PROVE  LET w == Waiting(op, auto)
         IN  /\ Live(w) /\ Sound(w, device) /\ ~w.landed
             /\ w.pc = "waiting" /\ w.coordinator = current
<1> DEFINE w == Waiting(op, auto)
<1>1. /\ current \in 0..MaxCoordinators /\ saved \in Profiles \cup {NoProfile}
  BY ActionsAssumption DEF TypeOK
<1>2. /\ NoReading \in Reading /\ "waiting" \in Pc /\ "none" \in Outcome
      /\ {} \in SUBSET Device
  BY DEF Reading, Pc, Outcome
<1>3. IdleCall \in CallType
  <2>1. "idle" \in Pc /\ 0 \in 0..MaxCoordinators
    BY ActionsAssumption DEF Pc
  <2> QED
    BY <1>2, <2>1 DEF IdleCall, CallType
<1>4. w \in CallType
  <2> DEFINE x == IF op = "apply" THEN saved ELSE NoProfile
  <2>1. x \in Profiles \cup {NoProfile}
    BY <1>1
  <2>2. w = [IdleCall EXCEPT !.pc = "waiting", !.op = op, !.auto = auto,
                             !.coordinator = current, !.profile = x]
    BY DEF Waiting
  <2> HIDE DEF w, x
  <2> QED
    BY <1>1, <1>2, <1>3, <2>1, <2>2 DEF CallType
<1>5. /\ w.pc = "waiting" /\ w.op = op /\ w.coordinator = current
      /\ w.outcome = "none" /\ ~w.landed
  BY DEF Waiting, IdleCall
<1> HIDE DEF w
<1>6. PlaceOf(w) /\ SightOf(w, device) /\ FateOf(w)
  BY <1>5 DEF PlaceOf, SightOf, FateOf, Inside
<1> QED
  BY <1>4, <1>5, <1>6 DEF w, Live, Sound

(* A call joins the queue of its coordinator as the last one.              *)
LEMMA StartKeepsLock ==
  ASSUME LockInv, calls \in [Calls -> CallType], NEW c \in Calls, calls[c].pc = "idle",
         \A d \in 1..(c - 1) : calls[d].pc # "idle",
         NEW n, n.coordinator = current, n.pc # "idle",
         n.pc \in Inside => Queue(current) = {},
         calls' = [calls EXCEPT ![c] = n]
  PROVE  LockInv'
<1> USE ActionsAssumption DEF Calls
<1>1. calls'[c] = n /\ \A d \in Calls \ {c} : calls'[d] = calls[d]
  OBVIOUS
<1>2. ASSUME NEW x \in Calls, calls'[x].pc \in Inside PROVE FirstInLine(x)'
  <2>1. SUFFICES ASSUME NEW d \in Calls, calls'[d].coordinator = calls'[x].coordinator,
                        calls'[d].pc \in Inside \cup {"waiting"}
                 PROVE  x <= d
    BY DEF FirstInLine, Queue, Waiters
  <2>2. CASE x = c
    <3>1. Queue(current) = {} /\ calls'[d].coordinator = current
      BY <1>1, <1>2, <2>1, <2>2
    <3>2. d = c
      BY <1>1, <2>1, <3>1 DEF Queue, Waiters
    <3> QED
      BY <2>2, <3>2
  <2>3. CASE x # c /\ d = c
    <3>1. calls[x].pc \in Inside
      BY <1>1, <1>2, <2>3
    <3>2. calls[x].pc # "idle"
      BY <3>1 DEF Inside
    <3> QED
      BY <2>3, <3>2 DEF LockInv
  <2>4. CASE x # c /\ d # c
    <3>1. calls[x].pc \in Inside /\ d \in Queue(calls[x].coordinator)
      BY <1>1, <1>2, <2>1, <2>4 DEF Queue, Waiters
    <3> QED
      BY <3>1 DEF LockInv, FirstInLine
  <2> QED
    BY <2>2, <2>3, <2>4
<1>3. ASSUME NEW x \in Calls, NEW d \in Calls, x < d, calls'[x].pc = "idle"
      PROVE  calls'[d].pc = "idle"
  <2>1. x # c /\ calls[x].pc = "idle"
    BY <1>1, <1>3
  <2>2. calls[d].pc = "idle"
    BY <1>3, <2>1 DEF LockInv
  <2>3. x \notin 1..(c - 1)
    BY <2>1
  <2>4. d # c
    BY <1>3, <2>3
  <2> QED
    BY <1>1, <2>2, <2>4
<1> QED
  BY <1>2, <1>3 DEF LockInv

LEMMA StartStep ==
  ASSUME IInv, NEW c \in Calls, NEW op \in Operation, NEW auto \in BOOLEAN, Start(c, op, auto)
  PROVE  IInv'
<1> DEFINE w == Waiting(op, auto)
           n == IF Queue(current) = {} THEN HoldLock(w) ELSE w
<1>1. TypeOK /\ current # 0 /\ calls[c].pc = "idle" /\ device' = device
      /\ calls \in [Calls -> CallType] /\ requests \subseteq Calls
  BY DEF IInv, TypeOK, Start
<1>2. Live(w) /\ Sound(w, device) /\ ~w.landed /\ w.pc = "waiting" /\ w.coordinator = current
  BY <1>1, WaitingCall
<1>3. Becomes(c, n)
  BY DEF Start
<1>4. Sound(n, device) /\ n.coordinator = current /\ n.pc # "idle"
      /\ (n.pc \in Inside => Queue(current) = {})
  <2> HIDE DEF w
  <2>1. CASE Queue(current) = {}
    <3>1. Step(w, n)
      BY <1>1, <1>2, <2>1, HoldLockCall
    <3> QED
      BY <1>2, <2>1, <3>1 DEF Step, Inside
  <2>2. CASE Queue(current) # {}
    BY <1>2, <2>2 DEF Inside
  <2> QED
    BY <2>1, <2>2
<1> HIDE DEF n, w
<1>5. c \notin requests
  BY <1>1 DEF IInv, CallsInv, SentBy
<1>6. /\ calls' = [calls EXCEPT ![c] = n] /\ requests' \subseteq requests \cup {c}
      /\ c \in requests' => SentBy(n)
  BY <1>3, <1>5, BecomesSends
<1>7. LockInv'
  <2>1. LockInv /\ \A d \in 1..(c - 1) : calls[d].pc # "idle"
    BY DEF IInv, CallsInv, Start
  <2> QED
    BY <1>1, <1>4, <1>6, <2>1, StartKeepsLock
<1>8. \A d \in Calls : Sound(calls[d], device)'
  <2>1. \A d \in Calls : Sound(calls'[d], device)
    BY <1>1, <1>4, <1>6 DEF IInv, CallsInv
  <2> QED
    BY <1>1, <2>1
<1>9. \A d \in requests' : SentBy(calls[d])'
  <2>1. \A d \in requests' : SentBy(calls'[d])
    BY <1>1, <1>6 DEF IInv, CallsInv
  <2> QED
    BY <2>1
<1>10. TypeOK'
  <2>1. calls' \in [Calls -> CallType] /\ requests' \subseteq Calls
    BY <1>1, <1>4, <1>6 DEF Sound
  <2> QED
    BY <1>1, <2>1 DEF TypeOK, Start, bounds, runtime
<1> QED
  BY <1>7, <1>8, <1>9, <1>10 DEF IInv, CallsInv

(* A call under way goes on.                                               *)
LEMMA ContinueStep ==
  ASSUME IInv, NEW c \in Calls, Continue(c) \/ Cancel(c)
  PROVE  IInv'
<1> DEFINE k == calls[c]
<1>1. /\ TypeOK /\ device \in Device /\ NoReading \in Reading /\ Device \subseteq Reading
      /\ calls \in [Calls -> CallType] /\ requests \subseteq Calls
  BY DEF IInv, TypeOK, Reading
<1>2. k.pc # "idle"
  <2>1. CASE Cancel(c)
    BY <2>1 DEF Cancel, IInv, CallsInv, Sound, PlaceOf
  <2>2. CASE Continue(c)
    BY <2>2 DEF Continue, Acquire, ReadReturns, AskReturns, AnyAnswer, Answered,
                ReadBackReturns, SaveReturns, RecordReturns
  <2> QED
    BY <2>1, <2>2
<1>3. Live(k) /\ Sound(k, device)
  BY <1>2, LiveCall
<1>4. k.coordinator \in 1..MaxCoordinators
  BY <1>3, ActionsAssumption DEF Live, CallType
<1>5. k.pc \in {"waiting", "reading", "asking", "saving"} => c \notin requests /\ ~k.landed
  BY <1>3 DEF IInv, CallsInv, SentBy, Sound, FateOf
<1>6. ASSUME NEW n, Step(k, n), k.pc \in Inside \/ n.pc = "done",
             Becomes(c, n), c \in requests => SentBy(n), device' = device
      PROVE  CallsInv' /\ calls' \in [Calls -> CallType] /\ requests' \subseteq Calls
  <2>1. n.pc \in Inside => k.pc \in Inside
    BY <1>6 DEF Inside
  <2>2. /\ calls' = [calls EXCEPT ![c] = n] /\ requests' \subseteq requests \cup {c}
        /\ c \in requests' => SentBy(n)
    BY <1>6, BecomesSends
  <2> HIDE DEF k
  <2> QED
    BY <1>2, <1>6, <2>1, <2>2, OneCallMoves DEF k
<1>7. CASE Acquire(c)
  <2>1. PICK n : n = HoldLock(k)
    OBVIOUS
  <2>2. calls[c].pc = "waiting" /\ FirstInLine(c) /\ Becomes(c, n) /\ device' = device
    BY <1>7, <2>1 DEF Acquire
  <2>3. Step(calls[c], n)
    BY <1>1, <1>3, <1>5, <2>1, <2>2, HoldLockCall
  <2>4. /\ calls' = [calls EXCEPT ![c] = n]
        /\ requests' \subseteq requests \cup {c} /\ (c \in requests' => SentBy(n))
    BY <1>5, <2>2, BecomesSends
  <2>5. CallsInv' /\ calls' \in [Calls -> CallType] /\ requests' \subseteq Calls
    BY <1>2, <2>2, <2>3, <2>4, OneCallMoves
  <2> QED
    BY <1>1, <1>7, <2>5 DEF IInv, TypeOK, Acquire, bounds, runtime
<1>8. CASE ReadReturns(c)
  <2>1. PICK reading \in {device, NoReading} :
          Refreshed(c, reading) /\ Becomes(c, AfterRead(k, reading))
    BY <1>8 DEF ReadReturns
  <2>2. k.pc = "reading" /\ device \in k.tenure /\ k.pc \in Inside /\ device' = device
    BY <1>3, <1>8 DEF ReadReturns, Sound, SightOf, Inside
  <2>3. Step(k, AfterRead(k, reading))
    BY <1>1, <1>3, <1>5, <2>1, <2>2, AfterReadCall
  <2>4. CallsInv' /\ calls' \in [Calls -> CallType] /\ requests' \subseteq Calls
    BY <1>5, <1>6, <2>1, <2>2, <2>3
  <2>5. snapshots' \in [1..MaxCoordinators -> Reading]
    BY <1>1, <1>4, <2>1 DEF Refreshed, TypeOK
  <2> QED
    BY <1>1, <1>8, <2>4, <2>5 DEF IInv, TypeOK, ReadReturns, bounds, runtime
<1>9. CASE AskReturns(c)
  <2>1. PICK n \in {AfterAsking(k), Ended(k)} : Becomes(c, n)
    BY <1>9 DEF AskReturns
  <2>2. k.pc = "asking" /\ k.pc \in Inside /\ device' = device
    BY <1>9 DEF AskReturns, Inside
  <2>3. Step(k, n)
    BY <1>1, <1>3, <2>1, <2>2, AfterAskingCall, EndedCall
  <2>4. CallsInv' /\ calls' \in [Calls -> CallType] /\ requests' \subseteq Calls
    BY <1>5, <1>6, <2>1, <2>2, <2>3
  <2> QED
    BY <1>1, <1>9, <2>4 DEF IInv, TypeOK, AskReturns, bounds, runtime
<1>10. CASE AnyAnswer(c)
  <2>1. PICK answer \in {"requested", "uncertain", "failed"} : Answered(c, answer)
    BY <1>10 DEF AnyAnswer
  <2>2. /\ k.pc = "sending" /\ k.pc \in Inside /\ device' = device
        /\ (answer = "requested" => k.landed) /\ (answer = "failed" => ~k.landed)
        /\ calls' = [calls EXCEPT ![c] = AfterAnswer(k, answer)]
        /\ requests' = IF answer = "failed" THEN requests \ {c} ELSE requests
    BY <2>1 DEF Answered, Inside
  <2>3. /\ Step(k, AfterAnswer(k, answer))
        /\ AfterAnswer(k, answer).pc \in {"verifying", "recording", "noting", "done"}
        /\ AfterAnswer(k, answer).pc \in {"recording", "noting"} /\ answer # "failed" =>
             AfterAnswer(k, answer).outcome # "failed"
    BY <1>1, <1>3, <2>2, AfterAnswerCall
  <2>4. requests' \subseteq requests \cup {c} /\ (c \in requests' => SentBy(AfterAnswer(k, answer)))
    BY <2>2, <2>3 DEF SentBy
  <2>5. CallsInv' /\ calls' \in [Calls -> CallType] /\ requests' \subseteq Calls
    BY <1>2, <2>2, <2>3, <2>4, OneCallMoves
  <2> QED
    BY <1>1, <2>1, <2>5 DEF IInv, TypeOK, Answered, bounds, runtime
<1>11. CASE ReadBackReturns(c)
  <2>1. PICK reading \in {device, NoReading} :
          Refreshed(c, reading) /\ Becomes(c, AfterReadBack(k, reading))
    BY <1>11 DEF ReadBackReturns
  <2>2. k.pc = "verifying" /\ k.pc \in Inside /\ device' = device
    BY <1>11 DEF ReadBackReturns, Inside
  <2>3. /\ k.op = "apply" /\ device \in k.tenure /\ device \in k.after
        /\ k.outcome \in {"requested", "uncertain"} /\ (k.outcome = "requested" => k.landed)
    BY <1>3, <2>2 DEF Sound, PlaceOf, SightOf, FateOf
  <2>4. /\ Step(k, AfterReadBack(k, reading))
        /\ AfterReadBack(k, reading).pc \in {"recording", "noting", "done"}
        /\ AfterReadBack(k, reading).pc \in {"recording", "noting"} =>
             AfterReadBack(k, reading).outcome # "failed"
    BY <1>1, <1>3, <2>1, <2>3, AfterReadBackCall
  <2>5. SentBy(AfterReadBack(k, reading))
    BY <2>4 DEF SentBy
  <2>6. CallsInv' /\ calls' \in [Calls -> CallType] /\ requests' \subseteq Calls
    BY <1>6, <2>1, <2>2, <2>4, <2>5
  <2>7. snapshots' \in [1..MaxCoordinators -> Reading]
    BY <1>1, <1>4, <2>1 DEF Refreshed, TypeOK
  <2> QED
    BY <1>1, <1>11, <2>6, <2>7 DEF IInv, TypeOK, ReadBackReturns, bounds, runtime
<1>12. CASE SaveReturns(c)
  <2>1. /\ k.pc = "saving" /\ k.pc \in Inside /\ device' = device
        /\ Becomes(c, Recording(k, "captured")) /\ saved' = k.profile
    BY <1>12 DEF SaveReturns, Inside
  <2>2. /\ k.profile \in Supported
        /\ ~k.stale => \E s \in k.tenure : s.config = k.profile
    BY <1>3, <2>1 DEF Sound, PlaceOf, SightOf
  <2>3. Step(k, Recording(k, "captured"))
    <3>1. "captured" \in Outcome
      BY DEF Outcome
    <3> QED
      BY <1>3, <2>2, <3>1, RecordingCall
  <2>4. CallsInv' /\ calls' \in [Calls -> CallType] /\ requests' \subseteq Calls
    BY <1>5, <1>6, <2>1, <2>3
  <2>5. saved' \in Profiles \cup {NoProfile}
    BY <2>1, <2>2, ActionsAssumption
  <2> QED
    BY <1>1, <1>12, <2>4, <2>5 DEF IInv, TypeOK, SaveReturns, bounds
<1>13. CASE RecordReturns(c) \/ Cancel(c)
  <2>1. PICK n \in {Ended(k), Cancelled(k)} : Becomes(c, n)
    BY <1>13 DEF RecordReturns, Cancel
  <2>2. Step(k, n) /\ n.pc = "done" /\ device' = device
    BY <1>3, <1>13, <2>1, EndedCall, CancelledCall DEF RecordReturns, Cancel
  <2>3. SentBy(n)
    BY <2>2 DEF SentBy
  <2>4. CallsInv' /\ calls' \in [Calls -> CallType] /\ requests' \subseteq Calls
    BY <1>6, <2>1, <2>2, <2>3
  <2> QED
    BY <1>1, <1>13, <2>4 DEF IInv, TypeOK, RecordReturns, Cancel, bounds, runtime
<1> QED
  BY <1>7, <1>8, <1>9, <1>10, <1>11, <1>12, <1>13 DEF Continue

-----------------------------------------------------------------------------
(* The device changes, and every call inside sees it.                      *)

(* What Witnessed makes of one call. *)
Witness(k, d) ==
  IF k.pc \in Inside
  THEN [k EXCEPT !.tenure = @ \cup {d}, !.after = IF @ = {} THEN {} ELSE @ \cup {d}]
  ELSE k

LEMMA WitnessCall ==
  ASSUME NEW d, NEW e \in Device, NEW k, Sound(k, d)
  PROVE  /\ Sound(Witness(k, e), e)
         /\ Witness(k, e).pc = k.pc /\ Witness(k, e).coordinator = k.coordinator
         /\ Witness(k, e).outcome = k.outcome
<1> DEFINE grown == IF k.after = {} THEN {} ELSE k.after \cup {e}
           n == [k EXCEPT !.tenure = k.tenure \cup {e}, !.after = grown]
<1>1. k \in CallType /\ PlaceOf(k) /\ SightOf(k, d) /\ FateOf(k)
  BY DEF Sound
<1>2. CASE k.pc \in Inside
  <2>1. Witness(k, e) = n
    BY <1>1, <1>2 DEF Witness, CallType
  <2>2. grown \in SUBSET Device /\ k.tenure \cup {e} \in SUBSET Device
    BY <1>1 DEF CallType
  <2>3. n \in CallType
    <3> HIDE DEF grown
    <3> QED
      BY <1>1, <2>2 DEF CallType
  <2>4. /\ n.pc = k.pc /\ n.op = k.op /\ n.auto = k.auto /\ n.coordinator = k.coordinator
        /\ n.profile = k.profile /\ n.read = k.read /\ n.outcome = k.outcome
        /\ n.tenure = k.tenure \cup {e} /\ n.after = grown
        /\ n.landed = k.landed /\ n.stale = k.stale
    BY <1>1 DEF CallType
  <2>5. k.pc \in {"sending", "verifying"} => e \in grown
    BY <1>1 DEF SightOf
  <2> HIDE DEF n, grown
  <2>6. PlaceOf(n) /\ FateOf(n)
    BY <1>1, <2>4 DEF PlaceOf, FateOf
  <2>7. SightOf(n, e)
    <3>1. n.pc \notin {"recording"}
      BY <1>2, <2>4 DEF Inside
    <3>2. n.op = "capture" /\ n.pc \in {"asking", "saving", "recording"} /\ ~n.stale =>
            \E s \in n.tenure : s.config = n.profile
      BY <1>1, <2>4 DEF SightOf
    <3> QED
      BY <1>1, <2>4, <2>5, <3>1, <3>2 DEF SightOf
  <2> QED
    BY <2>1, <2>3, <2>4, <2>6, <2>7 DEF Sound
<1>3. CASE k.pc \notin Inside
  <2>1. Witness(k, e) = k
    BY <1>3 DEF Witness
  <2>2. SightOf(k, e)
    BY <1>1, <1>3 DEF SightOf, Inside
  <2> QED
    BY <1>1, <2>1, <2>2 DEF Sound
<1> QED
  BY <1>2, <1>3

(* cs: the calls when the device changes.                                  *)
LEMMA DeviceChanges ==
  ASSUME IInv, NEW cs, cs \in [Calls -> CallType],
         \A c \in Calls : /\ Sound(cs[c], device)
                         /\ cs[c].pc = calls[c].pc
                         /\ cs[c].coordinator = calls[c].coordinator
                         /\ cs[c].outcome = calls[c].outcome,
         device' \in Device, calls' = Witnessed(cs, device'), requests' \subseteq requests
  PROVE  CallsInv' /\ calls' \in [Calls -> CallType]
<1>1. ASSUME NEW c \in Calls
      PROVE  /\ Sound(calls'[c], device')
             /\ calls'[c].pc = calls[c].pc
             /\ calls'[c].coordinator = calls[c].coordinator
             /\ calls'[c].outcome = calls[c].outcome
  <2>1. calls'[c] = Witness(cs[c], device')
    BY DEF Witnessed, Witness
  <2> QED
    BY <2>1, WitnessCall
<1>2. calls' \in [Calls -> CallType]
  <2>1. calls' = [c \in Calls |-> calls'[c]]
    BY DEF Witnessed
  <2>2. \A c \in Calls : calls'[c] \in CallType
    BY <1>1 DEF Sound
  <2> QED
    BY <2>1, <2>2
<1>3. LockInv'
  <2>1. LockInv
    BY DEF IInv, CallsInv
  <2> DEFINE S == {}
  <2>2. S \in SUBSET Calls /\ \A c \in S : FALSE
    OBVIOUS
  <2>3. \A c \in Calls \ S : /\ calls'[c].pc = calls[c].pc
                             /\ calls'[c].coordinator = calls[c].coordinator
    BY <1>1
  <2> HIDE DEF S
  <2> QED
    BY <2>1, <2>2, <2>3, LockKept
<1>4. \A c \in Calls : Sound(calls[c], device)'
  BY <1>1
<1>5. \A c \in requests' : SentBy(calls[c])'
  <2>1. \A c \in requests' : c \in Calls /\ SentBy(calls[c])
    BY DEF IInv, CallsInv, TypeOK
  <2>2. \A c \in requests' : SentBy(calls'[c])
    BY <1>1, <2>1 DEF SentBy
  <2> QED
    BY <2>2
<1> QED
  BY <1>2, <1>3, <1>4, <1>5 DEF CallsInv

LEMMA EffectOnDevice ==
  ASSUME device \in Device, NEW k \in CallType
  PROVE  Effect(k) \in Device
BY DEF Effect, Device, CallType

LEMMA CarriedOutStep ==
  ASSUME IInv, NEW c \in Calls, CarriedOut(c)
  PROVE  IInv'
<1> DEFINE k == calls[c]
           landed == [k EXCEPT !.landed = (k.pc # "done")]
           cs == [calls EXCEPT ![c] = landed]
<1>1. /\ calls \in [Calls -> CallType] /\ device \in Device /\ Sound(k, device)
      /\ c \in requests /\ SentBy(k) /\ TypeOK
  BY DEF IInv, TypeOK, CallsInv, CarriedOut
<1>2. /\ landed \in CallType /\ landed.pc = k.pc /\ landed.op = k.op
      /\ landed.auto = k.auto /\ landed.coordinator = k.coordinator
      /\ landed.profile = k.profile /\ landed.read = k.read
      /\ landed.outcome = k.outcome /\ landed.tenure = k.tenure
      /\ landed.after = k.after /\ landed.stale = k.stale
      /\ landed.landed = (k.pc # "done")
  BY <1>1 DEF CallType
<1>3. Sound(landed, device)
  <2> HIDE DEF landed
  <2>1. PlaceOf(landed) /\ SightOf(landed, device)
    BY <1>1, <1>2 DEF Sound, PlaceOf, SightOf
  <2>2. FateOf(landed)
    BY <1>1, <1>2 DEF Sound, FateOf, SentBy
  <2> QED
    BY <1>2, <2>1, <2>2 DEF Sound
<1>4. cs \in [Calls -> CallType]
  BY <1>1, <1>2
<1>5. \A d \in Calls : /\ Sound(cs[d], device)
                       /\ cs[d].pc = calls[d].pc
                       /\ cs[d].coordinator = calls[d].coordinator
                       /\ cs[d].outcome = calls[d].outcome
  <2> HIDE DEF landed
  <2> QED
    BY <1>1, <1>2, <1>3 DEF IInv, CallsInv
<1>6. /\ device' \in Device /\ calls' = Witnessed(cs, device')
      /\ requests' \subseteq requests
  <2>1. device' = Effect(k) /\ requests' = requests \ {c}
        /\ calls' = Witnessed([calls EXCEPT ![c].landed = k.pc # "done"], device')
    BY DEF CarriedOut
  <2>2. cs = [calls EXCEPT ![c].landed = k.pc # "done"]
    OBVIOUS
  <2> QED
    BY <1>1, <2>1, <2>2, EffectOnDevice
<1> HIDE DEF cs, landed, k
<1>7. CallsInv' /\ calls' \in [Calls -> CallType]
  BY <1>4, <1>5, <1>6, DeviceChanges
<1> QED
  BY <1>1, <1>6, <1>7 DEF IInv, TypeOK, CarriedOut, bounds, runtime

LEMMA WebPageStep ==
  ASSUME IInv, WebPage
  PROVE  IInv'
<1>1. TypeOK /\ calls \in [Calls -> CallType] /\ \A c \in Calls : Sound(calls[c], device)
  BY DEF IInv, TypeOK, CallsInv
<1>2. device' \in Device /\ calls' = Witnessed(calls, device') /\ requests' = requests
  BY ActionsAssumption DEF WebPage
<1>3. CallsInv' /\ calls' \in [Calls -> CallType]
  BY <1>1, <1>2, DeviceChanges
<1>4. changes' \in 0..MaxChanges
  BY <1>1, ActionsAssumption DEF TypeOK, WebPage
<1> QED
  BY <1>1, <1>2, <1>3, <1>4 DEF IInv, TypeOK, WebPage, runtime

LEMMA PollStep ==
  ASSUME IInv, Poll
  PROVE  IInv'
<1>1. TypeOK /\ CallsInv'
  BY DEF IInv, CallsInv, LockInv, FirstInLine, Queue, Waiters, Poll
<1>2. polls' \in 0..MaxPolls /\ snapshots' \in [1..MaxCoordinators -> Reading]
  BY <1>1, ActionsAssumption DEF TypeOK, Poll, Reading
<1> QED
  BY <1>1, <1>2 DEF IInv, TypeOK, Poll, runtime

LEMMA DisableStep ==
  ASSUME IInv, Disable
  PROVE  IInv'
<1> DEFINE S == {c \in Calls : calls[c].auto /\ calls[c].pc # "done"}
<1>1. /\ TypeOK /\ calls \in [Calls -> CallType]
      /\ \A c \in Calls : Sound(calls[c], device)
      /\ LockInv /\ device' = device /\ requests' = requests
  BY DEF IInv, TypeOK, CallsInv, Disable
<1>2. ASSUME NEW c \in S
      PROVE  /\ calls'[c] = Cancelled(calls[c]) /\ calls[c].pc # "idle"
             /\ Step(calls[c], calls'[c]) /\ calls'[c].pc = "done"
  <2>1. calls'[c] = Cancelled(calls[c]) /\ calls[c].pc # "idle"
    BY <1>1, <1>2 DEF Disable, Sound, PlaceOf
  <2>2. Live(calls[c])
    BY <1>2, <2>1, LiveCall
  <2> QED
    BY <2>1, <2>2, CancelledCall
<1>3. \A c \in Calls \ S : calls'[c] = calls[c]
  BY DEF Disable
<1>4. \A c \in Calls : Sound(calls[c], device)'
  <2>1. \A c \in Calls : Sound(calls'[c], device)
    BY <1>1, <1>2, <1>3 DEF Step
  <2> QED
    BY <1>1, <2>1
<1>5. \A c \in requests' : SentBy(calls[c])'
  <2>1. \A c \in requests : c \in Calls /\ SentBy(calls[c])
    BY DEF IInv, TypeOK, CallsInv
  <2>2. \A c \in requests : SentBy(calls'[c])
    BY <1>2, <1>3, <2>1 DEF SentBy
  <2> QED
    BY <1>1, <2>2
<1>6. LockInv'
  <2>1. \A c \in S : /\ calls[c].pc # "idle"
                     /\ calls'[c].coordinator = calls[c].coordinator
                     /\ calls'[c].pc \in Inside \cup {"recording", "done"}
                     /\ calls'[c].pc \notin Inside
    BY <1>2 DEF Step, Inside
  <2>2. S \in SUBSET Calls
    OBVIOUS
  <2> HIDE DEF S
  <2> QED
    BY <1>1, <1>3, <2>1, <2>2, LockKept
<1>7. calls' \in [Calls -> CallType]
  <2>1. calls' = [c \in Calls |-> calls'[c]]
    BY DEF Disable
  <2>2. \A c \in Calls : calls'[c] \in CallType
    BY <1>1, <1>2, <1>3 DEF Step, Sound
  <2> QED
    BY <2>1, <2>2
<1> QED
  BY <1>1, <1>4, <1>5, <1>6, <1>7 DEF IInv, CallsInv, TypeOK, Disable, bounds

LEMMA EnableStep ==
  ASSUME IInv, Enable
  PROVE  IInv'
<1>1. TypeOK /\ CallsInv'
  BY DEF IInv, CallsInv, LockInv, FirstInLine, Queue, Waiters, Enable
<1>2. created' \in 1..MaxCoordinators /\ current' \in {0, created'}
  BY <1>1, ActionsAssumption DEF TypeOK, Enable
<1> QED
  BY <1>1, <1>2 DEF IInv, TypeOK, Enable, bounds

-----------------------------------------------------------------------------
(* The invariant, and what follows from it.                                *)

LEMMA Initially == Init => IInv
<1> SUFFICES ASSUME Init PROVE IInv
  OBVIOUS
<1> USE ActionsAssumption
<1>1. PICK first \in Beginnings : device = first.device /\ saved = first.saved
  BY DEF Init
<1>2. device \in Device /\ saved \in Profiles \cup {NoProfile}
  BY <1>1
<1>3. snapshots \in [1..MaxCoordinators -> Reading]
  BY <1>2 DEF Init, Reading
<1>4. IdleCall \in CallType
  <2>1. /\ "idle" \in Pc /\ "none" \in Outcome /\ NoReading \in Reading
        /\ {} \in SUBSET Device /\ 0 \in 0..MaxCoordinators
    BY DEF Pc, Outcome, Reading
  <2> QED
    BY <2>1 DEF IdleCall, CallType
<1>5. \A c \in Calls : calls[c] = IdleCall
  BY DEF Init
<1>6. calls \in [Calls -> CallType] /\ requests = {}
  BY <1>4 DEF Init
<1>7. Sound(IdleCall, device) /\ IdleCall.pc = "idle"
  BY <1>4 DEF IdleCall, Sound, PlaceOf, SightOf, FateOf, Inside
<1>8. TypeOK
  BY <1>2, <1>3, <1>6 DEF Init, TypeOK
<1>9. LockInv
  BY <1>5, <1>7 DEF LockInv, Inside
<1> QED
  BY <1>5, <1>6, <1>7, <1>8, <1>9 DEF IInv, CallsInv

LEMMA Inductive == IInv /\ [Next]_vars => IInv'
<1> SUFFICES ASSUME IInv, [Next]_vars PROVE IInv'
  OBVIOUS
<1>1. ASSUME NEW c \in Calls, StartService(c) PROVE IInv'
  <2>1. PICK op \in Operation : Start(c, op, FALSE)
    BY <1>1, ActionsAssumption DEF StartService
  <2> QED
    BY <2>1, StartStep
<1>2. ASSUME NEW c \in Calls, StartRecovery(c) PROVE IInv'
  <2>1. PICK op \in {"restart", "apply"} : Start(c, op, TRUE)
    BY <1>2 DEF StartRecovery
  <2>2. op \in Operation
    BY DEF Operation, NamedAction
  <2> QED
    BY <2>1, <2>2, StartStep
<1>3. CASE UNCHANGED vars
  BY <1>3 DEF IInv, TypeOK, CallsInv, LockInv, FirstInLine, Queue, Waiters,
              vars, bounds, runtime
<1> QED
  BY <1>1, <1>2, <1>3, ContinueStep, CarriedOutStep, WebPageStep, PollStep, DisableStep,
     EnableStep DEF Next

(* In every behaviour IInv holds.                                          *)
LEMMA Always == Spec => []IInv
BY Initially, Inductive, PTL DEF Spec

(* Every state is of its type.                                             *)
THEOREM TypesOK == Spec => []TypeOK
<1>1. IInv => TypeOK
  BY DEF IInv
<1> QED
  BY <1>1, Always, PTL

(* While a mutation awaits its answer no other call of the coordinator is  *)
(* inside the lock (coordinator.py:121).                                   *)
THEOREM MutationsSerialized == Spec => []SerializedMutations
<1>1. IInv => SerializedMutations
  <2> SUFFICES ASSUME IInv, NEW c \in Calls, NEW d \in Calls, c # d,
                      calls[c].pc = "sending", calls[d].coordinator = calls[c].coordinator
               PROVE  calls[d].pc \notin Inside
    BY DEF SerializedMutations, Inside
  <2> QED
    BY Exclusion DEF IInv, CallsInv, Inside
<1> QED
  BY <1>1, Always, PTL

(* A mutation goes out on what the device said after the lock was had.     *)
THEOREM FreshReadFollowed == Spec => []MutationFollowsFreshRead
<1>1. IInv => MutationFollowsFreshRead
  BY DEF IInv, CallsInv, Sound, SightOf, MutationFollowsFreshRead
<1> QED
  BY <1>1, Always, PTL

(* A captured profile is allowed and was on the device in one piece.       *)
THEOREM CapturedHeld == Spec => []CapturedWasHeld
<1>1. IInv => CapturedWasHeld
  <2> SUFFICES ASSUME IInv, NEW c \in Calls, calls[c].op = "capture",
                      calls[c].pc \in {"saving", "recording"}
               PROVE  /\ calls[c].profile \in Supported
                      /\ ~calls[c].stale =>
                           \E state \in calls[c].tenure : state.config = calls[c].profile
    BY DEF CapturedWasHeld
  <2>1. SightOf(calls[c], device)
    BY DEF IInv, CallsInv, Sound
  <2> QED
    BY <2>1 DEF SightOf
<1> QED
  BY <1>1, Always, PTL

(* A verified profile was on the device after the PATCH was sent.          *)
LEMMA VerifiedReadBack ==
  ASSUME IInv
  PROVE  VerifiedWasReadBack
BY DEF IInv, CallsInv, Sound, SightOf, VerifiedWasReadBack

(* What an incident says of a mutation is what became of it, and a profile *)
(* it calls verified was on the device after the PATCH was sent.           *)
THEOREM OutcomeIsTrue == Spec => []RecordedOutcomeIsTrue
<1>1. ASSUME IInv, NEW c \in Calls, calls[c].pc \in {"recording", "noting"}
      PROVE  /\ calls[c].outcome \in {"requested", "drift"} => calls[c].landed
             /\ calls[c].outcome = "failed" => ~calls[c].landed /\ c \notin requests
  <2>1. FateOf(calls[c]) /\ (c \in requests => SentBy(calls[c]))
    BY <1>1 DEF IInv, CallsInv, Sound
  <2> QED
    BY <1>1, <2>1 DEF FateOf, SentBy
<1>2. IInv => RecordedOutcomeIsTrue
  BY <1>1, VerifiedReadBack DEF RecordedOutcomeIsTrue
<1> QED
  BY <1>2, Always, PTL
=============================================================================
