------------------------- MODULE TelegramPollerProofs -------------------------
(***************************************************************************)
(* Proofs about TelegramPoller, for any chats, updates, requests, pollers  *)
(* and faults.                                                             *)
(***************************************************************************)
EXTENDS TelegramPoller, FiniteSetTheorems, WellFoundedInduction, TLAPS

LEMMA UpdatesAreNumbers == Updates \subseteq Nat
BY UpdatesAssumption, FS_CardinalityType

(* What the tasks hold.                                                    *)

PollerType == [at : Awaits \cup {"none", "dispatch", "over"}, offset : Nat, next : Nat \ {0},
               last : Nat, aborted : BOOLEAN]
WorkerType == [at : {"none", "wait", "late", "run", "over"}, queue : Seq(Updates), closed : BOOLEAN]
HandlerType == [at : {"idle", "turn", "write", "undo"}, op : {"on", "off", "gone"}]

\* TypeOK, without what it says of offsets and chats.
Typed ==
  /\ row \in {"on", "off", "gone"}
  /\ handler \in [Handlers -> HandlerType]
  /\ sent \in Nat /\ 1..sent \subseteq Updates /\ floor \in Nat \ {0}
  /\ poller \in [Pollers -> PollerType]
  /\ \A p \in Pollers : poller[p].last <= sent
  /\ route \in [Pollers -> [Chats -> Nat]]
  /\ worker \in [Workers -> WorkerType]
  /\ dispatched \subseteq Jobs /\ done \subseteq Jobs /\ refused \subseteq Doubtful
  /\ dark \in BOOLEAN /\ overlapped \in BOOLEAN
  /\ asks \in 0..MaxAsks /\ faults \in 0..MaxFaults

Begun == [NoPoller EXCEPT !.at = "ask"]

LEMMA Records ==
  /\ NoPoller \in PollerType /\ Over \in PollerType /\ Begun \in PollerType
  /\ \A r \in {NoPoller, Over, Begun} :
       r.last = 0 /\ r.offset = 0 /\ r.next = 1 /\ r.at \notin {"poll", "reread", "dispatch"}
  /\ NoWorker \in WorkerType /\ Gone \in WorkerType /\ Free \in HandlerType
<1>1. /\ NoPoller \in PollerType /\ NoPoller.last = 0 /\ NoPoller.offset = 0 /\ NoPoller.next = 1
      /\ NoPoller.at = "none"
  BY DEF NoPoller, PollerType
<1>2. /\ Over \in PollerType /\ Begun \in PollerType
      /\ \A r \in {Over, Begun} : r.last = NoPoller.last /\ r.offset = NoPoller.offset
                                 /\ r.next = NoPoller.next /\ r.at \in {"over", "ask"}
  BY <1>1 DEF Over, Begun, PollerType, Awaits
<1>3. <<>> \in Seq(Updates)
  OBVIOUS
<1>4. NoWorker \in WorkerType
  BY <1>3 DEF NoWorker, WorkerType
<1>5. Gone \in WorkerType
  BY <1>4 DEF Gone, WorkerType
<1>7. Free \in HandlerType
  BY DEF Free, HandlerType
<1> QED BY <1>1, <1>2, <1>4, <1>5, <1>7

LEMMA FaultType == ASSUME Typed, Fault PROVE asks' \in 0..MaxAsks /\ faults' \in 0..MaxFaults
BY BoundsAssumption DEF Fault, Typed

\* A poller begins, whichever identity it takes.
LEMMA SpawnedType ==
  ASSUME Typed, poller' = [poller EXCEPT ![NextPoller] = Begun]
  PROVE  /\ poller' \in [Pollers -> PollerType]
         /\ \A q \in Pollers : poller'[q] = poller[q] \/ poller'[q] = Begun
BY Records DEF Typed

LEMMA AbortedType ==
  ASSUME Typed, Aborted
  PROVE  /\ poller' \in [Pollers -> PollerType]
         /\ \A q \in Pollers : \/ poller'[q] = poller[q]
                               \/ poller'[q] = Over
                               \/ poller'[q] = [poller[q] EXCEPT !.aborted = TRUE]
<1>1. \A q \in Pollers : Abort(q) \in PollerType
  BY Records DEF Abort, Typed, PollerType
<1>2. CASE registry = 0
  BY <1>2 DEF Aborted, Typed
<1>3. CASE registry # 0
  <2>1. poller' = [poller EXCEPT ![registry] = Abort(registry)]
    BY <1>3 DEF Aborted
  <2>2. \A q \in Pollers : poller'[q] = IF q = registry THEN Abort(q) ELSE poller[q]
    BY <2>1 DEF Typed
  <2>3. poller' \in [Pollers -> PollerType]
    BY <1>1, <2>1 DEF Typed
  <2> QED BY <2>2, <2>3 DEF Abort
<1> QED BY <1>2, <1>3

LEMMA HandType ==
  ASSUME Typed, NEW h \in Handlers, NEW to \in {"idle", "turn", "write", "undo"}, NEW from, Hand(h, from, to)
  PROVE  handler' \in [Handlers -> HandlerType]
BY DEF Hand, Typed, HandlerType

\* Moving a poller to another await keeps the rest of its record.
LEMMA AtType ==
  ASSUME Typed, NEW p \in Pollers, NEW from, NEW to \in Awaits \cup {"dispatch"}, At(p, from, to)
  PROVE  /\ poller' \in [Pollers -> PollerType]
         /\ poller[p].at = from
         /\ poller'[p] = [poller[p] EXCEPT !.at = to]
         /\ \A q \in Pollers \ {p} : poller'[q] = poller[q]
         /\ \A q \in Pollers : /\ poller'[q].offset = poller[q].offset /\ poller'[q].last = poller[q].last
                               /\ poller'[q].next = poller[q].next
<1>1. /\ poller' = [poller EXCEPT ![p].at = to] /\ poller[p].at = from
      /\ poller[p] \in PollerType
  BY DEF At, Typed
<1>2. [poller[p] EXCEPT !.at = to] \in PollerType
  BY <1>1 DEF PollerType
<1>3. /\ poller'[p] = [poller[p] EXCEPT !.at = to]
      /\ \A q \in Pollers \ {p} : poller'[q] = poller[q]
      /\ poller' \in [Pollers -> PollerType]
  BY <1>1, <1>2 DEF Typed
<1>4. /\ poller'[p].offset = poller[p].offset /\ poller'[p].last = poller[p].last
      /\ poller'[p].next = poller[p].next
  BY <1>1, <1>3 DEF PollerType
<1> QED BY <1>1, <1>3, <1>4

LEMMA EndsType ==
  ASSUME Typed, NEW p \in Pollers, NEW from, Ends(p, from)
  PROVE  /\ poller' \in [Pollers -> PollerType]
         /\ poller'[p] = Over /\ \A q \in Pollers \ {p} : poller'[q] = poller[q]
BY Records DEF Ends, Typed

\* What requests and restarts do to the pollers.
LEMMA HandlerStep ==
  ASSUME Typed, NEW h \in Handlers, Handle(h) \/ WriteFails(h)
  PROVE  /\ Typed'
         /\ \A q \in Pollers : \/ poller'[q] = poller[q]
                               \/ poller'[q] \in {Begun, Over}
                               \/ poller'[q] = [poller[q] EXCEPT !.aborted = TRUE]
         /\ UNCHANGED <<sent, floor, chats, history>>
<1>0. /\ sent \in Nat /\ 1..sent \subseteq Updates /\ floor \in Nat \ {0}
      /\ \A p \in Pollers : poller[p].last <= sent /\ poller[p] \in PollerType
      /\ row \in {"on", "off", "gone"}
      /\ route \in [Pollers -> [Chats -> Nat]] /\ worker \in [Workers -> WorkerType]
      /\ dispatched \subseteq Jobs /\ done \subseteq Jobs /\ refused \subseteq Doubtful
      /\ dark \in BOOLEAN /\ overlapped \in BOOLEAN
      /\ asks \in 0..MaxAsks /\ faults \in 0..MaxFaults
      /\ \A g \in Handlers : handler[g].op \in {"on", "off", "gone"}
  BY DEF Typed, HandlerType
<1>1. UNCHANGED <<sent, floor, chats, history, overlapped>>
  BY DEF Handle, TurnOn, TurnOff, WriteRow, Undo, WriteFails, UpdateFails, DeleteFails, Dropped
<1>2. handler' \in [Handlers -> HandlerType]
  BY HandType DEF Handle, TurnOn, TurnOff, WriteRow, Undo, WriteFails, UpdateFails, DeleteFails, Dropped
<1>3. row' \in {"on", "off", "gone"} /\ dark' \in BOOLEAN
  BY <1>0 DEF Handle, TurnOn, TurnOff, WriteRow, Undo, WriteFails, UpdateFails, DeleteFails, Dropped
<1>4. asks' \in 0..MaxAsks /\ faults' \in 0..MaxFaults
  BY <1>0, FaultType DEF Handle, TurnOn, TurnOff, WriteRow, Undo, WriteFails, UpdateFails, DeleteFails, Dropped, budget
<1>5. Aborted \/ Spawned \/ UNCHANGED poller
  BY DEF Handle, TurnOn, TurnOff, WriteRow, Undo, WriteFails, UpdateFails, DeleteFails, Dropped
<1>6. /\ poller' \in [Pollers -> PollerType]
      /\ \A q \in Pollers : \/ poller'[q] = poller[q]
                            \/ poller'[q] \in {Begun, Over}
                            \/ poller'[q] = [poller[q] EXCEPT !.aborted = TRUE]
  <2>1. CASE Aborted
    BY <2>1, AbortedType
  <2>2. CASE Spawned
    BY <2>2, SpawnedType DEF Spawned, Begun
  <2>3. CASE UNCHANGED poller
    BY <2>3 DEF Typed
  <2> QED BY <1>5, <2>1, <2>2, <2>3
<1>7. ASSUME NEW q \in Pollers PROVE poller'[q].last <= sent
  <2>1. CASE poller'[q] = poller[q]
    BY <1>0, <2>1
  <2>2. CASE poller'[q] \in {Begun, Over}
    BY <1>0, <2>2, Records
  <2>3. CASE poller'[q] = [poller[q] EXCEPT !.aborted = TRUE]
    BY <1>0, <2>3 DEF PollerType
  <2> QED BY <1>6, <2>1, <2>2, <2>3
<1> QED BY <1>0, <1>1, <1>2, <1>3, <1>4, <1>6, <1>7 DEF Typed, chats, history

-----------------------------------------------------------------------------
(* The offset.                                                             *)

Below(n, d, f) == \A u \in 1 .. n - 1 : u \in f \/ \E p \in Pollers : <<p, u>> \in d

\* Neither what Telegram has forgotten, nor what the next getUpdates makes it
\* forget, nor what is behind the loop over a batch has been passed over.
OffsetInv ==
  /\ Below(floor, dispatched, refused)
  /\ \A p \in Pollers :
       /\ Below(poller[p].offset, dispatched, refused)
       /\ poller[p].at \in {"reread", "dispatch"} => Below(poller[p].next, dispatched, refused)

LEMMA BelowOne == \A d, f : Below(0, d, f) /\ Below(1, d, f)
BY DEF Below

LEMMA BelowMore ==
  ASSUME NEW n, NEW d, NEW f, NEW e, NEW g, d \subseteq e, f \subseteq g, Below(n, d, f)
  PROVE  Below(n, e, g)
BY DEF Below

LEMMA BelowNext ==
  ASSUME NEW n \in Nat \ {0}, NEW d, NEW f, Below(n, d, f),
         n \in f \/ \E p \in Pollers : <<p, n>> \in d
  PROVE  Below(n + 1, d, f)
<1> SUFFICES ASSUME NEW u \in 1..n PROVE u \in f \/ \E p \in Pollers : <<p, u>> \in d
  BY DEF Below
<1>1. CASE u = n
  BY <1>1
<1>2. CASE u \in 1 .. n - 1
  BY <1>2 DEF Below
<1> QED BY <1>1, <1>2

\* A step after which every poller is where it was, or at the start or end of
\* its life, keeps the offsets right.
LEMMA OffsetKept ==
  ASSUME Typed, OffsetInv, floor' = floor, dispatched \subseteq dispatched', refused \subseteq refused',
         \A q \in Pollers : \/ poller'[q] = poller[q]
                            \/ poller'[q] \in {NoPoller, Begun, Over}
                            \/ poller'[q] = [poller[q] EXCEPT !.aborted = TRUE]
  PROVE  OffsetInv'
<1>1. Below(floor, dispatched', refused')
  BY BelowMore DEF OffsetInv
<1>2. ASSUME NEW q \in Pollers
      PROVE  /\ Below(poller'[q].offset, dispatched', refused')
             /\ poller'[q].at \in {"reread", "dispatch"} => Below(poller'[q].next, dispatched', refused')
  <2>1. /\ Below(poller[q].offset, dispatched', refused')
        /\ poller[q].at \in {"reread", "dispatch"} => Below(poller[q].next, dispatched', refused')
    BY BelowMore DEF OffsetInv
  <2>2. CASE poller'[q] = poller[q]
    BY <2>1, <2>2
  <2>3. CASE poller'[q] \in {NoPoller, Begun, Over}
    BY <2>3, BelowOne, Records
  <2>4. CASE poller'[q] = [poller[q] EXCEPT !.aborted = TRUE]
    <3>1. poller[q] \in PollerType
      BY DEF Typed
    <3>2. /\ poller'[q].offset = poller[q].offset /\ poller'[q].at = poller[q].at
          /\ poller'[q].next = poller[q].next
      BY <2>4, <3>1 DEF PollerType
    <3> QED BY <2>1, <3>2
  <2> QED BY <2>2, <2>3, <2>4
<1> QED BY <1>1, <1>2 DEF OffsetInv

\* A step that replaces one poller's record, when the new one may have the
\* offset it has.
LEMMA OnePoller ==
  ASSUME Typed, OffsetInv, NEW p \in Pollers, NEW r \in PollerType,
         poller' \in [Pollers -> PollerType], poller'[p] = r,
         \A q \in Pollers \ {p} : poller'[q] = poller[q],
         r.last <= sent, sent' = sent,
         dispatched \subseteq dispatched', refused \subseteq refused',
         Below(floor', dispatched', refused'), Below(r.offset, dispatched', refused'),
         r.at \in {"reread", "dispatch"} => Below(r.next, dispatched', refused')
  PROVE  OffsetInv' /\ \A q \in Pollers : poller'[q].last <= sent'
<1>1. ASSUME NEW q \in Pollers
      PROVE  /\ Below(poller'[q].offset, dispatched', refused')
             /\ poller'[q].at \in {"reread", "dispatch"} => Below(poller'[q].next, dispatched', refused')
             /\ poller'[q].last <= sent'
  <2>1. CASE q = p
    BY <2>1
  <2>2. CASE q # p
    <3>1. poller'[q] = poller[q]
      BY <2>2
    <3>2. /\ Below(poller[q].offset, dispatched', refused')
          /\ poller[q].at \in {"reread", "dispatch"} => Below(poller[q].next, dispatched', refused')
      BY BelowMore DEF OffsetInv
    <3>3. poller[q].last <= sent
      BY DEF Typed
    <3> QED BY <3>1, <3>2, <3>3
  <2> QED BY <2>1, <2>2
<1> QED BY <1>1 DEF OffsetInv

\* The record of a poller that goes on with the next iteration.
LEMMA NextIteration ==
  ASSUME NEW o \in Nat
  PROVE  LET r == [NoPoller EXCEPT !.at = "read", !.offset = o]
         IN r \in PollerType /\ r.at = "read" /\ r.offset = o /\ r.last = 0
<1> DEFINE a == [NoPoller EXCEPT !.at = "read"]
           r == [a EXCEPT !.offset = o]
<1>1. a \in PollerType /\ a.at = "read" /\ a.last = 0
  BY Records DEF PollerType, Awaits
<1>2. r \in PollerType /\ r.at = a.at /\ r.offset = o /\ r.last = a.last
  <2> HIDE DEF a
  <2> QED BY <1>1 DEF PollerType
<1> QED BY <1>1, <1>2

\* What a step of a poller does, as far as the offset goes.
LEMMA PollOffsets ==
  ASSUME Typed, OffsetInv, NEW p \in Pollers, Poll(p) \/ TryAgain(p)
  PROVE  /\ OffsetInv' /\ \A q \in Pollers : poller'[q].last <= sent'
         /\ poller' \in [Pollers -> PollerType] /\ floor' \in Nat \ {0}
<1>0. /\ poller[p] \in PollerType /\ sent \in Nat /\ floor \in Nat \ {0} /\ poller[p].last <= sent
      /\ poller \in [Pollers -> PollerType]
  BY DEF Typed
<1>1. /\ poller[p].offset \in Nat /\ poller[p].next \in Nat \ {0} /\ poller[p].last \in Nat
  BY <1>0 DEF PollerType
<1>2. /\ Below(floor, dispatched, refused) /\ Below(poller[p].offset, dispatched, refused)
      /\ poller[p].at \in {"reread", "dispatch"} => Below(poller[p].next, dispatched, refused)
  BY DEF OffsetInv
<1>3. sent' = sent /\ dispatched \subseteq dispatched' /\ refused \subseteq refused'
  BY DEF Poll, TryAgain, ReadRow, Ask, Answer, Reread, Dispatch, BatchOver, PollStep, history
<1>4. ASSUME NEW from, NEW to \in Awaits \cup {"dispatch"}, At(p, from, to),
             from \in {"reread", "dispatch"} \/ to \notin {"reread", "dispatch"},
             Below(floor', dispatched, refused)
      PROVE  OffsetInv' /\ (\A q \in Pollers : poller'[q].last <= sent') /\ poller' \in [Pollers -> PollerType]
  <2> DEFINE r == [poller[p] EXCEPT !.at = to]
  <2>1. /\ poller' \in [Pollers -> PollerType] /\ poller[p].at = from /\ poller'[p] = r
        /\ \A q \in Pollers \ {p} : poller'[q] = poller[q]
    BY <1>4, AtType
  <2>2. r \in PollerType
    BY <2>1
  <2>3. /\ r.at = to /\ r.offset = poller[p].offset /\ r.next = poller[p].next /\ r.last = poller[p].last
    BY <1>0 DEF PollerType
  <2>4. r.at \in {"reread", "dispatch"} => Below(r.next, dispatched, refused)
    BY <1>2, <1>4, <2>1, <2>3
  <2> HIDE DEF r
  <2>5. /\ Below(floor', dispatched', refused') /\ Below(r.offset, dispatched', refused')
        /\ r.at \in {"reread", "dispatch"} => Below(r.next, dispatched', refused')
    BY <1>2, <1>3, <1>4, <2>3, <2>4, BelowMore
  <2>6. r.last <= sent
    BY <1>0, <2>3
  <2> QED BY <1>3, <2>1, <2>2, <2>5, <2>6, OnePoller
<1>5. ASSUME NEW from, Ends(p, from), floor' = floor
      PROVE  OffsetInv' /\ (\A q \in Pollers : poller'[q].last <= sent') /\ poller' \in [Pollers -> PollerType]
  <2>1. /\ poller' \in [Pollers -> PollerType] /\ poller'[p] = Over
        /\ \A q \in Pollers \ {p} : poller'[q] = poller[q]
    BY <1>5, EndsType
  <2>2. OffsetInv'
    BY <1>3, <1>5, <2>1, OffsetKept
  <2>3. \A q \in Pollers : poller'[q].last <= sent
    BY <1>0, <2>1, Records DEF Typed
  <2> QED BY <1>3, <2>1, <2>2, <2>3
<1>6. ASSUME NEW r \in PollerType, poller' = [poller EXCEPT ![p] = r], floor' = floor, r.last <= sent,
             Below(r.offset, dispatched', refused'),
             r.at \in {"reread", "dispatch"} => Below(r.next, dispatched', refused')
      PROVE  OffsetInv' /\ (\A q \in Pollers : poller'[q].last <= sent') /\ poller' \in [Pollers -> PollerType]
  <2>1. /\ poller' \in [Pollers -> PollerType] /\ poller'[p] = r
        /\ \A q \in Pollers \ {p} : poller'[q] = poller[q]
    BY <1>0, <1>6
  <2>2. Below(floor', dispatched', refused')
    BY <1>2, <1>3, <1>6, BelowMore
  <2> QED BY <1>3, <1>6, <2>1, <2>2, OnePoller
<1>7. ASSUME NEW o \in Nat, Below(o, dispatched, refused), floor' = floor,
             poller' = [poller EXCEPT ![p] = [NoPoller EXCEPT !.at = "read", !.offset = o]]
      PROVE  OffsetInv' /\ (\A q \in Pollers : poller'[q].last <= sent') /\ poller' \in [Pollers -> PollerType]
  <2> DEFINE r == [NoPoller EXCEPT !.at = "read", !.offset = o]
  <2>1. r \in PollerType /\ r.at = "read" /\ r.offset = o /\ r.last = 0
    BY NextIteration
  <2>2. poller' = [poller EXCEPT ![p] = r]
    BY <1>7
  <2> HIDE DEF r
  <2>3. Below(r.offset, dispatched', refused') /\ r.last <= sent
    BY <1>0, <1>3, <1>7, <2>1, BelowMore
  <2> QED BY <1>6, <1>7, <2>1, <2>2, <2>3
<1>8. ASSUME Confirm(p) PROVE floor' \in Nat \ {0} /\ Below(floor', dispatched, refused)
  BY <1>0, <1>1, <1>2, <1>8 DEF Confirm
<1>a. CASE ReadRow(p)
  <2>1. CASE row = "on" /\ At(p, "read", "poll") /\ Confirm(p)
    BY <1>4, <1>8, <2>1 DEF Awaits
  <2>2. CASE Ends(p, "read") /\ UNCHANGED floor
    BY <1>0, <1>5, <2>2
  <2> QED BY <1>a, <2>1, <2>2 DEF ReadRow
<1>b. CASE Ask(p)
  BY <1>4, <1>8, <1>b DEF Ask, Awaits
<1>c. CASE Answer(p)
  <2>0. floor' = floor
    BY <1>c DEF Answer
  <2>1. CASE ~(floor <= sent)
    <3>1. At(p, "poll", "read")
      BY <1>c, <2>1 DEF Answer
    <3> QED BY <1>0, <1>2, <1>4, <2>0, <3>1 DEF Awaits
  <2>2. CASE floor <= sent
    <3> DEFINE r == [[[poller[p] EXCEPT !.at = "reread"] EXCEPT !.next = floor] EXCEPT !.last = sent]
    <3>1. poller' = [poller EXCEPT ![p] = r]
      BY <1>c, <2>2 DEF Answer
    <3>2. /\ r \in PollerType /\ r.last = sent /\ r.next = floor /\ r.offset = poller[p].offset
      BY <1>0 DEF PollerType, Awaits
    <3> HIDE DEF r
    <3>3. /\ Below(r.offset, dispatched', refused') /\ Below(r.next, dispatched', refused')
      BY <1>2, <1>3, <3>2, BelowMore
    <3>4. r.last <= sent
      BY <1>0, <3>2
    <3> QED BY <1>0, <1>6, <2>0, <3>1, <3>2, <3>3, <3>4
  <2> QED BY <2>1, <2>2
<1>d. CASE Reread(p)
  <2>0. floor' = floor
    BY <1>d DEF Reread
  <2>1. CASE At(p, "reread", "dispatch")
    BY <1>0, <1>2, <1>4, <2>0, <2>1
  <2>2. CASE Ends(p, "reread")
    BY <1>0, <1>5, <2>0, <2>2
  <2> QED BY <1>d, <2>1, <2>2 DEF Reread
<1>e. CASE Dispatch(p)
  <2> DEFINE u == poller[p].next
             r == [[poller[p] EXCEPT !.next = u + 1] EXCEPT !.offset = u + 1]
  <2>0. floor' = floor
    BY <1>e DEF Dispatch
  <2>1. poller' = [poller EXCEPT ![p] = r]
    BY <1>e DEF Dispatch
  <2>2. /\ r \in PollerType /\ r.last = poller[p].last /\ r.next = u + 1 /\ r.offset = u + 1
    <3> DEFINE a == [poller[p] EXCEPT !.next = u + 1]
    <3>1. u \in Nat \ {0}
      BY <1>1
    <3> HIDE DEF u
    <3>2. u + 1 \in Nat \ {0}
      BY <3>1
    <3>3. a \in PollerType /\ a.last = poller[p].last /\ a.next = u + 1
      BY ONLY <1>0, <3>2 DEF PollerType
    <3> HIDE DEF a
    <3>4. LET b == [a EXCEPT !.offset = u + 1]
          IN b \in PollerType /\ b.last = a.last /\ b.next = a.next /\ b.offset = u + 1
      BY ONLY <3>2, <3>3 DEF PollerType
    <3> QED BY <3>3, <3>4 DEF a
  <2>3. u \in refused' \/ \E q \in Pollers : <<q, u>> \in dispatched'
    BY <1>e DEF Dispatch
  <2>4. Below(u, dispatched, refused)
    BY <1>2, <1>e DEF Dispatch
  <2>5. u \in Nat \ {0}
    BY <1>1
  <2> HIDE DEF r, u
  <2>6. Below(u + 1, dispatched', refused')
    <3>1. Below(u, dispatched', refused')
      BY <1>3, <2>4, BelowMore
    <3> QED BY <2>3, <2>5, <3>1, BelowNext
  <2>7. r.last <= sent
    BY <1>0, <2>2
  <2> QED BY <1>0, <1>6, <2>0, <2>1, <2>2, <2>6, <2>7
<1>f. CASE BatchOver(p)
  <2>0. floor' = floor
    BY <1>f DEF BatchOver
  <2>1. CASE poller[p].aborted
    <3>1. poller' = [poller EXCEPT ![p] = Over]
      BY <1>f, <2>1 DEF BatchOver
    <3>2. Ends(p, poller[p].at)
      BY <3>1 DEF Ends
    <3> QED BY <1>0, <1>5, <2>0, <3>2
  <2>2. CASE ~poller[p].aborted
    <3>1. poller' = [poller EXCEPT ![p] = [NoPoller EXCEPT !.at = "read", !.offset = poller[p].offset]]
      BY <1>f, <2>2 DEF BatchOver
    <3> QED BY <1>0, <1>1, <1>2, <1>7, <2>0, <3>1
  <2> QED BY <2>1, <2>2
<1>g. CASE TryAgain(p)
  BY <1>0, <1>1, <1>2, <1>7, <1>g DEF TryAgain
<1> QED BY <1>a, <1>b, <1>c, <1>d, <1>e, <1>f, <1>g DEF Poll

-----------------------------------------------------------------------------
(* The workers.                                                            *)

\* Appending an update to a worker's queue, or beginning a worker with it.
LEMMA DispatchedType ==
  ASSUME Typed, NEW p \in Pollers, NEW u \in Updates, Dispatched(p, u)
  PROVE  worker' \in [Workers -> WorkerType] /\ route' \in [Pollers -> [Chats -> Nat]]
<1>0. worker \in [Workers -> WorkerType] /\ route \in [Pollers -> [Chats -> Nat]] /\ u \in Nat
  BY UpdatesAreNumbers DEF Typed
<1> DEFINE k == <<p, route[p][ChatOf[u]]>>
<1>1. CASE worker' = [worker EXCEPT ![k].queue = Append(@, u)] /\ UNCHANGED route
  <2>1. CASE k \in Workers
    <3>1. worker[k] \in WorkerType
      BY <1>0, <2>1
    <3>2. Append(worker[k].queue, u) \in Seq(Updates)
      BY <3>1 DEF WorkerType
    <3>3. [worker[k] EXCEPT !.queue = Append(worker[k].queue, u)] \in WorkerType
      BY <3>1, <3>2 DEF WorkerType
    <3> QED BY <1>0, <1>1, <2>1, <3>3
  <2>2. CASE k \notin Workers
    BY <1>0, <1>1, <2>2
  <2> QED BY <2>1, <2>2
<1>2. CASE /\ worker' = [worker EXCEPT ![<<p, u>>] = [NoWorker EXCEPT !.at = "wait", !.queue = <<u>>]]
           /\ route' = [route EXCEPT ![p][ChatOf[u]] = u]
  <2>1. <<u>> \in Seq(Updates)
    OBVIOUS
  <2>2. [NoWorker EXCEPT !.at = "wait"] \in WorkerType
    BY Records DEF WorkerType
  <2>3. [[NoWorker EXCEPT !.at = "wait"] EXCEPT !.queue = <<u>>] \in WorkerType
    BY <2>1, <2>2 DEF WorkerType
  <2>4. worker' \in [Workers -> WorkerType]
    BY <1>0, <1>2, <2>3
  <2>5. [route[p] EXCEPT ![ChatOf[u]] = u] \in [Chats -> Nat]
    BY <1>0
  <2>6. route' \in [Pollers -> [Chats -> Nat]]
    BY <1>0, <1>2, <2>5
  <2> QED BY <2>4, <2>6
<1> QED BY <1>1, <1>2 DEF Dispatched

LEMMA WorkType ==
  ASSUME Typed, NEW k \in Workers, Work(k) \/ Idle(k) \/ TakeFails(k)
  PROVE  worker' \in [Workers -> WorkerType] /\ done' \subseteq Jobs
<1>0. /\ worker \in [Workers -> WorkerType] /\ worker[k] \in WorkerType /\ done \subseteq Jobs
      /\ worker[k].queue \in Seq(Updates)
  BY DEF Typed, WorkerType
<1>1. ASSUME worker[k].queue # <<>>
      PROVE  Tail(worker[k].queue) \in Seq(Updates) /\ <<k[1], Head(worker[k].queue)>> \in Jobs
  BY <1>0, <1>1 DEF Workers, Jobs
<1>2. ASSUME NEW at \in {"wait", "late", "run"}, NEW q \in Seq(Updates)
      PROVE  /\ [worker[k] EXCEPT !.at = at] \in WorkerType
             /\ [worker[k] EXCEPT !.queue = q] \in WorkerType
             /\ [[worker[k] EXCEPT !.at = at] EXCEPT !.queue = q] \in WorkerType
             /\ [[worker[k] EXCEPT !.at = at] EXCEPT !.closed = TRUE] \in WorkerType
  <2> DEFINE a == [worker[k] EXCEPT !.at = at]
  <2>1. a \in WorkerType
    BY <1>0 DEF WorkerType
  <2>2. [worker[k] EXCEPT !.queue = q] \in WorkerType
    BY <1>0 DEF WorkerType
  <2> HIDE DEF a
  <2>3. [a EXCEPT !.queue = q] \in WorkerType /\ [a EXCEPT !.closed = TRUE] \in WorkerType
    BY <2>1 DEF WorkerType
  <2> QED BY <2>1, <2>2, <2>3 DEF a
<1>3. CASE Take(k)
  <2>1. /\ worker' = [worker EXCEPT ![k] = [[worker[k] EXCEPT !.at = "run"] EXCEPT !.queue = Tail(worker[k].queue)]]
        /\ worker[k].queue # <<>> /\ done' = done \cup {<<k[1], Head(worker[k].queue)>>}
    BY <1>0, <1>3 DEF Take
  <2>2. [[worker[k] EXCEPT !.at = "run"] EXCEPT !.queue = Tail(worker[k].queue)] \in WorkerType
    BY <1>1, <1>2, <2>1
  <2> QED BY <1>0, <1>1, <2>1, <2>2
<1>4. CASE TakeFails(k)
  <2>1. /\ worker' = [worker EXCEPT ![k] = [worker[k] EXCEPT !.queue = Tail(worker[k].queue)]]
        /\ worker[k].queue # <<>> /\ done' = done \cup {<<k[1], Head(worker[k].queue)>>}
    BY <1>0, <1>4 DEF TakeFails
  <2>2. [worker[k] EXCEPT !.queue = Tail(worker[k].queue)] \in WorkerType
    BY <1>1, <1>2, <2>1
  <2> QED BY <1>0, <1>1, <2>1, <2>2
<1>5. CASE RunEnds(k)
  BY <1>0, <1>2, <1>5 DEF RunEnds
<1>6. CASE Idle(k)
  BY <1>0, <1>2, <1>6 DEF Idle
<1>7. CASE Close(k)
  <2>1. worker' = [worker EXCEPT ![k] =
           IF worker[k].queue = <<>> THEN Gone
           ELSE [[worker[k] EXCEPT !.at = "wait"] EXCEPT !.closed = TRUE]]
    BY <1>0, <1>7 DEF Close
  <2>2. done' = done
    BY <1>7 DEF Close
  <2> QED BY <1>0, <1>2, <2>1, <2>2, Records
<1>8. CASE Leave(k)
  BY <1>0, <1>8, Records DEF Leave
<1> QED BY <1>3, <1>4, <1>5, <1>6, <1>7, <1>8 DEF Work

-----------------------------------------------------------------------------
Inv == Typed /\ OffsetInv

LEMMA InitInv == Init => Inv
<1> SUFFICES ASSUME Init PROVE Inv
  OBVIOUS
<1>1. /\ row \in {"on", "off"} /\ sent = 0 /\ floor = 1
      /\ dispatched = {} /\ done = {} /\ refused = {} /\ dark = FALSE /\ overlapped = FALSE
      /\ asks = 0 /\ faults = 0
      /\ MaxAsks \in Nat /\ MaxFaults \in Nat
  BY BoundsAssumption DEF Init
<1>2. \A p \in Pollers : poller[p] \in {NoPoller, Begun}
  BY DEF Init, Begun
<1>3. poller \in [Pollers -> PollerType] /\ \A p \in Pollers : poller[p].last <= sent
  <2>1. poller = [p \in Pollers |-> poller[p]]
    BY DEF Init
  <2>2. \A p \in Pollers : poller[p].last = 0
    BY <1>2, Records
  <2>3. \A p \in Pollers : poller[p] \in PollerType
    BY <1>2, Records
  <2> QED BY <1>1, <2>1, <2>2, <2>3
<1>4. /\ handler \in [Handlers -> HandlerType] /\ worker \in [Workers -> WorkerType]
      /\ route \in [Pollers -> [Chats -> Nat]]
  BY Records DEF Init
<1>5. 1..sent \subseteq Updates
  BY <1>1
<1>6. Typed
  <2>1. asks \in 0..MaxAsks /\ faults \in 0..MaxFaults /\ floor \in Nat \ {0} /\ sent \in Nat
    BY ONLY <1>1
  <2>2. /\ row \in {"on", "off", "gone"} /\ dark \in BOOLEAN /\ overlapped \in BOOLEAN
        /\ dispatched \subseteq Jobs /\ done \subseteq Jobs /\ refused \subseteq Doubtful
    BY <1>1
  <2> QED BY <1>3, <1>4, <1>5, <2>1, <2>2 DEF Typed
<1>7. \A p \in Pollers : /\ poller[p].offset = 0
                         /\ poller[p].at \notin {"reread", "dispatch"}
  BY <1>2, Records
<1>8. OffsetInv
  BY <1>1, <1>7, BelowOne DEF OffsetInv
<1> QED BY <1>6, <1>8 DEF Inv

LEMMA NextInv == Inv /\ [Next]_vars => Inv'
<1> SUFFICES ASSUME Inv, [Next]_vars PROVE Inv'
  OBVIOUS
<1>0. Typed /\ OffsetInv
  BY DEF Inv
<1>t. /\ row \in {"on", "off", "gone"}
      /\ handler \in [Handlers -> HandlerType]
      /\ sent \in Nat /\ 1..sent \subseteq Updates /\ floor \in Nat \ {0}
      /\ poller \in [Pollers -> PollerType]
      /\ \A p \in Pollers : poller[p].last <= sent
      /\ route \in [Pollers -> [Chats -> Nat]]
      /\ worker \in [Workers -> WorkerType]
      /\ dispatched \subseteq Jobs /\ done \subseteq Jobs /\ refused \subseteq Doubtful
      /\ dark \in BOOLEAN /\ overlapped \in BOOLEAN
      /\ asks \in 0..MaxAsks /\ faults \in 0..MaxFaults
  BY <1>0 DEF Typed
<1>1. CASE Send
  <2>1. sent' = sent + 1 /\ sent + 1 \in Updates /\ 1..sent' \subseteq Updates
    <3>1. sent' = sent + 1 /\ sent + 1 \in Updates
      BY <1>1 DEF Send
    <3>2. 1 .. sent + 1 = (1..sent) \cup {sent + 1}
      BY <1>t
    <3> QED BY <1>t, <3>1, <3>2
  <2>2. UNCHANGED <<row, api, floor, poller, chats, history, budget>>
    BY <1>1 DEF Send
  <2>3. sent' \in Nat /\ \A p \in Pollers : poller[p].last <= sent'
    <3>1. \A p \in Pollers : poller[p].last \in Nat /\ poller[p].last <= sent
      BY <1>t DEF PollerType
    <3> QED BY <1>t, <2>1, <3>1
  <2>4. Typed'
    BY <1>t, <2>1, <2>2, <2>3 DEF Typed, api, chats, history, budget
  <2>5. OffsetInv'
    BY <1>0, <2>2, OffsetKept DEF history
  <2> QED BY <2>4, <2>5 DEF Inv
<1>2. CASE Crash
  <2>1. /\ handler' \in [Handlers -> HandlerType] /\ worker' \in [Workers -> WorkerType]
        /\ route' \in [Pollers -> [Chats -> Nat]]
    BY <1>2, Records DEF Crash
  <2>2. /\ UNCHANGED <<row, sent, floor, dispatched, refused>> /\ done' = dispatched
        /\ overlapped' = FALSE /\ dark' \in BOOLEAN
        /\ asks' \in 0..MaxAsks /\ faults' \in 0..MaxFaults
    BY <1>0, <1>2, FaultType DEF Crash
  <2> DEFINE dead == [p \in Pollers |-> IF poller[p].at = "none" THEN NoPoller ELSE Over]
  <2>3. poller' = dead \/ poller' = [dead EXCEPT ![NextPoller] = Begun]
    BY <1>2 DEF Crash, Begun
  <2>4. /\ \A q \in Pollers : poller'[q] \in {NoPoller, Begun, Over}
        /\ poller' = [q \in Pollers |-> poller'[q]]
    BY <2>3
  <2>5. /\ poller' \in [Pollers -> PollerType]
        /\ \A q \in Pollers : poller'[q].last <= sent
    <3>1. \A q \in Pollers : poller'[q] \in PollerType /\ poller'[q].last = 0
      BY <2>4, Records
    <3> QED BY <1>t, <2>4, <3>1
  <2>6. Typed'
    BY <1>t, <2>1, <2>2, <2>5 DEF Typed
  <2>7. OffsetInv'
    BY <1>0, <2>2, <2>4, OffsetKept
  <2> QED BY <2>6, <2>7 DEF Inv
<1>3. ASSUME NEW h \in Handlers, Handle(h) \/ WriteFails(h) PROVE Inv'
  <2>1. /\ Typed'
        /\ \A q \in Pollers : \/ poller'[q] = poller[q]
                              \/ poller'[q] \in {Begun, Over}
                              \/ poller'[q] = [poller[q] EXCEPT !.aborted = TRUE]
        /\ UNCHANGED <<sent, floor, chats, history>>
    BY <1>0, <1>3, HandlerStep
  <2>2. OffsetInv'
    BY <1>0, <2>1, OffsetKept DEF history
  <2> QED BY <2>1, <2>2 DEF Inv
<1>4. ASSUME NEW h \in Handlers, NEW op \in {"on", "off", "gone"}, Request(h, op) PROVE Inv'
  <2>1. UNCHANGED <<row, registry, dark, sent, floor, poller, chats, history, faults>>
    BY <1>4 DEF Request
  <2>2. /\ handler' \in [Handlers -> HandlerType] /\ overlapped' \in BOOLEAN
        /\ asks' \in 0..MaxAsks
    <3>1. [at |-> IF op = "gone" /\ row = "off" THEN "write" ELSE "turn", op |-> op] \in HandlerType
      BY DEF HandlerType
    <3>2. handler' \in [Handlers -> HandlerType]
      BY <1>4, <1>t, <3>1 DEF Request
    <3>3. overlapped' \in BOOLEAN
      BY <1>4, <1>t DEF Request
    <3>4. asks' \in 0..MaxAsks
      BY <1>4, <1>t, BoundsAssumption DEF Request
    <3> QED BY <3>2, <3>3, <3>4
  <2>3. Typed'
    BY <1>t, <2>1, <2>2 DEF Typed, chats, history
  <2>4. OffsetInv'
    BY <1>0, <2>1, OffsetKept DEF history
  <2> QED BY <2>3, <2>4 DEF Inv
<1>5. ASSUME NEW p \in Pollers, Poll(p) \/ TryAgain(p) PROVE Inv'
  <2>1. /\ OffsetInv' /\ \A q \in Pollers : poller'[q].last <= sent'
        /\ poller' \in [Pollers -> PollerType] /\ floor' \in Nat \ {0}
    BY <1>0, <1>5, PollOffsets
  <2>2. /\ UNCHANGED <<row, api, sent, done>>
        /\ asks' \in 0..MaxAsks /\ faults' \in 0..MaxFaults
    <3>1. UNCHANGED <<row, api, sent, done>>
      BY <1>5 DEF Poll, TryAgain, ReadRow, Ask, Answer, Reread, Dispatch, BatchOver, PollStep, history
    <3>2. UNCHANGED budget \/ Fault
      BY <1>5 DEF Poll, TryAgain, ReadRow, Ask, Answer, Reread, Dispatch, BatchOver
    <3>3. asks' \in 0..MaxAsks /\ faults' \in 0..MaxFaults
      BY <1>0, <1>t, <3>2, FaultType DEF budget
    <3> QED BY <3>1, <3>3
  <2>3. /\ worker' \in [Workers -> WorkerType] /\ route' \in [Pollers -> [Chats -> Nat]]
        /\ dispatched' \subseteq Jobs /\ refused' \subseteq Doubtful
    <3>1. CASE Dispatch(p)
      <4> DEFINE u == poller[p].next
      <4>1. u \in 1..sent
        BY <1>t, <3>1 DEF Dispatch, PollerType
      <4>2. u \in Updates
        BY <1>t, <4>1
      <4>3. /\ dispatched' = dispatched \cup {<<p, u>>} \/ dispatched' = dispatched
            /\ refused' = refused \/ (u \in Doubtful /\ refused' = refused \cup {u})
            /\ Dispatched(p, u) \/ UNCHANGED chats
        BY <3>1 DEF Dispatch
      <4> HIDE DEF u
      <4>4. worker' \in [Workers -> WorkerType] /\ route' \in [Pollers -> [Chats -> Nat]]
        BY <1>0, <1>t, <4>2, <4>3, DispatchedType DEF chats
      <4> QED BY <1>t, <4>2, <4>3, <4>4 DEF Jobs
    <3>2. CASE ~Dispatch(p)
      <4>1. UNCHANGED <<chats, history>>
        BY <1>5, <3>2 DEF Poll, TryAgain, ReadRow, Ask, Answer, Reread, BatchOver, PollStep
      <4> QED BY <1>t, <4>1 DEF chats, history
    <3> QED BY <3>1, <3>2
  <2>4. Typed'
    BY <1>t, <2>1, <2>2, <2>3 DEF Typed, api
  <2> QED BY <2>1, <2>4 DEF Inv
<1>6. ASSUME NEW k \in Workers, Work(k) \/ Idle(k) \/ TakeFails(k) PROVE Inv'
  <2>1. WorkStep
    BY <1>6 DEF Work, Take, Close, Leave, RunEnds, Idle, TakeFails
  <2>2. UNCHANGED budget \/ Fault
    BY <1>6 DEF Work, Take, Close, Leave, RunEnds, Idle, TakeFails
  <2>3. asks' \in 0..MaxAsks /\ faults' \in 0..MaxFaults
    BY <1>0, <1>t, <2>2, FaultType DEF budget
  <2>4. worker' \in [Workers -> WorkerType] /\ done' \subseteq Jobs
    BY <1>0, <1>6, WorkType
  <2>5. Typed'
    BY <1>t, <2>1, <2>3, <2>4 DEF Typed, WorkStep, api
  <2>6. OffsetInv'
    BY <1>0, <2>1, OffsetKept DEF WorkStep
  <2> QED BY <2>5, <2>6 DEF Inv
<1>7. CASE UNCHANGED vars
  <2>1. UNCHANGED <<row, api, sent, floor, poller, chats, history, budget>>
    BY <1>7 DEF vars
  <2>2. Typed'
    BY <1>t, <2>1 DEF Typed, api, chats, history, budget
  <2>3. OffsetInv'
    BY <1>0, <2>1, OffsetKept DEF history
  <2> QED BY <2>2, <2>3 DEF Inv
<1> QED BY <1>1, <1>2, <1>3, <1>4, <1>5, <1>6, <1>7 DEF Next

\* NoneSkipped: whatever calls fail, however often the process dies and the
\* workflow is switched, and however many pollers are left over, an update
\* Telegram may forget has been handed to a worker or was not wanted.
THEOREM NothingSkipped == Spec => []NoneSkipped
<1>1. Inv => NoneSkipped
  BY DEF Inv, OffsetInv, Below, NoneSkipped
<1> QED BY InitInv, NextInv, <1>1, PTL DEF Spec

-----------------------------------------------------------------------------
(* One worker of a chat.                                                   *)

Live(k) == worker[k].at \notin {"none", "over"} /\ ~worker[k].closed

\* A worker whose channel is open is the one the chat's updates go to.
RouteInv == \A k \in Workers : Live(k) => route[k[1]][ChatOf[k[2]]] = k[2]

\* A worker that goes on has been begun before.
LEMMA RouteKept ==
  ASSUME RouteInv, route' = route, \A k \in Workers : Live(k)' => Live(k)
  PROVE  RouteInv'
BY DEF RouteInv

LEMMA RouteDispatched ==
  ASSUME Typed, RouteInv, NEW p \in Pollers, NEW u \in Updates, Dispatched(p, u)
  PROVE  RouteInv'
<1>0. /\ worker \in [Workers -> WorkerType] /\ route \in [Pollers -> [Chats -> Nat]]
      /\ ChatOf \in [Updates -> Chats] /\ ChatOf[u] \in Chats
  BY ChatAssumption DEF Typed
<1> DEFINE c == ChatOf[u]
           k == <<p, route[p][c]>>
<1>1. CASE /\ k \in Workers /\ ~worker[k].closed /\ worker[k].at # "over"
           /\ worker' = [worker EXCEPT ![k].queue = Append(@, u)] /\ UNCHANGED route
  <2>1. \A j \in Workers : worker'[j].at = worker[j].at /\ worker'[j].closed = worker[j].closed
    <3>1. \A j \in Workers : j # k => worker'[j] = worker[j]
      BY <1>0, <1>1
    <3>2. worker'[k] = [worker[k] EXCEPT !.queue = Append(worker[k].queue, u)] /\ worker[k] \in WorkerType
      BY <1>0, <1>1
    <3>3. worker'[k].at = worker[k].at /\ worker'[k].closed = worker[k].closed
      BY <3>2 DEF WorkerType
    <3> QED BY <3>1, <3>3
  <2> QED BY <1>1, <2>1, RouteKept DEF Live
<1>2. CASE /\ ~(k \in Workers /\ ~worker[k].closed /\ worker[k].at # "over")
           /\ worker' = [worker EXCEPT ![<<p, u>>] = [NoWorker EXCEPT !.at = "wait", !.queue = <<u>>]]
           /\ route' = [route EXCEPT ![p][ChatOf[u]] = u]
  <2> SUFFICES ASSUME NEW j \in Workers, Live(j)' PROVE route'[j[1]][ChatOf[j[2]]] = j[2]
    BY DEF RouteInv
  <2>0. j \in Pollers \X Updates /\ j = <<j[1], j[2]>> /\ j[1] \in Pollers /\ j[2] \in Updates
        /\ ChatOf[j[2]] \in Chats
    BY <1>0 DEF Workers
  <2>1. /\ route'[p] = [route[p] EXCEPT ![c] = u]
        /\ \A q \in Pollers \ {p} : route'[q] = route[q]
        /\ route'[p][c] = u
        /\ \A d \in Chats \ {c} : route'[p][d] = route[p][d]
    BY <1>0, <1>2
  <2>2. CASE j = <<p, u>>
    BY <2>1, <2>2
  <2>3. CASE j # <<p, u>>
    <3>1. Live(j)
      BY <1>2, <2>0, <2>3, <1>0 DEF Live
    <3>2. route[j[1]][ChatOf[j[2]]] = j[2]
      BY <3>1 DEF RouteInv
    <3>3. ~(j[1] = p /\ ChatOf[j[2]] = c)
      \* It would be the worker that the dispatch has found closed or gone.
      <4> SUFFICES ASSUME j[1] = p, ChatOf[j[2]] = c PROVE FALSE
        OBVIOUS
      <4>1. j = k
        BY <2>0, <3>2
      <4> QED BY <1>2, <3>1, <4>1 DEF Live
    <3> QED BY <2>0, <2>1, <3>2, <3>3
  <2> QED BY <2>2, <2>3
<1> QED BY <1>1, <1>2 DEF Dispatched

LEMMA NextRoute == Inv /\ RouteInv /\ [Next]_vars => RouteInv'
<1> SUFFICES ASSUME Inv, RouteInv, [Next]_vars PROVE RouteInv'
  OBVIOUS
<1>0. Typed /\ worker \in [Workers -> WorkerType]
  BY DEF Inv, Typed
<1>1. CASE Crash
  <2>1. \A k \in Workers : worker'[k].at \in {"none", "over"}
    BY <1>1 DEF Crash, NoWorker, Gone
  <2> QED BY <2>1 DEF RouteInv, Live
<1>2. ASSUME UNCHANGED chats PROVE RouteInv'
  BY <1>2, RouteKept DEF Live, chats
<1>3. ASSUME NEW p \in Pollers, Dispatch(p) PROVE RouteInv'
  <2> DEFINE u == poller[p].next
  <2>1. u \in 1..sent /\ 1..sent \subseteq Updates
    BY <1>0, <1>3 DEF Dispatch, Typed, PollerType
  <2>2. Dispatched(p, u) \/ UNCHANGED chats
    BY <1>3 DEF Dispatch
  <2> QED BY <1>0, <1>2, <2>1, <2>2, RouteDispatched
<1>4. ASSUME NEW k \in Workers, Work(k) \/ Idle(k) \/ TakeFails(k) PROVE RouteInv'
  <2>1. route' = route /\ worker[k] \in WorkerType
    BY <1>0, <1>4 DEF Work, Take, Close, Leave, RunEnds, Idle, TakeFails, WorkStep
  <2>2. PICK r : worker' = [worker EXCEPT ![k] = r]
    BY <1>4 DEF Work, Take, Close, Leave, RunEnds, Idle, TakeFails
  <2>3. worker'[k] = r /\ \A j \in Workers \ {k} : worker'[j] = worker[j]
    BY <1>0, <2>2
  <2>4. Live(k)' => Live(k)
    <3> SUFFICES ASSUME Live(k)' PROVE Live(k)
      OBVIOUS
    <3>1. worker[k].at \notin {"none", "over"}
      BY <1>4 DEF Work, Take, Close, Leave, RunEnds, Idle, TakeFails
    <3>2. CASE Close(k)
      <4>1. worker'[k] = IF worker[k].queue = <<>> THEN Gone
                         ELSE [[worker[k] EXCEPT !.at = "wait"] EXCEPT !.closed = TRUE]
        BY <1>0, <3>2 DEF Close
      <4>2. [[worker[k] EXCEPT !.at = "wait"] EXCEPT !.closed = TRUE].closed = TRUE
        BY <2>1 DEF WorkerType
      <4>3. Gone.at = "over"
        BY Records DEF Gone, WorkerType
      <4> QED BY <4>1, <4>2, <4>3 DEF Live
    <3>3. CASE Leave(k)
      <4>1. worker'[k] = Gone /\ Gone.at = "over"
        BY <1>0, <3>3, Records DEF Leave, Gone, WorkerType
      <4> QED BY <4>1 DEF Live
    <3>4. CASE Take(k)
      <4>1. worker'[k] = [[worker[k] EXCEPT !.at = "run"] EXCEPT !.queue = Tail(worker[k].queue)]
        BY <1>0, <3>4 DEF Take
      <4>2. worker'[k].closed = worker[k].closed
        BY <2>1, <4>1 DEF WorkerType
      <4> QED BY <3>1, <4>2 DEF Live
    <3>5. CASE TakeFails(k)
      <4>1. worker'[k] = [worker[k] EXCEPT !.queue = Tail(worker[k].queue)]
        BY <1>0, <3>5 DEF TakeFails
      <4>2. worker'[k].closed = worker[k].closed
        BY <2>1, <4>1 DEF WorkerType
      <4> QED BY <3>1, <4>2 DEF Live
    <3>6. CASE RunEnds(k) \/ Idle(k)
      <4>1. PICK a : worker'[k] = [worker[k] EXCEPT !.at = a]
        BY <1>0, <3>6 DEF RunEnds, Idle
      <4>2. worker'[k].closed = worker[k].closed
        BY <2>1, <4>1 DEF WorkerType
      <4> QED BY <3>1, <4>2 DEF Live
    <3> QED BY <1>4, <3>2, <3>3, <3>4, <3>5, <3>6 DEF Work
  <2> QED BY <2>1, <2>3, <2>4, RouteKept DEF Live
<1>5. Crash \/ UNCHANGED chats \/ (\E p \in Pollers : Dispatch(p))
            \/ \E k \in Workers : Work(k) \/ Idle(k) \/ TakeFails(k)
  BY DEF Next, Send, Handle, TurnOn, TurnOff, WriteRow, Undo, WriteFails, UpdateFails, DeleteFails, Dropped, Request,
         Poll, TryAgain, ReadRow, Ask, Answer, Reread, BatchOver, PollStep, vars
<1> QED BY <1>1, <1>2, <1>3, <1>4, <1>5

\* OneAtATime: two workers of a chat are never both open, however an idle
\* worker's closing and the next dispatch interleave.
THEOREM OneWorker == Spec => []OneAtATime
<1>1. Init => RouteInv
  BY DEF Init, RouteInv, Live, NoWorker
<1>2. RouteInv => OneAtATime
  <2> SUFFICES ASSUME RouteInv, NEW j \in Workers, NEW k \in Workers,
                      j # k, j[1] = k[1], ChatOf[j[2]] = ChatOf[k[2]],
                      {worker[j].at, worker[k].at} \cap {"none", "over"} = {},
                      ~worker[j].closed, ~worker[k].closed
               PROVE  FALSE
    BY DEF OneAtATime
  <2>1. Live(j) /\ Live(k)
    BY DEF Live
  <2>2. j[2] = k[2]
    BY <2>1 DEF RouteInv
  <2>3. j = <<j[1], j[2]>> /\ k = <<k[1], k[2]>>
    BY DEF Workers
  <2> QED BY <2>2, <2>3
<1> QED BY InitInv, NextInv, NextRoute, <1>1, <1>2, PTL DEF Spec

-----------------------------------------------------------------------------
(* Identities of pollers do not run out.                                   *)

Used == {p \in Pollers : poller[p].at # "none"}

\* The requests that may still start a poller without a further failure.
Owing == {h \in Handlers : handler[h].at = "turn" \/ (handler[h].at = "undo" /\ handler[h].op = "off")}

\* A request and a failure start at most one poller each, and so did Init.
SlotsInv ==
  /\ IsFiniteSet(Owing)
  /\ Cardinality(Used) + Cardinality(Owing) <= 1 + asks + faults
  /\ registry # 0 => registry \in Used

LEMMA UsedFinite == IsFiniteSet(Used) /\ Cardinality(Used) \in Nat
BY PollersAssumption, FS_Subset, FS_CardinalityType DEF Used

LEMMA LeastNumber ==
  ASSUME NEW n \in Nat, NEW P \in SUBSET (1..n), P # {}
  PROVE  \E p \in P : \A q \in 1 .. p-1 : q \notin P
<1>1. P \subseteq Nat
  OBVIOUS
<1>2. \E p \in P : \A q \in P : ~(<<q, p>> \in OpToRel(<, Nat))
  BY <1>1, NatLessThanWellFounded, WFMin
<1>3. PICK p \in P : \A q \in P : ~(<<q, p>> \in OpToRel(<, Nat))
  BY <1>2
<1>4. \A q \in P : ~(q < p)
  BY <1>1, <1>3 DEF OpToRel
<1> QED BY <1>4

\* As long as not all identities are used, the next one is fresh.
LEMMA NextIsFresh ==
  ASSUME Cardinality(Used) < Cardinality(Pollers)
  PROVE  NextPoller \in Pollers /\ poller[NextPoller].at = "none"
<1> DEFINE n == Cardinality(Pollers)
           P == Pollers \ Used
<1>1. n \in Nat /\ Pollers = 1..n /\ P \subseteq 1..n
  BY PollersAssumption, FS_CardinalityType
<1>2. P # {}
  <2>1. Used # Pollers
    BY UsedFinite
  <2> QED BY <2>1 DEF Used
<1>3. PICK p \in P : \A q \in 1 .. p-1 : q \notin P
  BY <1>1, <1>2, LeastNumber
<1>4. \A q \in 1 .. p-1 : q \in Pollers
  BY <1>1, <1>3
<1>5. poller[p].at = "none" /\ \A q \in 1 .. p-1 : poller[q].at # "none"
  BY <1>3, <1>4 DEF Used
<1> QED BY <1>3, <1>5 DEF NextPoller

\* What becomes of a poller when a request starts or aborts one, or when the
\* process dies.
Life(q) ==
  \/ poller'[q] = poller[q]
  \/ poller'[q] = Over /\ poller[q].at # "none"
  \/ poller'[q] = [poller[q] EXCEPT !.aborted = TRUE] /\ poller[q].at = "dispatch"
  \/ poller'[q] \in {NoPoller, Begun} /\ poller[q].at = "none"

\* Whatever record it has then, it is used if it was or has begun.
LEMMA LifeUsed ==
  ASSUME Typed, NEW q \in Pollers, Life(q)
  PROVE  /\ poller[q].at # "none" => poller'[q].at # "none"
         /\ poller'[q] # Begun => (poller'[q].at # "none" => poller[q].at # "none")
         /\ poller'[q] = Begun => poller'[q].at # "none"
<1>1. poller[q] \in PollerType
  BY DEF Typed
<1>2. Over.at = "over" /\ Begun.at = "ask" /\ NoPoller.at = "none"
  BY DEF Over, Begun, NoPoller
<1>3. [poller[q] EXCEPT !.aborted = TRUE].at = poller[q].at
  BY <1>1 DEF PollerType
<1> QED BY <1>2, <1>3 DEF Life

\* A poller begins.
LEMMA SpawnedLife ==
  ASSUME Typed, Spawned, Cardinality(Used) < Cardinality(Pollers)
  PROVE  /\ \A q \in Pollers : Life(q)
         /\ registry' \in Pollers
         /\ Used' = Used \cup {registry'} /\ Cardinality(Used') = Cardinality(Used) + 1
<1>1. NextPoller \in Pollers /\ poller[NextPoller].at = "none"
  BY NextIsFresh
<1>2. poller' = [poller EXCEPT ![NextPoller] = Begun] /\ registry' = NextPoller
  BY DEF Spawned, Begun
<1> DEFINE n == NextPoller
<1> HIDE DEF n
<1>3. n \in Pollers /\ poller[n].at = "none" /\ poller' = [poller EXCEPT ![n] = Begun] /\ registry' = n
  BY <1>1, <1>2 DEF n
<1>4. poller'[n] = Begun /\ \A q \in Pollers \ {n} : poller'[q] = poller[q]
  BY <1>3 DEF Typed
<1>5. \A q \in Pollers : Life(q)
  BY <1>3, <1>4 DEF Life
<1>6. Begun.at = "ask"
  BY DEF Begun, NoPoller
<1>7. Used' = Used \cup {n} /\ n \notin Used
  BY <1>3, <1>4, <1>6 DEF Used
<1>8. Cardinality(Used') = Cardinality(Used) + 1
  BY <1>7, UsedFinite, FS_AddElement
<1> QED BY <1>3, <1>5, <1>7, <1>8

\* The recorded poller is aborted.
LEMMA AbortedLife ==
  ASSUME Typed, SlotsInv, Aborted
  PROVE  /\ \A q \in Pollers : Life(q)
         /\ registry' = 0
         /\ Used' = Used
<1>1. registry' = 0
  BY DEF Aborted
<1>2. CASE registry = 0
  BY <1>1, <1>2 DEF Aborted, Life, Used
<1>3. CASE registry # 0
  <2>1. registry \in Pollers /\ poller[registry].at # "none"
    BY <1>3 DEF SlotsInv, Used
  <2>2. poller' = [poller EXCEPT ![registry] = Abort(registry)]
    BY <1>3 DEF Aborted
  <2>3. poller'[registry] = Abort(registry) /\ \A q \in Pollers \ {registry} : poller'[q] = poller[q]
    BY <2>1, <2>2 DEF Typed
  <2>4. \A q \in Pollers : Life(q)
    BY <2>1, <2>3 DEF Life, Abort
  <2>5. \A q \in Pollers : poller'[q] = Begun => poller'[q] = poller[q]
    <3>1. Over.at = "over" /\ Begun.at = "ask" /\ poller[registry] \in PollerType
      BY <2>1 DEF Over, Begun, NoPoller, Typed
    <3>2. Abort(registry).at \in {"over", "dispatch"}
      BY <3>1 DEF Abort, PollerType
    <3> QED BY <2>3, <3>1, <3>2
  <2>6. \A q \in Pollers : poller'[q].at # "none" <=> poller[q].at # "none"
    BY <2>4, <2>5, LifeUsed
  <2>7. Used' = Used
    BY <2>6 DEF Used
  <2> QED BY <1>1, <2>4, <2>7
<1> QED BY <1>2, <1>3

\* While a request owes, an identity is left for the poller it may start.
LEMMA OneIsLeft ==
  ASSUME Typed, SlotsInv, Owing # {}
  PROVE  Cardinality(Used) < Cardinality(Pollers)
<1>1. /\ asks \in 0..MaxAsks /\ faults \in 0..MaxFaults /\ MaxAsks \in Nat /\ MaxFaults \in Nat
      /\ Cardinality(Pollers) \in Nat /\ Cardinality(Pollers) > MaxAsks + MaxFaults
      /\ Cardinality(Owing) \in Nat /\ Cardinality(Used) \in Nat
      /\ Cardinality(Used) + Cardinality(Owing) <= 1 + asks + faults
  BY BoundsAssumption, PollersAssumption, UsedFinite, FS_CardinalityType DEF Typed, SlotsInv
<1>2. Cardinality(Owing) # 0
  BY FS_EmptySet DEF SlotsInv
<1> QED BY ONLY <1>1, <1>2

\* A request's step pays for the poller it may start.
LEMMA HandlerSlots ==
  ASSUME Typed, SlotsInv, NEW h \in Handlers, Handle(h) \/ WriteFails(h)
  PROVE  SlotsInv' /\ (\A q \in Pollers : Life(q)) /\ registry' \in Pollers \cup {0}
<1>0. /\ asks \in 0..MaxAsks /\ faults \in 0..MaxFaults /\ MaxAsks \in Nat /\ MaxFaults \in Nat
      /\ Cardinality(Pollers) \in Nat /\ Cardinality(Pollers) > MaxAsks + MaxFaults
      /\ IsFiniteSet(Owing) /\ Cardinality(Owing) \in Nat /\ Cardinality(Used) \in Nat
      /\ Cardinality(Used) + Cardinality(Owing) <= 1 + asks + faults
      /\ registry \in Pollers \cup {0} /\ (registry # 0 => registry \in Used)
      /\ handler \in [Handlers -> HandlerType]
  BY BoundsAssumption, PollersAssumption, UsedFinite, FS_CardinalityType DEF Typed, SlotsInv, Used
<1>1. ASSUME UNCHANGED <<registry, poller>>
      PROVE  (\A q \in Pollers : Life(q)) /\ Used' = Used /\ registry' \in Pollers \cup {0}
             /\ (registry' # 0 => registry' \in Used')
  BY <1>0, <1>1 DEF Life, Used
<1>2. ASSUME Aborted
      PROVE  (\A q \in Pollers : Life(q)) /\ Used' = Used /\ registry' \in Pollers \cup {0}
             /\ (registry' # 0 => registry' \in Used')
  BY <1>2, AbortedLife
<1>3. ASSUME Spawned, Owing # {}
      PROVE  (\A q \in Pollers : Life(q)) /\ Cardinality(Used') = Cardinality(Used) + 1
             /\ registry' \in Pollers \cup {0} /\ (registry' # 0 => registry' \in Used')
  BY <1>3, OneIsLeft, SpawnedLife
\* What becomes of the requests that owe.
<1>4. ASSUME NEW from, NEW to, Hand(h, from, to)
      PROVE  /\ handler[h].at = from /\ handler'[h].at = to /\ handler'[h].op = handler[h].op
             /\ \A g \in Handlers \ {h} : handler'[g] = handler[g]
  BY <1>0, <1>4 DEF Hand, HandlerType
<1>5. ASSUME NEW from, NEW to, Hand(h, from, to), to \in {"write", "idle"}
      PROVE  Owing' = Owing \ {h}
  <2>1. /\ handler'[h].at = to /\ \A g \in Handlers \ {h} : handler'[g] = handler[g]
    BY <1>4, <1>5
  <2> QED BY <1>5, <2>1 DEF Owing
<1>6. ASSUME Owing' = Owing \ {h}
      PROVE  /\ IsFiniteSet(Owing') /\ Cardinality(Owing') \in Nat
             /\ Cardinality(Owing') <= Cardinality(Owing)
             /\ (h \in Owing => Cardinality(Owing') = Cardinality(Owing) - 1)
  <2>1. /\ IsFiniteSet(Owing \ {h}) /\ Cardinality(Owing \ {h}) \in Nat
        /\ Cardinality(Owing \ {h}) = IF h \in Owing THEN Cardinality(Owing) - 1 ELSE Cardinality(Owing)
    BY <1>0, FS_RemoveElement, FS_CardinalityType
  <2> QED BY <1>0, <1>6, <2>1
<1>7. ASSUME Owing' = Owing \ {h}, asks' = asks, faults' \in Nat, faults' >= faults,
             (\A q \in Pollers : Life(q)), registry' \in Pollers \cup {0},
             registry' # 0 => registry' \in Used',
             Used' = Used \/ (h \in Owing /\ Cardinality(Used') = Cardinality(Used) + 1)
      PROVE  SlotsInv' /\ (\A q \in Pollers : Life(q)) /\ registry' \in Pollers \cup {0}
  <2>1. Cardinality(Used') + Cardinality(Owing') <= 1 + asks' + faults'
    <3> DEFINE a == Cardinality(Used')
               b == Cardinality(Owing')
    <3>1. a = Cardinality(Used) \/ (h \in Owing /\ a = Cardinality(Used) + 1)
      BY <1>7
    <3>2. b \in Nat /\ b <= Cardinality(Owing) /\ (h \in Owing => b = Cardinality(Owing) - 1)
      BY <1>6, <1>7
    <3>3. asks' = asks /\ faults' \in Nat /\ faults' >= faults
      BY <1>7
    <3> HIDE DEF a, b
    <3>4. a + b <= 1 + asks' + faults'
      BY ONLY <1>0, <3>1, <3>2, <3>3
    <3> QED BY <3>4 DEF a, b
  <2> QED BY <1>6, <1>7, <2>1 DEF SlotsInv
<1>f. ASSUME Fault PROVE asks' = asks /\ faults' = faults + 1 /\ faults' \in Nat /\ faults' >= faults
  BY <1>0, <1>f DEF Fault
<1>n. UNCHANGED budget => asks' = asks /\ faults' \in Nat /\ faults' >= faults
  BY <1>0 DEF budget
<1>a. CASE TurnOn(h)
  <2>1. CASE Hand(h, "turn", "write") /\ Spawned /\ UNCHANGED budget
    <3>1. h \in Owing
      BY <1>4, <2>1 DEF Owing
    <3> QED BY <1>3, <1>5, <1>7, <1>n, <2>1, <3>1
  <2>2. CASE Hand(h, "turn", "idle") /\ Fault /\ UNCHANGED <<registry, poller>>
    BY <1>1, <1>5, <1>7, <1>f, <2>2
  <2> QED BY <1>a, <2>1, <2>2 DEF TurnOn
<1>b. CASE TurnOff(h)
  <2>1. Hand(h, "turn", "write") /\ Aborted /\ UNCHANGED budget
    BY <1>b DEF TurnOff
  <2> QED BY <1>2, <1>5, <1>7, <1>n, <2>1
<1>c. CASE WriteRow(h)
  <2>1. Hand(h, "write", "idle") /\ UNCHANGED <<registry, poller>> /\ UNCHANGED budget
    BY <1>c DEF WriteRow
  <2> QED BY <1>1, <1>5, <1>7, <1>n, <2>1
<1>d. CASE Undo(h)
  <2>1. CASE Hand(h, "undo", "idle") /\ handler[h].op = "on" /\ Aborted /\ UNCHANGED budget
    BY <1>2, <1>5, <1>7, <1>n, <2>1
  <2>2. CASE Hand(h, "undo", "idle") /\ handler[h].op = "off" /\ Spawned /\ UNCHANGED budget
    <3>1. h \in Owing
      BY <1>4, <2>2 DEF Owing
    <3> QED BY <1>3, <1>5, <1>7, <1>n, <2>2, <3>1
  <2>3. CASE Hand(h, "undo", "idle") /\ Fault /\ UNCHANGED <<registry, poller>>
    BY <1>1, <1>5, <1>7, <1>f, <2>3
  <2> QED BY <1>d, <2>1, <2>2, <2>3 DEF Undo
<1>e. CASE UpdateFails(h)
  <2>1. Fault /\ UNCHANGED <<registry, poller>> /\ Hand(h, "write", "undo")
    BY <1>e DEF UpdateFails
  <2>3. SlotsInv'
    <3>1. Owing' \in SUBSET (Owing \cup {h})
      BY <1>4, <2>1 DEF Owing
    <3>2. /\ IsFiniteSet(Owing \cup {h}) /\ Cardinality(Owing \cup {h}) \in Nat
          /\ Cardinality(Owing \cup {h}) <= Cardinality(Owing) + 1
      <4>1. IsFiniteSet(Owing \cup {h})
        BY <1>0, FS_AddElement
      <4>2. Cardinality(Owing \cup {h}) = IF h \in Owing THEN Cardinality(Owing) ELSE Cardinality(Owing) + 1
        BY <1>0, FS_AddElement
      <4>3. Cardinality(Owing \cup {h}) \in Nat
        BY <4>1, FS_CardinalityType
      <4> QED BY <1>0, <4>1, <4>2, <4>3
    <3>3. /\ IsFiniteSet(Owing') /\ Cardinality(Owing') \in Nat
          /\ Cardinality(Owing') <= Cardinality(Owing \cup {h})
      BY <3>1, <3>2, FS_Subset, FS_CardinalityType
    <3>4. Cardinality(Used') = Cardinality(Used)
      BY <1>1, <2>1
    <3>5. asks' = asks /\ faults' = faults + 1
      BY <1>f, <2>1
    <3>6. Cardinality(Used') + Cardinality(Owing') <= 1 + asks' + faults'
      BY ONLY <1>0, <3>2, <3>3, <3>4, <3>5
    <3> QED BY <1>1, <2>1, <3>3, <3>6 DEF SlotsInv
  <2> QED BY <1>1, <2>1, <2>3
<1>g. CASE DeleteFails(h) \/ Dropped(h)
  <2>1. Hand(h, "write", "idle") /\ Fault /\ UNCHANGED <<registry, poller>>
    BY <1>g DEF DeleteFails, Dropped
  <2> QED BY <1>1, <1>5, <1>7, <1>f, <2>1
<1> QED BY <1>a, <1>b, <1>c, <1>d, <1>e, <1>g DEF Handle, WriteFails

\* A crash ends every poller, and may start one.
LEMMA CrashSlots ==
  ASSUME Typed, SlotsInv, Crash
  PROVE  SlotsInv' /\ (\A q \in Pollers : Life(q)) /\ registry' \in Pollers \cup {0}
         /\ (registry' # 0 <=> row' = "on" /\ ~dark')
<1>0. /\ asks \in 0..MaxAsks /\ faults \in 0..MaxFaults /\ MaxAsks \in Nat /\ MaxFaults \in Nat
      /\ Cardinality(Pollers) \in Nat /\ Cardinality(Pollers) > MaxAsks + MaxFaults
      /\ IsFiniteSet(Owing) /\ Cardinality(Owing) \in Nat /\ Cardinality(Used) \in Nat
      /\ Cardinality(Used) + Cardinality(Owing) <= 1 + asks + faults
      /\ \A q \in Pollers : poller[q] \in PollerType
      /\ 0 \notin Pollers
  BY BoundsAssumption, PollersAssumption, UsedFinite, FS_CardinalityType DEF Typed, SlotsInv
<1>1. faults < MaxFaults /\ faults' = faults + 1 /\ asks' = asks
  BY DEF Crash, Fault
<1>2. Cardinality(Used) < Cardinality(Pollers)
  BY ONLY <1>0, <1>1
<1>3. PICK n : n = NextPoller
  OBVIOUS
<1>4. n \in Pollers /\ poller[n].at = "none"
  BY <1>2, <1>3, NextIsFresh
<1> DEFINE dead == [p \in Pollers |-> IF poller[p].at = "none" THEN NoPoller ELSE Over]
<1>5. \/ row = "on" /\ poller' = [dead EXCEPT ![n] = Begun] /\ registry' = n /\ dark' = FALSE
      \/ row # "on" /\ poller' = dead /\ registry' = 0 /\ dark' = FALSE
      \/ row = "on" /\ poller' = dead /\ registry' = 0 /\ dark' = TRUE
  BY <1>3 DEF Crash, Begun
<1>6. row' = row /\ handler' = [h \in Handlers |-> Free]
  BY DEF Crash
<1>7. registry' \in Pollers \cup {0} /\ (registry' # 0 <=> row' = "on" /\ ~dark')
  BY <1>0, <1>4, <1>5, <1>6
<1>8. \A q \in Pollers : Life(q)
  BY <1>4, <1>5 DEF Life
<1>9. Over.at = "over" /\ Begun.at = "ask" /\ NoPoller.at = "none"
  BY DEF Over, Begun, NoPoller
<1>10. \/ Used' = Used /\ registry' = 0
       \/ Used' = Used \cup {n} /\ registry' = n
  BY <1>4, <1>5, <1>9 DEF Used
<1>11. IsFiniteSet(Used') /\ Cardinality(Used') \in Nat /\ Cardinality(Used') <= Cardinality(Used) + 1
  <2>1. IsFiniteSet(Used \cup {n})
    BY UsedFinite, FS_AddElement
  <2>2. Cardinality(Used \cup {n}) = IF n \in Used THEN Cardinality(Used) ELSE Cardinality(Used) + 1
    BY UsedFinite, FS_AddElement
  <2>3. Cardinality(Used \cup {n}) \in Nat
    BY <2>1, FS_CardinalityType
  <2>4. Cardinality(Used \cup {n}) <= Cardinality(Used) + 1
    BY <1>0, <2>2, <2>3
  <2> QED BY <1>0, <1>10, <2>1, <2>3, <2>4, UsedFinite
<1>12. Owing' = {}
  BY <1>6 DEF Owing, Free
<1>13. IsFiniteSet(Owing') /\ Cardinality(Owing') = 0
  BY <1>12, FS_EmptySet
<1>14. Cardinality(Used') + Cardinality(Owing') <= 1 + asks' + faults'
  BY ONLY <1>0, <1>1, <1>11, <1>13
<1>15. registry' # 0 => registry' \in Used'
  BY <1>10
<1> QED BY <1>7, <1>8, <1>13, <1>14, <1>15 DEF SlotsInv

SameBatch(r, s) ==
  s.offset = r.offset /\ s.next = r.next /\ s.last = r.last /\ s.aborted = r.aborted

\* What a step of a poller makes of its record.
LEMMA PollMoves ==
  ASSUME Typed, NEW p \in Pollers, Poll(p) \/ TryAgain(p)
  PROVE  LET r == poller[p]
             s == poller'[p]
         IN  /\ r.at # "none" /\ \A q \in Pollers \ {p} : poller'[q] = poller[q]
             /\ Dispatch(p) \/ UNCHANGED <<chats, history>>
             /\ UNCHANGED <<row, api, sent, done>> /\ (UNCHANGED budget \/ Fault)
             /\ \/ s = Over /\ floor' = floor
                \/ r.at \in {"read", "ask"} /\ s.at = "poll" /\ SameBatch(r, s) /\ Confirm(p)
                \/ r.at = "poll" /\ s.at = "read" /\ SameBatch(r, s) /\ floor' = floor
                \/ r.at = "reread" /\ s.at = "dispatch" /\ SameBatch(r, s) /\ floor' = floor
                \/ /\ r.at = "poll" /\ s.at = "reread" /\ s.next = floor /\ s.last = sent /\ floor <= sent
                   /\ s.offset = r.offset /\ s.aborted = r.aborted /\ floor' = floor
                \/ /\ Dispatch(p) /\ r.at = "dispatch" /\ s.at = "dispatch" /\ r.next <= r.last
                   /\ s.next = r.next + 1 /\ s.offset = r.next + 1
                   /\ s.last = r.last /\ s.aborted = r.aborted /\ floor' = floor
                \/ /\ s.at = "read" /\ s.next = 1 /\ s.last = 0 /\ s.offset = r.offset
                   /\ s.aborted = FALSE /\ floor' = floor
<1>0. poller[p] \in PollerType /\ poller \in [Pollers -> PollerType]
  BY DEF Typed
<1>1. UNCHANGED <<row, api, sent, done>> /\ (UNCHANGED budget \/ Fault)
  BY DEF Poll, TryAgain, ReadRow, Ask, Answer, Reread, Dispatch, BatchOver, PollStep, history
<1>2. Dispatch(p) \/ UNCHANGED <<chats, history>>
  BY DEF Poll, TryAgain, ReadRow, Ask, Answer, Reread, BatchOver, PollStep
<1>3. ASSUME NEW from, NEW to \in Awaits \cup {"dispatch"}, At(p, from, to)
      PROVE  /\ poller[p].at = from /\ poller'[p].at = to /\ SameBatch(poller[p], poller'[p])
             /\ \A q \in Pollers \ {p} : poller'[q] = poller[q]
  <2>1. /\ poller[p].at = from /\ poller'[p] = [poller[p] EXCEPT !.at = to]
        /\ \A q \in Pollers \ {p} : poller'[q] = poller[q]
    BY <1>3, AtType
  <2>2. poller'[p].at = to /\ SameBatch(poller[p], poller'[p])
    BY <1>0, <2>1 DEF PollerType, SameBatch
  <2> QED BY <2>1, <2>2
<1>4. ASSUME NEW from, Ends(p, from)
      PROVE  /\ poller[p].at = from /\ poller'[p] = Over
             /\ \A q \in Pollers \ {p} : poller'[q] = poller[q]
  BY <1>4, EndsType DEF Ends
<1>5. ASSUME poller' = [poller EXCEPT ![p] = [NoPoller EXCEPT !.at = "read", !.offset = poller[p].offset]]
      PROVE  /\ poller'[p].at = "read" /\ poller'[p].next = 1 /\ poller'[p].last = 0
             /\ poller'[p].offset = poller[p].offset /\ poller'[p].aborted = FALSE
             /\ \A q \in Pollers \ {p} : poller'[q] = poller[q]
  <2> DEFINE o == poller[p].offset
             r == [NoPoller EXCEPT !.at = "read", !.offset = o]
  <2> HIDE DEF o
  <2>1. r.at = "read" /\ r.next = 1 /\ r.last = 0 /\ r.offset = o /\ r.aborted = FALSE
    BY DEF NoPoller
  <2> HIDE DEF r
  <2>2. poller' = [poller EXCEPT ![p] = r]
    BY <1>5 DEF r, o
  <2>3. poller'[p] = r /\ \A q \in Pollers \ {p} : poller'[q] = poller[q]
    BY <1>0, <2>2
  <2> QED BY <2>1, <2>3 DEF o
<1>a. CASE ReadRow(p)
  BY <1>1, <1>2, <1>3, <1>4, <1>a DEF ReadRow, Awaits
<1>b. CASE Ask(p)
  BY <1>1, <1>2, <1>3, <1>b DEF Ask, Awaits
<1>c. CASE Answer(p)
  <2>1. CASE ~(floor <= sent)
    BY <1>1, <1>2, <1>3, <1>c, <2>1 DEF Answer, Awaits
  <2>2. CASE floor <= sent
    <3> DEFINE r == [[[poller[p] EXCEPT !.at = "reread"] EXCEPT !.next = floor] EXCEPT !.last = sent]
    <3>1. poller' = [poller EXCEPT ![p] = r] /\ poller[p].at = "poll" /\ floor' = floor
      BY <1>c, <2>2 DEF Answer
    <3>2. /\ r.at = "reread" /\ r.last = sent /\ r.next = floor /\ r.offset = poller[p].offset
          /\ r.aborted = poller[p].aborted
      BY <1>0 DEF PollerType
    <3> HIDE DEF r
    <3>3. poller'[p] = r /\ \A q \in Pollers \ {p} : poller'[q] = poller[q]
      BY <1>0, <3>1
    <3> QED BY <1>1, <1>2, <2>2, <3>1, <3>2, <3>3
  <2> QED BY <2>1, <2>2
<1>d. CASE Reread(p)
  BY <1>1, <1>2, <1>3, <1>4, <1>d DEF Reread
<1>e. CASE Dispatch(p)
  <2> DEFINE u == poller[p].next
             r == [[poller[p] EXCEPT !.next = u + 1] EXCEPT !.offset = u + 1]
  <2>1. poller' = [poller EXCEPT ![p] = r] /\ poller[p].at = "dispatch" /\ u <= poller[p].last /\ floor' = floor
    BY <1>e DEF Dispatch
  <2>2. /\ r.at = poller[p].at /\ r.last = poller[p].last /\ r.next = u + 1 /\ r.offset = u + 1
        /\ r.aborted = poller[p].aborted
    <3> HIDE DEF u
    <3> QED BY <1>0 DEF PollerType
  <2> HIDE DEF r
  <2>3. poller'[p] = r /\ \A q \in Pollers \ {p} : poller'[q] = poller[q]
    BY <1>0, <2>1
  <2> QED BY <1>1, <1>e, <2>1, <2>2, <2>3
<1>f. CASE BatchOver(p)
  <2>0. floor' = floor /\ poller[p].at = "dispatch"
    BY <1>f DEF BatchOver
  <2>1. CASE poller[p].aborted
    <3>1. Ends(p, "dispatch")
      BY <1>f, <2>1 DEF BatchOver, Ends
    <3> QED BY <1>1, <1>2, <1>4, <2>0, <3>1
  <2>2. CASE ~poller[p].aborted
    <3>1. poller' = [poller EXCEPT ![p] = [NoPoller EXCEPT !.at = "read", !.offset = poller[p].offset]]
      BY <1>f, <2>2 DEF BatchOver
    <3> QED BY <1>1, <1>2, <1>5, <2>0, <3>1
  <2> QED BY <2>1, <2>2
<1>g. CASE TryAgain(p)
  BY <1>1, <1>2, <1>5, <1>g DEF TryAgain
<1> QED BY <1>a, <1>b, <1>c, <1>d, <1>e, <1>f, <1>g DEF Poll

LEMMA SlotsInit == Init => SlotsInv
<1> SUFFICES ASSUME Init PROVE SlotsInv
  OBVIOUS
<1>1. Owing = {}
  BY DEF Init, Owing, Free
<1>2. /\ registry \in {0, 1} /\ asks = 0 /\ faults = 0
      /\ \A p \in Pollers : poller[p] = IF p = registry THEN Begun ELSE NoPoller
  BY DEF Init, Begun
<1>3. Begun.at = "ask" /\ NoPoller.at = "none"
  BY DEF Begun, NoPoller
<1>4. Used \subseteq {1}
  <2>1. 0 \notin Pollers
    <3>1. Cardinality(Pollers) \in Nat /\ Pollers = 1..Cardinality(Pollers)
      BY PollersAssumption, FS_CardinalityType
    <3> QED BY <3>1
  <2> QED BY <1>2, <1>3, <2>1 DEF Used
<1>5. Cardinality(Used) <= 1
  <2>1. IsFiniteSet({1}) /\ Cardinality({1}) = 1
    BY FS_Singleton
  <2>2. Cardinality(Used) <= Cardinality({1})
    BY <1>4, <2>1, FS_Subset
  <2> QED BY <2>1, <2>2
<1>6. 1 \in Pollers
  <2>1. /\ Cardinality(Pollers) \in Nat /\ Pollers = 1..Cardinality(Pollers)
        /\ Cardinality(Pollers) > MaxAsks + MaxFaults /\ MaxAsks \in Nat /\ MaxFaults \in Nat
    BY PollersAssumption, BoundsAssumption, FS_CardinalityType
  <2>2. 1 \in 1..Cardinality(Pollers)
    BY ONLY <2>1
  <2> QED BY <2>1, <2>2
<1>7. registry # 0 => registry \in Used
  BY <1>2, <1>3, <1>6 DEF Used
<1>8. IsFiniteSet(Owing) /\ Cardinality(Owing) = 0
  BY <1>1, FS_EmptySet
<1>9. Cardinality(Used) + Cardinality(Owing) <= 1 + asks + faults
  BY <1>2, <1>5, <1>8, UsedFinite
<1> QED BY <1>7, <1>8, <1>9 DEF SlotsInv

LEMMA SlotsNext == Typed /\ SlotsInv /\ [Next]_vars => SlotsInv'
<1> SUFFICES ASSUME Typed, SlotsInv, [Next]_vars PROVE SlotsInv'
  OBVIOUS
<1>0. /\ asks \in Nat /\ faults \in Nat
      /\ IsFiniteSet(Owing) /\ Cardinality(Owing) \in Nat /\ Cardinality(Used) \in Nat
      /\ Cardinality(Used) + Cardinality(Owing) <= 1 + asks + faults
      /\ handler \in [Handlers -> HandlerType]
  BY UsedFinite, FS_CardinalityType, BoundsAssumption DEF Typed, SlotsInv
<1>1. ASSUME NEW h \in Handlers, NEW op \in {"on", "off", "gone"}, Request(h, op) PROVE SlotsInv'
  <2>1. UNCHANGED <<registry, poller, faults>> /\ asks' = asks + 1
    BY <1>1 DEF Request
  <2>2. \A g \in Handlers \ {h} : handler'[g] = handler[g]
    BY <1>0, <1>1 DEF Request
  <2>3. Owing' \in SUBSET (Owing \cup {h})
    BY <2>2 DEF Owing
  <2>4. IsFiniteSet(Owing \cup {h})
    BY <1>0, FS_AddElement
  <2>5. Cardinality(Owing \cup {h}) = IF h \in Owing THEN Cardinality(Owing) ELSE Cardinality(Owing) + 1
    BY <1>0, FS_AddElement
  <2>6. /\ IsFiniteSet(Owing') /\ Cardinality(Owing') \in Nat /\ Cardinality(Owing \cup {h}) \in Nat
        /\ Cardinality(Owing') <= Cardinality(Owing \cup {h})
    BY <2>3, <2>4, FS_Subset, FS_CardinalityType
  <2>7. Used' = Used
    BY <2>1 DEF Used
  <2>8. Cardinality(Used) + Cardinality(Owing') <= 1 + asks' + faults'
    BY <1>0, <2>1, <2>5, <2>6
  <2> QED BY <2>1, <2>6, <2>7, <2>8 DEF SlotsInv
<1>2. ASSUME NEW p \in Pollers, Poll(p) \/ TryAgain(p) PROVE SlotsInv'
  <2>1. /\ poller[p].at # "none" /\ \A q \in Pollers \ {p} : poller'[q] = poller[q]
        /\ UNCHANGED <<row, api, sent, done>> /\ (UNCHANGED budget \/ Fault)
        /\ poller'[p] = Over \/ poller'[p].at \in {"read", "poll", "reread", "dispatch"}
    BY <1>2, PollMoves
  <2>2. Over.at = "over"
    BY DEF Over, NoPoller
  <2>3. Used' = Used
    BY <2>1, <2>2 DEF Used
  <2>4. Owing' = Owing /\ registry' = registry
    BY <2>1 DEF Owing, api
  <2>5. asks' = asks /\ faults' \in Nat /\ faults' >= faults
    BY <1>0, <2>1 DEF budget, Fault
  <2>6. Cardinality(Used) + Cardinality(Owing) <= 1 + asks' + faults'
    BY <1>0, <2>5
  <2> QED BY <1>0, <2>3, <2>4, <2>6 DEF SlotsInv
<1>3. ASSUME NEW k \in Workers, Work(k) \/ Idle(k) \/ TakeFails(k) PROVE SlotsInv'
  <2>1. WorkStep /\ (UNCHANGED budget \/ Fault)
    BY <1>3 DEF Work, Take, Close, Leave, RunEnds, Idle, TakeFails
  <2>2. Used' = Used /\ Owing' = Owing /\ registry' = registry
    BY <2>1 DEF WorkStep, api, Used, Owing
  <2>3. asks' = asks /\ faults' \in Nat /\ faults' >= faults
    BY <1>0, <2>1 DEF budget, Fault
  <2>4. Cardinality(Used) + Cardinality(Owing) <= 1 + asks' + faults'
    BY <1>0, <2>3
  <2> QED BY <1>0, <2>2, <2>4 DEF SlotsInv
<1>4. CASE Send \/ UNCHANGED vars
  <2>1. UNCHANGED <<api, poller, budget>>
    BY <1>4 DEF Send, vars
  <2> QED BY <2>1 DEF SlotsInv, Used, Owing, api, budget
<1>5. CASE Crash
  BY <1>5, CrashSlots
<1>6. ASSUME NEW h \in Handlers, Handle(h) \/ WriteFails(h) PROVE SlotsInv'
  BY <1>6, HandlerSlots
<1> QED BY <1>1, <1>2, <1>3, <1>4, <1>5, <1>6 DEF Next

-----------------------------------------------------------------------------
(* Where a poller is in the sequence of updates.                           *)

\* The answer it waits for begins at its offset or later, and so does the
\* batch it has: what it has handed out is behind it.
Sound(p) ==
  /\ poller[p].offset <= sent + 1 /\ poller[p].next <= poller[p].last + 1
  /\ poller[p].aborted => poller[p].at \in {"dispatch", "over"}
  /\ poller[p].at = "poll" => poller[p].offset <= floor
  /\ poller[p].at \in {"reread", "dispatch"} => poller[p].offset <= poller[p].next
  /\ \A u \in Updates : <<p, u>> \in dispatched =>
       poller[p].at # "none" /\ (poller[p].at # "over" => u < poller[p].offset)

SoundInv == floor <= sent + 1 /\ \A p \in Pollers : Sound(p)

LEMMA SoundKept ==
  ASSUME Typed, NEW p \in Pollers, Sound(p), poller'[p] = poller[p],
         floor' \in Nat, floor <= floor', sent' \in Nat, sent <= sent',
         \A u \in Updates : <<p, u>> \in dispatched' => <<p, u>> \in dispatched
  PROVE  Sound(p)'
<1>1. poller[p] \in PollerType /\ floor \in Nat /\ sent \in Nat
  BY DEF Typed
<1>2. poller[p].offset \in Nat
  BY <1>1 DEF PollerType
<1> QED BY <1>1, <1>2 DEF Sound

LEMMA SoundLife ==
  ASSUME Typed, NEW p \in Pollers, Sound(p), Life(p), UNCHANGED <<floor, sent, dispatched>>
  PROVE  Sound(p)'
<1>0. poller[p] \in PollerType /\ floor \in Nat \ {0} /\ sent \in Nat
  BY DEF Typed
<1>1. CASE poller'[p] = poller[p]
  BY <1>0, <1>1, SoundKept
<1>2. CASE poller'[p] = [poller[p] EXCEPT !.aborted = TRUE] /\ poller[p].at = "dispatch"
  <2>1. /\ poller'[p].at = poller[p].at /\ poller'[p].offset = poller[p].offset
        /\ poller'[p].next = poller[p].next /\ poller'[p].last = poller[p].last
    BY <1>0, <1>2 DEF PollerType
  <2> QED BY <1>2, <2>1 DEF Sound
<1>3. CASE poller'[p] = Over /\ poller[p].at # "none"
  <2>1. Over.at = "over" /\ Over.offset = 0 /\ Over.next = 1 /\ Over.last = 0 /\ Over.aborted = FALSE
    BY DEF Over, NoPoller
  <2> QED BY <1>0, <1>3, <2>1 DEF Sound
<1>4. CASE poller'[p] \in {NoPoller, Begun} /\ poller[p].at = "none"
  <2>1. \A r \in {NoPoller, Begun} : /\ r.at \in {"none", "ask"} /\ r.offset = 0 /\ r.next = 1
                                     /\ r.last = 0 /\ r.aborted = FALSE
    BY DEF Begun, NoPoller
  <2> QED BY <1>0, <1>4, <2>1 DEF Sound
<1> QED BY <1>1, <1>2, <1>3, <1>4 DEF Life

LEMMA SoundInit == Init => SoundInv
<1> SUFFICES ASSUME Init PROVE SoundInv
  OBVIOUS
<1>1. \A p \in Pollers : poller[p] \in {NoPoller, Begun}
  BY DEF Init, Begun
<1>2. \A r \in {NoPoller, Begun} : /\ r.at \in {"none", "ask"} /\ r.offset = 0 /\ r.next = 1
                                   /\ r.last = 0 /\ r.aborted = FALSE
  BY DEF Begun, NoPoller
<1>3. sent = 0 /\ floor = 1 /\ dispatched = {}
  BY DEF Init
<1> QED BY <1>1, <1>2, <1>3 DEF SoundInv, Sound

LEMMA SoundPoll ==
  ASSUME Typed, SoundInv, NEW p \in Pollers, Poll(p) \/ TryAgain(p)
  PROVE  SoundInv'
<1>0. /\ poller[p] \in PollerType /\ poller[p].last <= sent
      /\ floor \in Nat \ {0} /\ sent \in Nat /\ floor <= sent + 1 /\ dispatched \subseteq Jobs
  BY DEF Typed, SoundInv
<1>1. /\ poller[p].offset \in Nat /\ poller[p].next \in Nat \ {0} /\ poller[p].last \in Nat
      /\ poller[p].aborted \in BOOLEAN
  BY <1>0 DEF PollerType
<1>2. /\ poller[p].offset <= sent + 1 /\ poller[p].next <= poller[p].last + 1
      /\ poller[p].aborted => poller[p].at \in {"dispatch", "over"}
      /\ poller[p].at = "poll" => poller[p].offset <= floor
      /\ poller[p].at \in {"reread", "dispatch"} => poller[p].offset <= poller[p].next
      /\ \A u \in Updates : <<p, u>> \in dispatched =>
           poller[p].at # "none" /\ (poller[p].at # "over" => u < poller[p].offset)
  BY DEF SoundInv, Sound
<1>3. sent' = sent
  BY PollMoves
<1>4. ASSUME Confirm(p)
      PROVE  floor' \in Nat \ {0} /\ floor' <= sent + 1 /\ floor <= floor' /\ poller[p].offset <= floor'
  BY <1>0, <1>1, <1>2, <1>4 DEF Confirm
<1>5. floor' \in Nat \ {0} /\ floor' <= sent' + 1 /\ floor <= floor'
  <2>1. Confirm(p) \/ floor' = floor
    BY PollMoves
  <2> QED BY <1>0, <1>3, <1>4, <2>1
<1>6. \A q \in Pollers \ {p} : poller'[q] = poller[q]
  BY PollMoves
<1>7. ASSUME NEW u, NEW q \in Pollers, <<q, u>> \in dispatched'
      PROVE  \/ <<q, u>> \in dispatched
             \/ Dispatch(p) /\ q = p /\ u = poller[p].next
  <2>1. CASE Dispatch(p)
    <3>1. dispatched' \subseteq dispatched \cup {<<p, poller[p].next>>}
      BY <2>1 DEF Dispatch
    <3> QED BY <1>7, <2>1, <3>1
  <2>2. CASE ~Dispatch(p)
    <3>1. dispatched' = dispatched
      BY <2>2, PollMoves DEF history
    <3> QED BY <1>7, <3>1
  <2> QED BY <2>1, <2>2
<1>8. ASSUME NEW q \in Pollers \ {p} PROVE Sound(q)'
  BY <1>0, <1>3, <1>5, <1>6, <1>7, SoundKept DEF SoundInv
<1>9. ASSUME ~Dispatch(p), NEW u \in Updates, <<p, u>> \in dispatched'
      PROVE  poller[p].at # "none" /\ (poller[p].at # "over" => u < poller[p].offset)
  BY <1>2, <1>7, <1>9
<1>10. Sound(p)'
  <2>1. CASE poller'[p] = Over /\ floor' = floor
    <3>1. Over.at = "over" /\ Over.offset = 0 /\ Over.next = 1 /\ Over.last = 0 /\ Over.aborted = FALSE
      BY DEF Over, NoPoller
    <3> QED BY <1>0, <1>3, <2>1, <3>1 DEF Sound
  <2>2. CASE /\ poller[p].at \in {"read", "ask"} /\ poller'[p].at = "poll"
             /\ SameBatch(poller[p], poller'[p]) /\ Confirm(p)
    <3>1. ~Dispatch(p)
      BY <2>2 DEF Dispatch
    <3> QED BY <1>2, <1>3, <1>4, <1>9, <2>2, <3>1 DEF Sound, SameBatch
  <2>3. CASE poller[p].at = "poll" /\ poller'[p].at = "read" /\ SameBatch(poller[p], poller'[p])
    <3>1. ~Dispatch(p)
      BY <2>3 DEF Dispatch
    <3> QED BY <1>2, <1>3, <1>9, <2>3, <3>1 DEF Sound, SameBatch
  <2>4. CASE poller[p].at = "reread" /\ poller'[p].at = "dispatch" /\ SameBatch(poller[p], poller'[p])
    <3>1. ~Dispatch(p)
      BY <2>4 DEF Dispatch
    <3> QED BY <1>2, <1>3, <1>9, <2>4, <3>1 DEF Sound, SameBatch
  <2>5. CASE /\ poller[p].at = "poll" /\ poller'[p].at = "reread" /\ poller'[p].next = floor
             /\ poller'[p].last = sent /\ floor <= sent
             /\ poller'[p].offset = poller[p].offset /\ poller'[p].aborted = poller[p].aborted
    <3>1. ~Dispatch(p)
      BY <2>5 DEF Dispatch
    <3> QED BY <1>0, <1>2, <1>3, <1>9, <2>5, <3>1 DEF Sound
  <2>6. CASE /\ Dispatch(p) /\ poller[p].at = "dispatch" /\ poller'[p].at = "dispatch"
             /\ poller[p].next <= poller[p].last
             /\ poller'[p].next = poller[p].next + 1 /\ poller'[p].offset = poller[p].next + 1
             /\ poller'[p].last = poller[p].last /\ poller'[p].aborted = poller[p].aborted
    <3>1. ASSUME NEW u \in Updates, <<p, u>> \in dispatched' PROVE u < poller'[p].offset
      <4>1. u \in Nat
        BY UpdatesAreNumbers
      <4>2. u < poller[p].offset \/ u = poller[p].next
        BY <1>2, <1>7, <2>6, <3>1
      <4> QED BY <1>1, <1>2, <2>6, <4>1, <4>2
    <3>2. poller'[p].offset <= sent' + 1 /\ poller'[p].next <= poller'[p].last + 1
      BY <1>0, <1>1, <1>3, <2>6
    <3>3. poller'[p].offset <= poller'[p].next
      BY <1>1, <2>6
    <3> QED BY <2>6, <3>1, <3>2, <3>3 DEF Sound
  <2>7. CASE /\ poller'[p].at = "read" /\ poller'[p].next = 1 /\ poller'[p].last = 0
             /\ poller'[p].offset = poller[p].offset /\ poller'[p].aborted = FALSE
             /\ ~Dispatch(p) /\ poller[p].at # "over"
    BY <1>2, <1>3, <1>9, <2>7 DEF Sound
  <2>8. poller'[p].at = "read" => ~Dispatch(p) /\ poller[p].at # "over"
    <3>1. ~Dispatch(p) \/ poller'[p].at = "dispatch"
      <4>1. ASSUME Dispatch(p) PROVE poller'[p].at = poller[p].at /\ poller[p].at = "dispatch"
        <5>1. poller[p].at = "dispatch" /\ poller' = [poller EXCEPT ![p] =
                [[poller[p] EXCEPT !.next = poller[p].next + 1] EXCEPT !.offset = poller[p].next + 1]]
          BY <4>1 DEF Dispatch
        <5>2. poller'[p] = [[poller[p] EXCEPT !.next = poller[p].next + 1] EXCEPT !.offset = poller[p].next + 1]
          BY <5>1 DEF Typed
        <5> QED BY <1>0, <5>1, <5>2 DEF PollerType
      <4> QED BY <4>1
    <3>2. poller[p].at # "over"
      BY DEF Poll, TryAgain, ReadRow, Ask, Answer, Reread, Dispatch, BatchOver, At, Ends
    <3> QED BY <3>1, <3>2
  <2> DEFINE r == poller[p]
             s == poller'[p]
  <2>9. \/ s = Over /\ floor' = floor
        \/ r.at \in {"read", "ask"} /\ s.at = "poll" /\ SameBatch(r, s) /\ Confirm(p)
        \/ r.at = "poll" /\ s.at = "read" /\ SameBatch(r, s)
        \/ r.at = "reread" /\ s.at = "dispatch" /\ SameBatch(r, s)
        \/ /\ r.at = "poll" /\ s.at = "reread" /\ s.next = floor /\ s.last = sent /\ floor <= sent
           /\ s.offset = r.offset /\ s.aborted = r.aborted
        \/ /\ Dispatch(p) /\ r.at = "dispatch" /\ s.at = "dispatch" /\ r.next <= r.last
           /\ s.next = r.next + 1 /\ s.offset = r.next + 1
           /\ s.last = r.last /\ s.aborted = r.aborted
        \/ /\ s.at = "read" /\ s.next = 1 /\ s.last = 0 /\ s.offset = r.offset
           /\ s.aborted = FALSE
    BY PollMoves
  <2> QED BY ONLY <2>1, <2>2, <2>3, <2>4, <2>5, <2>6, <2>7, <2>8, <2>9
<1> QED BY <1>5, <1>8, <1>10 DEF SoundInv

-----------------------------------------------------------------------------
(* Where the jobs are.                                                     *)

Queue(k) == worker[k].queue

\* A chat's channel is that of a worker of the chat.
RoutesInv ==
  \A p \in Pollers, c \in Chats : route[p][c] # 0 =>
    /\ route[p][c] \in Updates /\ ChatOf[route[p][c]] = c
    /\ worker[<<p, route[p][c]>>].at # "none"

\* What waits in a queue is in hand, belongs to the chat of the queue, and
\* waits there only; and what is in hand waits.
QueuesInv ==
  /\ \A k \in Workers : \A i \in DOMAIN Queue(k) :
       <<k[1], Queue(k)[i]>> \in InHand /\ ChatOf[Queue(k)[i]] = ChatOf[k[2]]
  /\ \A j, k \in Workers : \A i \in DOMAIN Queue(j), l \in DOMAIN Queue(k) :
       j[1] = k[1] /\ Queue(j)[i] = Queue(k)[l] => j = k /\ i = l
  /\ \A p \in Pollers, u \in Updates : <<p, u>> \in InHand =>
       \E k \in Workers : k[1] = p /\ \E i \in DOMAIN Queue(k) : Queue(k)[i] = u

JobsInv ==
  /\ done \subseteq dispatched
  /\ RoutesInv /\ QueuesInv
  /\ \A k \in Workers : /\ worker[k].at \in {"none", "over"} => Queue(k) = <<>>
                        /\ worker[k].at # "none" => k \in dispatched

\* What a step of a worker does to the jobs.
LEMMA WorkEffect ==
  ASSUME Typed, NEW k \in Workers, Work(k) \/ Idle(k) \/ TakeFails(k)
  PROVE  /\ WorkStep
         /\ worker[k].at \notin {"none", "over"} /\ worker'[k].at # "none"
         /\ \A j \in Workers \ {k} : worker'[j] = worker[j]
         /\ \/ /\ worker'[k].queue = worker[k].queue /\ done' = done
               /\ worker'[k].at = "over" => worker[k].queue = <<>>
            \/ /\ worker[k].queue # <<>> /\ worker'[k].queue = Tail(worker[k].queue)
               /\ done' = done \cup {<<k[1], Head(worker[k].queue)>>}
               /\ worker'[k].at # "over"
<1>0. worker \in [Workers -> WorkerType] /\ worker[k] \in WorkerType
  BY DEF Typed
<1>1. WorkStep /\ worker[k].at \notin {"none", "over"}
  BY DEF Work, Take, Close, Leave, RunEnds, Idle, TakeFails
<1>2. PICK r : worker' = [worker EXCEPT ![k] = r]
  BY DEF Work, Take, Close, Leave, RunEnds, Idle, TakeFails
<1>3. worker'[k] = r /\ \A j \in Workers \ {k} : worker'[j] = worker[j]
  BY <1>0, <1>2
<1>4. Gone.at = "over" /\ Gone.queue = <<>>
  BY DEF Gone, NoWorker
<1>a. CASE Take(k)
  <2>1. worker'[k] = [[worker[k] EXCEPT !.at = "run"] EXCEPT !.queue = Tail(worker[k].queue)]
    BY <1>0, <1>a DEF Take
  <2>2. worker'[k].at = "run" /\ worker'[k].queue = Tail(worker[k].queue)
    BY <1>0, <2>1 DEF WorkerType
  <2> QED BY <1>1, <1>3, <1>a, <2>2 DEF Take
<1>b. CASE TakeFails(k)
  <2>1. worker'[k] = [worker[k] EXCEPT !.queue = Tail(worker[k].queue)] /\ worker[k].at = "wait"
    BY <1>0, <1>b DEF TakeFails
  <2>2. worker'[k].at = "wait" /\ worker'[k].queue = Tail(worker[k].queue)
    BY <1>0, <2>1 DEF WorkerType
  <2> QED BY <1>1, <1>3, <1>b, <2>2 DEF TakeFails
<1>c. CASE RunEnds(k) \/ Idle(k)
  <2>1. PICK a \in {"wait", "late"} : worker'[k] = [worker[k] EXCEPT !.at = a]
    BY <1>0, <1>c DEF RunEnds, Idle
  <2>2. worker'[k].at = a /\ worker'[k].queue = worker[k].queue
    BY <1>0, <2>1 DEF WorkerType
  <2> QED BY <1>1, <1>3, <1>c, <2>2 DEF RunEnds, Idle
<1>d. CASE Leave(k)
  <2>1. worker'[k] = Gone /\ worker[k].queue = <<>>
    BY <1>0, <1>d DEF Leave
  <2> QED BY <1>1, <1>3, <1>4, <1>d, <2>1 DEF Leave
<1>e. CASE Close(k)
  <2>1. worker'[k] = IF worker[k].queue = <<>> THEN Gone
                     ELSE [[worker[k] EXCEPT !.at = "wait"] EXCEPT !.closed = TRUE]
    BY <1>0, <1>e DEF Close
  <2>2. LET s == [[worker[k] EXCEPT !.at = "wait"] EXCEPT !.closed = TRUE]
        IN s.at = "wait" /\ s.queue = worker[k].queue
    BY <1>0 DEF WorkerType
  <2> QED BY <1>1, <1>3, <1>4, <1>e, <2>1, <2>2 DEF Close
<1> QED BY <1>a, <1>b, <1>c, <1>d, <1>e DEF Work

\* A queue that keeps all jobs, or all but its first, which is done.
LEMMA JobsWork ==
  ASSUME Typed, JobsInv, NEW k \in Workers, Work(k) \/ Idle(k) \/ TakeFails(k)
  PROVE  JobsInv'
<1>0. /\ worker[k].queue \in Seq(Updates) /\ \A j \in Workers : worker[j].queue \in Seq(Updates)
      /\ done \subseteq Jobs /\ dispatched \subseteq Jobs
  BY DEF Typed, WorkerType
<1>1. /\ route' = route /\ dispatched' = dispatched
      /\ worker[k].at \notin {"none", "over"} /\ worker'[k].at # "none"
      /\ \A j \in Workers \ {k} : worker'[j] = worker[j]
  BY WorkEffect DEF WorkStep
<1>2. RoutesInv'
  <2>1. \A j \in Workers : worker[j].at # "none" => worker'[j].at # "none"
    BY <1>1
  <2>2. \A p \in Pollers, u \in Updates : <<p, u>> \in Workers
    BY DEF Workers
  <2> QED BY <1>1, <2>1, <2>2 DEF JobsInv, RoutesInv
<1>3. CASE /\ worker'[k].queue = worker[k].queue /\ done' = done
           /\ worker'[k].at = "over" => worker[k].queue = <<>>
  <2>1. \A j \in Workers : Queue(j)' = Queue(j)
    BY <1>1, <1>3 DEF Queue
  <2>2. QueuesInv'
    BY <1>1, <1>3, <2>1 DEF JobsInv, QueuesInv, InHand
  <2> QED BY <1>1, <1>2, <1>3, <2>1, <2>2 DEF JobsInv, Queue
<1>4. CASE /\ worker[k].queue # <<>> /\ worker'[k].queue = Tail(worker[k].queue)
           /\ done' = done \cup {<<k[1], Head(worker[k].queue)>>}
           /\ worker'[k].at # "over"
  <2>1. PICK q : q = worker[k].queue
    OBVIOUS
  <2>2. /\ q \in Seq(Updates) /\ q # <<>> /\ DOMAIN q = 1..Len(q) /\ Len(q) \in Nat \ {0} /\ 1 \in DOMAIN q
        /\ Head(q) = q[1] /\ DOMAIN Tail(q) = 1 .. Len(q) - 1
        /\ \A i \in DOMAIN Tail(q) : i + 1 \in DOMAIN q /\ Tail(q)[i] = q[i + 1] /\ i \in Nat /\ i \in 1..Len(q)-1
    <3>1. q \in Seq(Updates) /\ q # <<>>
      BY <1>0, <1>4, <2>1
    <3> QED BY ONLY <3>1
  <2>3. Queue(k) = q /\ Queue(k)' = Tail(q) /\ \A j \in Workers \ {k} : Queue(j)' = Queue(j)
    BY <1>1, <1>4, <2>1 DEF Queue
  <2>4. /\ \A j \in Workers : \A i \in DOMAIN Queue(j) :
             <<j[1], Queue(j)[i]>> \in InHand /\ ChatOf[Queue(j)[i]] = ChatOf[j[2]]
        /\ \A j, l \in Workers : \A i \in DOMAIN Queue(j), m \in DOMAIN Queue(l) :
             j[1] = l[1] /\ Queue(j)[i] = Queue(l)[m] => j = l /\ i = m
        /\ \A p \in Pollers, u \in Updates : <<p, u>> \in InHand =>
             \E j \in Workers : j[1] = p /\ \E i \in DOMAIN Queue(j) : Queue(j)[i] = u
    BY DEF JobsInv, QueuesInv
  <2>5. InHand' = InHand \ {<<k[1], q[1]>>} /\ <<k[1], q[1]>> \in InHand
    <3>1. InHand' = InHand \ {<<k[1], q[1]>>}
      BY <1>1, <1>4, <2>1, <2>2 DEF InHand
    <3>2. <<k[1], q[1]>> \in InHand
      BY <2>2, <2>3, <2>4
    <3> QED BY <3>1, <3>2
\* Where each entry was before.
  <2>6. ASSUME NEW j \in Workers, NEW i \in DOMAIN Queue(j)'
        PROVE  LET m == IF j = k THEN i + 1 ELSE i
               IN m \in DOMAIN Queue(j) /\ Queue(j)'[i] = Queue(j)[m] /\ ~(j = k /\ m = 1)
    <3>1. CASE j = k
      <4>1. i \in DOMAIN Tail(q)
        BY <2>3, <3>1
      <4>2. i + 1 \in DOMAIN q /\ Tail(q)[i] = q[i + 1] /\ i + 1 # 1
        BY <2>2, <4>1
      <4> QED BY <2>3, <3>1, <4>2
    <3>2. CASE j # k
      BY <2>3, <3>2
    <3> QED BY <3>1, <3>2
  <2>7. ASSUME NEW j \in Workers, NEW i \in DOMAIN Queue(j)'
        PROVE  <<j[1], Queue(j)'[i]>> \in InHand' /\ ChatOf[Queue(j)'[i]] = ChatOf[j[2]]
    <3> DEFINE m == IF j = k THEN i + 1 ELSE i
    <3>1. m \in DOMAIN Queue(j) /\ Queue(j)'[i] = Queue(j)[m] /\ ~(j = k /\ m = 1)
      BY <2>6
    <3> HIDE DEF m
    <3>2. <<j[1], Queue(j)[m]>> \in InHand /\ ChatOf[Queue(j)[m]] = ChatOf[j[2]]
      BY <2>4, <3>1
    <3>3. <<j[1], Queue(j)[m]>> # <<k[1], q[1]>>
      <4> SUFFICES ASSUME j[1] = k[1], Queue(j)[m] = q[1] PROVE FALSE
        OBVIOUS
      <4>1. j = k /\ m = 1
        BY <2>2, <2>3, <2>4, <3>1
      <4> QED BY <3>1, <4>1
    <3> QED BY <2>5, <3>1, <3>2, <3>3
  <2>8. ASSUME NEW j \in Workers, NEW l \in Workers, NEW i \in DOMAIN Queue(j)', NEW m \in DOMAIN Queue(l)',
               j[1] = l[1], Queue(j)'[i] = Queue(l)'[m]
        PROVE  j = l /\ i = m
    <3> DEFINE a == IF j = k THEN i + 1 ELSE i
               b == IF l = k THEN m + 1 ELSE m
    <3>1. /\ a \in DOMAIN Queue(j) /\ Queue(j)'[i] = Queue(j)[a]
          /\ b \in DOMAIN Queue(l) /\ Queue(l)'[m] = Queue(l)[b]
      BY <2>6
    <3>2. j = l /\ a = b
      <4> HIDE DEF a, b
      <4>1. Queue(j)[a] = Queue(l)[b] /\ j[1] = l[1]
        BY <2>8, <3>1
      <4>2. \A x \in DOMAIN Queue(j), y \in DOMAIN Queue(l) :
              j[1] = l[1] /\ Queue(j)[x] = Queue(l)[y] => j = l /\ x = y
        BY <2>4
      <4> QED BY <3>1, <4>1, <4>2
    <3>3. CASE j = k
      <4>1. i \in Nat /\ m \in Nat
        BY <2>2, <2>3, <2>8, <3>2, <3>3
      <4> QED BY <3>2, <3>3, <4>1
    <3>4. CASE j # k
      BY <3>2, <3>4
    <3> QED BY <3>3, <3>4
  <2>9. ASSUME NEW p \in Pollers, NEW u \in Updates, <<p, u>> \in InHand'
        PROVE  \E j \in Workers : j[1] = p /\ \E i \in DOMAIN Queue(j)' : Queue(j)'[i] = u
    <3>1. <<p, u>> \in InHand /\ <<p, u>> # <<k[1], q[1]>>
      BY <2>5, <2>9
    <3>2. PICK j \in Workers : j[1] = p /\ \E i \in DOMAIN Queue(j) : Queue(j)[i] = u
      BY <2>4, <3>1
    <3>3. PICK i \in DOMAIN Queue(j) : Queue(j)[i] = u
      BY <3>2
    <3>4. CASE j # k
      BY <2>3, <3>2, <3>3, <3>4
    <3>5. CASE j = k
      <4>1. i \in 1..Len(q) /\ q[i] = u /\ i # 1
        BY <2>2, <2>3, <3>1, <3>2, <3>3, <3>5
      <4>2. i - 1 \in DOMAIN Tail(q) /\ (i - 1) + 1 = i
        BY <2>2, <4>1
      <4>3. Tail(q)[i - 1] = u
        BY <2>2, <4>1, <4>2
      <4> QED BY <2>3, <3>2, <3>5, <4>2, <4>3
    <3> QED BY <3>4, <3>5
  <2>10. QueuesInv'
    BY <2>7, <2>8, <2>9 DEF QueuesInv
  <2>11. done' \subseteq dispatched'
    BY <1>1, <1>4, <2>1, <2>2, <2>5 DEF JobsInv, InHand
  <2>12. ASSUME NEW j \in Workers
         PROVE  /\ worker'[j].at \in {"none", "over"} => Queue(j)' = <<>>
                /\ worker'[j].at # "none" => j \in dispatched'
    BY <1>1, <1>4 DEF JobsInv, Queue
  <2> QED BY <1>2, <2>10, <2>11, <2>12 DEF JobsInv
<1> QED BY <1>3, <1>4, WorkEffect

\* A job goes to the end of the queue of its chat, or begins a worker of its
\* own, which was not there before.
LEMMA DispatchedJobs ==
  ASSUME Typed, JobsInv, NEW p \in Pollers, NEW u \in Updates, Dispatched(p, u),
         <<p, u>> \notin dispatched
  PROVE  RoutesInv' /\ \E k \in Workers :
           /\ k[1] = p /\ ChatOf[k[2]] = ChatOf[u]
           /\ worker'[k].at \notin {"none", "over"} /\ Queue(k)' = Append(Queue(k), u)
           /\ worker[k].at # "none" \/ k = <<p, u>>
           /\ \A j \in Workers \ {k} : worker'[j] = worker[j]
<1>0. /\ worker \in [Workers -> WorkerType] /\ route \in [Pollers -> [Chats -> Nat]]
      /\ ChatOf[u] \in Chats /\ <<p, u>> \in Workers /\ u \in Nat
      /\ \A q \in Pollers, v \in Updates : <<q, v>> \in Workers
  BY ChatAssumption, UpdatesAreNumbers DEF Typed, Workers
<1> DEFINE c == ChatOf[u]
           k == <<p, route[p][c]>>
<1>1. CASE /\ k \in Workers /\ ~worker[k].closed /\ worker[k].at # "over"
           /\ worker' = [worker EXCEPT ![k].queue = Append(@, u)] /\ UNCHANGED route
  <2>1. 0 \notin Updates
    <3>1. Cardinality(Updates) \in Nat /\ Updates = 1..Cardinality(Updates)
      BY UpdatesAssumption, FS_CardinalityType
    <3> QED BY <3>1
  <2>2. route[p][c] # 0
    BY <1>1, <2>1 DEF Workers
  <2>3. ChatOf[k[2]] = c /\ k[1] = p /\ worker[k].at # "none"
    BY <1>0, <2>2 DEF JobsInv, RoutesInv
  <2>4. worker'[k] = [worker[k] EXCEPT !.queue = Append(worker[k].queue, u)] /\ worker[k] \in WorkerType
    BY <1>0, <1>1
  <2>5. worker'[k].at = worker[k].at /\ worker'[k].queue = Append(worker[k].queue, u)
    BY <2>4 DEF WorkerType
  <2>6. \A j \in Workers \ {k} : worker'[j] = worker[j]
    BY <1>0, <1>1
  <2>7. RoutesInv'
    <3>1. \A j \in Workers : worker'[j].at = worker[j].at
      BY <2>5, <2>6
    <3>2. route' = route
      BY <1>1
    <3> QED BY <1>0, <3>1, <3>2 DEF JobsInv, RoutesInv
  <2> QED BY <1>1, <2>3, <2>5, <2>6, <2>7 DEF Queue
<1>2. CASE /\ worker' = [worker EXCEPT ![<<p, u>>] = [NoWorker EXCEPT !.at = "wait", !.queue = <<u>>]]
           /\ route' = [route EXCEPT ![p][c] = u]
  <2> DEFINE n == <<p, u>>
  <2>1. worker[n].at = "none" /\ Queue(n) = <<>>
    BY <1>0 DEF JobsInv
  <2>2. worker'[n] = [NoWorker EXCEPT !.at = "wait", !.queue = <<u>>]
    BY <1>0, <1>2
  <2>3. worker'[n].at = "wait" /\ worker'[n].queue = <<u>>
    BY <2>2 DEF NoWorker
  <2>4. Queue(n)' = Append(Queue(n), u)
    BY <2>1, <2>3 DEF Queue
  <2>5. \A j \in Workers \ {n} : worker'[j] = worker[j]
    BY <1>0, <1>2
  <2>6. RoutesInv'
    <3> SUFFICES ASSUME NEW q \in Pollers, NEW d \in Chats, route'[q][d] # 0
                 PROVE  /\ route'[q][d] \in Updates /\ ChatOf[route'[q][d]] = d
                        /\ worker'[<<q, route'[q][d]>>].at # "none"
      BY DEF RoutesInv
    <3>1. CASE q = p /\ d = c
      <4>1. route'[q][d] = u
        BY <1>0, <1>2, <3>1
      <4> QED BY <2>3, <3>1, <4>1
    <3>2. CASE ~(q = p /\ d = c)
      <4>1. route'[q][d] = route[q][d]
        BY <1>0, <1>2, <3>2
      <4>2. /\ route[q][d] \in Updates /\ ChatOf[route[q][d]] = d
            /\ worker[<<q, route[q][d]>>].at # "none"
        BY <4>1 DEF JobsInv, RoutesInv
      <4>3. <<q, route[q][d]>> \in Workers
        BY <1>0, <4>2
      <4>4. worker'[<<q, route[q][d]>>].at # "none"
        BY <2>3, <2>5, <4>2, <4>3
      <4> QED BY <4>1, <4>2, <4>4
    <3> QED BY <3>1, <3>2
  <2>7. n[1] = p /\ n[2] = u
    OBVIOUS
  <2> QED BY <1>0, <2>3, <2>4, <2>5, <2>6, <2>7
<1> QED BY <1>1, <1>2 DEF Dispatched

LEMMA JobsDispatch ==
  ASSUME Typed, SoundInv, JobsInv, NEW p \in Pollers, Dispatch(p)
  PROVE  JobsInv'
<1> DEFINE u == poller[p].next
<1>0. /\ u \in Updates /\ u \in Nat /\ poller[p].at = "dispatch" /\ poller[p].offset <= u
      /\ poller[p].offset \in Nat
  <2>1. poller[p] \in PollerType /\ poller[p].last <= sent /\ sent \in Nat /\ 1..sent \subseteq Updates
    BY DEF Typed
  <2>2. u \in Nat \ {0} /\ u <= poller[p].last /\ poller[p].last \in Nat /\ poller[p].offset \in Nat
        /\ poller[p].at = "dispatch"
    BY <2>1 DEF Dispatch, PollerType
  <2>3. u \in 1..sent
    BY <2>1, <2>2
  <2>4. poller[p].offset <= u
    BY <2>2 DEF SoundInv, Sound
  <2> QED BY <2>1, <2>2, <2>3, <2>4
<1>1. <<p, u>> \notin dispatched
  <2>1. ASSUME <<p, u>> \in dispatched PROVE u < poller[p].offset
    BY <1>0, <2>1 DEF SoundInv, Sound
  <2> QED BY <1>0, <2>1
<1>2. done' = done
  BY DEF Dispatch
<1>3. CASE UNCHANGED <<chats, dispatched>>
  BY <1>2, <1>3 DEF JobsInv, RoutesInv, QueuesInv, Queue, InHand, chats
<1>4. CASE Dispatched(p, u) /\ dispatched' = dispatched \cup {<<p, u>>}
  <2> HIDE DEF u
  <2>1. RoutesInv'
    BY <1>0, <1>1, <1>4, DispatchedJobs
  <2>2. PICK k \in Workers :
           /\ k[1] = p /\ ChatOf[k[2]] = ChatOf[u]
           /\ worker'[k].at \notin {"none", "over"} /\ Queue(k)' = Append(Queue(k), u)
           /\ worker[k].at # "none" \/ k = <<p, u>>
           /\ \A j \in Workers \ {k} : worker'[j] = worker[j]
    BY <1>0, <1>1, <1>4, DispatchedJobs
  <2>3. PICK q : q = Queue(k)
    OBVIOUS
  <2>4. q \in Seq(Updates)
    BY <2>3 DEF Typed, WorkerType, Queue
  <2>5. /\ DOMAIN q = 1..Len(q) /\ Len(q) \in Nat /\ DOMAIN Append(q, u) = 1 .. Len(q) + 1
        /\ Append(q, u)[Len(q) + 1] = u
        /\ \A i \in DOMAIN q : i \in DOMAIN Append(q, u) /\ Append(q, u)[i] = q[i] /\ i # Len(q) + 1
        /\ \A i \in DOMAIN Append(q, u) : i \in DOMAIN q \/ i = Len(q) + 1
    BY ONLY <1>0, <2>4
  <2>6. Queue(k)' = Append(q, u) /\ \A j \in Workers \ {k} : Queue(j)' = Queue(j)
    BY <2>2, <2>3 DEF Queue
  <2>7. /\ \A j \in Workers : \A i \in DOMAIN Queue(j) :
             <<j[1], Queue(j)[i]>> \in InHand /\ ChatOf[Queue(j)[i]] = ChatOf[j[2]]
        /\ \A j, l \in Workers : \A i \in DOMAIN Queue(j), m \in DOMAIN Queue(l) :
             j[1] = l[1] /\ Queue(j)[i] = Queue(l)[m] => j = l /\ i = m
        /\ \A r \in Pollers, v \in Updates : <<r, v>> \in InHand =>
             \E j \in Workers : j[1] = r /\ \E i \in DOMAIN Queue(j) : Queue(j)[i] = v
    BY DEF JobsInv, QueuesInv
  <2>8. InHand' = InHand \cup {<<p, u>>} /\ <<p, u>> \notin InHand
    BY <1>1, <1>2, <1>4 DEF JobsInv, InHand
\* Each entry was there before, but for the new one.
  <2>9. ASSUME NEW j \in Workers, NEW i \in DOMAIN Queue(j)'
        PROVE  \/ i \in DOMAIN Queue(j) /\ Queue(j)'[i] = Queue(j)[i]
               \/ j = k /\ i = Len(q) + 1 /\ Queue(j)'[i] = u
    <3>1. CASE j = k
      <4>1. i \in DOMAIN Append(q, u)
        BY <2>6, <3>1
      <4> QED BY <2>3, <2>5, <2>6, <3>1, <4>1
    <3>2. CASE j # k
      BY <2>6, <3>2
    <3> QED BY <3>1, <3>2
  <2>10. ASSUME NEW j \in Workers, NEW i \in DOMAIN Queue(j)'
         PROVE  <<j[1], Queue(j)'[i]>> \in InHand' /\ ChatOf[Queue(j)'[i]] = ChatOf[j[2]]
    BY <2>2, <2>7, <2>8, <2>9
  <2>11. ASSUME NEW j \in Workers, NEW l \in Workers, NEW i \in DOMAIN Queue(j)', NEW m \in DOMAIN Queue(l)',
                j[1] = l[1], Queue(j)'[i] = Queue(l)'[m]
         PROVE  j = l /\ i = m
    <3>1. ASSUME NEW x \in Workers, NEW y \in DOMAIN Queue(x), x[1] = p PROVE Queue(x)[y] # u
      <4>1. <<x[1], Queue(x)[y]>> \in InHand
        BY <2>7, <3>1
      <4> QED BY ONLY <2>8, <3>1, <4>1
    <3>2. CASE i \in DOMAIN Queue(j) /\ Queue(j)'[i] = Queue(j)[i]
      <4>1. m \in DOMAIN Queue(l) /\ Queue(l)'[m] = Queue(l)[m]
        <5>1. CASE m \in DOMAIN Queue(l) /\ Queue(l)'[m] = Queue(l)[m]
          BY ONLY <5>1
        <5>2. CASE l = k /\ Queue(l)'[m] = u
          <6>1. j[1] = p
            BY ONLY <2>2, <2>11, <5>2
          <6>2. Queue(j)[i] # u
            BY <3>1, <3>2, <6>1
          <6> QED BY ONLY <2>11, <3>2, <5>2, <6>2
        <5> QED BY ONLY <2>9, <2>11, <5>1, <5>2
      <4>2. Queue(j)[i] = Queue(l)[m]
        BY <2>11, <3>2, <4>1
      <4> QED BY <2>7, <2>11, <3>2, <4>1, <4>2
    <3>3. CASE j = k /\ i = Len(q) + 1 /\ Queue(j)'[i] = u
      <4>1. ~(m \in DOMAIN Queue(l) /\ Queue(l)'[m] = Queue(l)[m])
        BY <2>2, <2>11, <3>1, <3>3
      <4>2. l = k /\ m = Len(q) + 1
        BY <2>9, <4>1
      <4> QED BY <3>3, <4>2
    <3> QED BY <2>9, <3>2, <3>3
  <2>12. ASSUME NEW r \in Pollers, NEW v \in Updates, <<r, v>> \in InHand'
         PROVE  \E j \in Workers : j[1] = r /\ \E i \in DOMAIN Queue(j)' : Queue(j)'[i] = v
    <3>1. CASE <<r, v>> \in InHand
      <4>1. PICK j \in Workers : j[1] = r /\ \E i \in DOMAIN Queue(j) : Queue(j)[i] = v
        BY <2>7, <3>1
      <4>2. PICK i \in DOMAIN Queue(j) : Queue(j)[i] = v
        BY <4>1
      <4>3. i \in DOMAIN Queue(j)' /\ Queue(j)'[i] = v
        <5>1. CASE j = k
          BY <2>3, <2>5, <2>6, <4>2, <5>1
        <5>2. CASE j # k
          BY <2>6, <4>2, <5>2
        <5> QED BY <5>1, <5>2
      <4> QED BY <4>1, <4>3
    <3>2. CASE r = p /\ v = u
      <4>1. Len(q) + 1 \in DOMAIN Append(q, u) /\ Append(q, u)[Len(q) + 1] = u
        BY <2>5
      <4> QED BY <2>2, <2>6, <3>2, <4>1
    <3> QED BY <2>8, <2>12, <3>1, <3>2
  <2>13. QueuesInv'
    BY <2>10, <2>11, <2>12 DEF QueuesInv
  <2>14. ASSUME NEW j \in Workers
         PROVE  /\ worker'[j].at \in {"none", "over"} => Queue(j)' = <<>>
                /\ worker'[j].at # "none" => j \in dispatched'
    <3>1. CASE j = k
      BY <1>4, <2>2, <3>1 DEF JobsInv
    <3>2. CASE j # k
      BY <1>4, <2>2, <2>6, <3>2 DEF JobsInv
    <3> QED BY <3>1, <3>2
  <2>15. done' \subseteq dispatched'
    BY <1>2, <1>4 DEF JobsInv
  <2> QED BY <2>1, <2>13, <2>14, <2>15 DEF JobsInv
<1> QED BY <1>3, <1>4 DEF Dispatch

LEMMA JobsInit == Init => JobsInv
<1> SUFFICES ASSUME Init PROVE JobsInv
  OBVIOUS
<1>1. /\ \A k \in Workers : worker[k] = NoWorker
      /\ \A p \in Pollers, c \in Chats : route[p][c] = 0
      /\ dispatched = {} /\ done = {}
  BY DEF Init
<1>2. NoWorker.at = "none" /\ NoWorker.queue = <<>> /\ DOMAIN <<>> = {}
  BY DEF NoWorker
<1>3. \A k \in Workers : worker[k].at = "none" /\ Queue(k) = <<>> /\ DOMAIN Queue(k) = {}
  BY <1>1, <1>2 DEF Queue
<1>4. InHand = {}
  BY <1>1 DEF InHand
<1>5. QueuesInv
  BY <1>3, <1>4 DEF QueuesInv
<1>6. RoutesInv
  BY <1>1 DEF RoutesInv
<1> QED BY <1>1, <1>3, <1>5, <1>6 DEF JobsInv

LEMMA JobsNext == Inv /\ SoundInv /\ JobsInv /\ [Next]_vars => JobsInv'
<1> SUFFICES ASSUME Typed, SoundInv, JobsInv, [Next]_vars PROVE JobsInv'
  BY DEF Inv
<1>1. CASE Crash
  <2>1. /\ worker' = [k \in Workers |-> IF worker[k].at = "none" THEN NoWorker ELSE Gone]
        /\ route' = [p \in Pollers |-> [c \in Chats |-> 0]]
        /\ dispatched' = dispatched /\ done' = dispatched
    BY <1>1 DEF Crash
  <2>2. /\ NoWorker.at = "none" /\ NoWorker.queue = <<>> /\ DOMAIN <<>> = {}
        /\ Gone.at = "over" /\ Gone.queue = <<>>
    BY DEF NoWorker, Gone
  <2>3. \A k \in Workers : /\ Queue(k)' = <<>> /\ DOMAIN Queue(k)' = {}
                           /\ worker'[k].at # "none" => worker[k].at # "none"
    BY <2>1, <2>2 DEF Queue
  <2>4. InHand' = {}
    BY <2>1 DEF InHand
  <2>5. QueuesInv'
    BY <2>3, <2>4 DEF QueuesInv
  <2>6. RoutesInv'
    BY <2>1 DEF RoutesInv
  <2> QED BY <2>1, <2>3, <2>5, <2>6 DEF JobsInv
<1>2. ASSUME UNCHANGED <<chats, history>> PROVE JobsInv'
  BY <1>2 DEF JobsInv, RoutesInv, QueuesInv, Queue, InHand, chats, history
<1>3. ASSUME NEW p \in Pollers, Dispatch(p) PROVE JobsInv'
  BY <1>3, JobsDispatch
<1>4. ASSUME NEW k \in Workers, Work(k) \/ Idle(k) \/ TakeFails(k) PROVE JobsInv'
  BY <1>4, JobsWork
<1>5. Crash \/ UNCHANGED <<chats, history>> \/ (\E p \in Pollers : Dispatch(p))
            \/ \E k \in Workers : Work(k) \/ Idle(k) \/ TakeFails(k)
  BY DEF Next, Send, Handle, TurnOn, TurnOff, WriteRow, Undo, WriteFails, UpdateFails, DeleteFails, Dropped, Request,
         Poll, TryAgain, ReadRow, Ask, Answer, Reread, BatchOver, PollStep, vars
<1> QED BY <1>1, <1>2, <1>3, <1>4, <1>5

LEMMA SoundNext == Typed /\ SlotsInv /\ SoundInv /\ [Next]_vars => SoundInv'
<1> SUFFICES ASSUME Typed, SlotsInv, SoundInv, [Next]_vars PROVE SoundInv'
  OBVIOUS
<1>0. floor \in Nat /\ sent \in Nat /\ floor <= sent + 1
  BY DEF Typed, SoundInv
<1>1. ASSUME UNCHANGED <<floor, sent, dispatched>>, \A p \in Pollers : Life(p) PROVE SoundInv'
  BY <1>0, <1>1, SoundLife DEF SoundInv
<1>2. CASE Send
  <2>1. UNCHANGED <<floor, poller, dispatched>> /\ sent' = sent + 1
    BY <1>2 DEF Send, history
  <2>2. \A p \in Pollers : Sound(p)'
    BY <1>0, <2>1, SoundKept DEF SoundInv
  <2> QED BY <1>0, <2>1, <2>2 DEF SoundInv
<1>3. CASE Crash
  <2>1. UNCHANGED <<floor, sent, dispatched>>
    BY <1>3 DEF Crash
  <2> QED BY <1>1, <1>3, <2>1, CrashSlots
<1>4. ASSUME NEW h \in Handlers, Handle(h) \/ WriteFails(h) PROVE SoundInv'
  <2>1. UNCHANGED <<floor, sent, dispatched>>
    BY <1>4, HandlerStep DEF history
  <2> QED BY <1>1, <1>4, <2>1, HandlerSlots
<1>5. ASSUME NEW p \in Pollers, Poll(p) \/ TryAgain(p) PROVE SoundInv'
  BY <1>5, SoundPoll
<1>6. ASSUME UNCHANGED <<floor, sent, poller, dispatched>> PROVE SoundInv'
  BY <1>1, <1>6 DEF Life
<1>7. ASSUME NEW k \in Workers, Work(k) \/ Idle(k) \/ TakeFails(k) PROVE SoundInv'
  <2>1. WorkStep
    BY <1>7, WorkEffect
  <2> QED BY <1>6, <2>1 DEF WorkStep
<1>8. ASSUME NEW h \in Handlers, NEW op \in {"on", "off", "gone"}, Request(h, op) PROVE SoundInv'
  BY <1>6, <1>8 DEF Request, history
<1>9. CASE UNCHANGED vars
  BY <1>6, <1>9 DEF vars, history
<1> QED BY <1>2, <1>3, <1>4, <1>5, <1>7, <1>8, <1>9 DEF Next

\* TypeOK: nobody runs out of pollers, no offset runs ahead of what was sent,
\* an abort is pending in the dispatch loop only, and a chat's channel leads to
\* a worker of the chat with updates of the chat.
THEOREM TypeCorrect == Spec => []TypeOK
<1>1. ASSUME Typed, SlotsInv, SoundInv, JobsInv PROVE TypeOK
  <2>1. /\ row \in {"on", "off", "gone"} /\ handler \in [Handlers -> HandlerType]
        /\ sent \in Nat /\ 1..sent \subseteq Updates /\ floor \in Nat \ {0}
        /\ poller \in [Pollers -> PollerType] /\ worker \in [Workers -> WorkerType]
        /\ dispatched \cup done \subseteq Jobs /\ refused \subseteq Doubtful
        /\ dark \in BOOLEAN /\ overlapped \in BOOLEAN
        /\ asks <= MaxAsks /\ faults <= MaxFaults
        /\ \A p \in Pollers : poller[p].last <= sent
    BY <1>1, BoundsAssumption DEF Typed
  <2>2. registry \in Pollers \cup {0}
    BY <1>1 DEF SlotsInv, Used
  <2>3. sent \in Updates \cup {0} /\ floor \in 1 .. sent + 1
    BY <1>1, <2>1 DEF SoundInv
  <2>4. ASSUME NEW p \in Pollers
        PROVE  /\ poller[p].at \in Awaits \cup {"none", "dispatch", "over"}
               /\ poller[p].offset \in 0 .. sent + 1
               /\ poller[p].last <= sent /\ poller[p].next <= poller[p].last + 1
               /\ poller[p].aborted => poller[p].at \in {"dispatch", "over"}
               /\ \A c \in Chats : route[p][c] # 0 => ChatOf[route[p][c]] = c
    <3>1. poller[p].at \in Awaits \cup {"none", "dispatch", "over"} /\ poller[p].offset \in Nat
      BY <2>1 DEF PollerType
    <3>2. poller[p].offset <= sent + 1 /\ poller[p].next <= poller[p].last + 1
          /\ (poller[p].aborted => poller[p].at \in {"dispatch", "over"})
      BY <1>1 DEF SoundInv, Sound
    <3>3. \A c \in Chats : route[p][c] # 0 => ChatOf[route[p][c]] = c
      BY <1>1 DEF JobsInv, RoutesInv
    <3> QED BY <2>1, <3>1, <3>2, <3>3
  <2>5. ASSUME NEW k \in Workers
        PROVE  /\ worker[k].at \in {"none", "wait", "late", "run", "over"}
               /\ worker[k].queue \in Seq(Updates)
               /\ \A u \in ToSet(worker[k].queue) : ChatOf[u] = ChatOf[k[2]]
    <3>1. worker[k].at \in {"none", "wait", "late", "run", "over"} /\ worker[k].queue \in Seq(Updates)
      BY <2>1 DEF WorkerType
    <3>2. \A i \in DOMAIN worker[k].queue : ChatOf[worker[k].queue[i]] = ChatOf[k[2]]
      BY <1>1 DEF JobsInv, QueuesInv, Queue
    <3> QED BY <3>1, <3>2 DEF ToSet
  <2> QED BY <2>1, <2>2, <2>3, <2>4, <2>5 DEF TypeOK, HandlerType
<1> QED BY <1>1, InitInv, SlotsInit, SoundInit, JobsInit,
           NextInv, SlotsNext, SoundNext, JobsNext, PTL DEF Spec, Inv

\* NoneVanishes: what a poller hands out it hands out once, and from then on
\* exactly one worker has it until it is run, whatever else happens.
THEOREM JobsDoNotVanish == Spec => []NoneVanishes
<1>1. ASSUME Typed, JobsInv PROVE NoneVanishes
  <2> SUFFICES ASSUME NEW p \in Pollers, NEW u \in Updates
               PROVE  /\ <<p, u>> \in InHand => Cardinality(Held(p, u)) = 1
                      /\ <<p, u>> \notin InHand => Held(p, u) = {}
    BY DEF NoneVanishes
  <2>1. ASSUME NEW k \in Held(p, u)
        PROVE  k \in Workers /\ k[1] = p /\ \E i \in DOMAIN Queue(k) : Queue(k)[i] = u
    BY DEF Held, ToSet, Queue
  <2>2. ASSUME NEW k \in Held(p, u) PROVE <<p, u>> \in InHand
    BY <1>1, <2>1 DEF JobsInv, QueuesInv
  <2>3. ASSUME <<p, u>> \in InHand PROVE Cardinality(Held(p, u)) = 1
    <3>1. PICK k \in Workers : k[1] = p /\ \E i \in DOMAIN Queue(k) : Queue(k)[i] = u
      BY <1>1, <2>3 DEF JobsInv, QueuesInv
    <3>2. PICK i \in DOMAIN Queue(k) : Queue(k)[i] = u
      BY <3>1
    <3>3. Queue(k) # <<>>
      BY <3>2
    <3>4. worker[k].at # "over"
      BY <1>1, <3>3 DEF JobsInv
    <3>5. k \in Held(p, u)
      BY <3>1, <3>2, <3>4 DEF Held, ToSet, Queue
    <3>6. ASSUME NEW j \in Held(p, u) PROVE j = k
      BY <1>1, <2>1, <3>1, <3>2 DEF JobsInv, QueuesInv
    <3>7. Held(p, u) = {k}
      BY <3>5, <3>6
    <3>8. Cardinality({k}) = 1
      BY FS_Singleton
    <3> QED BY <3>7, <3>8
  <2> QED BY <2>2, <2>3
<1> QED BY <1>1, InitInv, SlotsInit, SoundInit, JobsInit,
           NextInv, SlotsNext, SoundNext, JobsNext, PTL DEF Spec, Inv

-----------------------------------------------------------------------------
(* The registry and the row.                                               *)

\* How far a request has come, and what the registry and the row say then.
Step(h) ==
  LET named == registry # 0
      s == handler[h]
  IN  /\ s.at = "idle" => (named <=> row = "on")
      /\ s.at = "turn" => (named <=> row = "on") /\ row \notin {s.op, "gone"}
      /\ s.at \in {"write", "undo"} /\ s.op = "on" => named /\ row = "off"
      /\ s.at \in {"write", "undo"} /\ s.op = "off" => ~named /\ row = "on"
      /\ s.at \in {"write", "undo"} /\ s.op = "gone" => ~named /\ s.at = "write"

AllIdle == \A h \in Handlers : handler[h].at = "idle"

\* One request at a time is under way, as long as none has overlapped.
FollowInv ==
  /\ ~overlapped => \A g, h \in Handlers : handler[g].at # "idle" /\ handler[h].at # "idle" => g = h
  /\ ~overlapped /\ ~dark =>
       /\ AllIdle => (registry # 0 <=> row = "on")
       /\ \A h \in Handlers : handler[h].at # "idle" => Step(h)

\* A step of the one request that is under way.
LEMMA FollowHand ==
  ASSUME Typed, FollowInv, NEW h \in Handlers, NEW from, NEW to, Hand(h, from, to), from # "idle",
         UNCHANGED overlapped, dark \in BOOLEAN, dark => dark',
         ~overlapped /\ ~dark' /\ Step(h) => Step(h)'
  PROVE  FollowInv'
<1>1. /\ handler[h].at = from /\ handler'[h].at = to /\ handler'[h].op = handler[h].op
      /\ \A g \in Handlers \ {h} : handler'[g] = handler[g]
  BY DEF Hand, Typed, HandlerType
<1>2. ASSUME ~overlapped', NEW g \in Handlers, handler'[g].at # "idle" PROVE g = h
  BY <1>1, <1>2 DEF FollowInv
<1>3. ASSUME ~overlapped', ~dark' PROVE Step(h)'
  BY <1>1, <1>3 DEF FollowInv
<1>4. ASSUME ~overlapped', ~dark', AllIdle' PROVE registry' # 0 <=> row' = "on"
  BY <1>3, <1>4 DEF Step, AllIdle
<1> QED BY <1>2, <1>3, <1>4 DEF FollowInv

LEMMA FollowInit == Init => FollowInv
BY DEF Init, FollowInv, Free

LEMMA FollowNext == Typed /\ SlotsInv /\ FollowInv /\ [Next]_vars => FollowInv'
<1> SUFFICES ASSUME Typed, SlotsInv, FollowInv, [Next]_vars PROVE FollowInv'
  OBVIOUS
<1>0. /\ dark \in BOOLEAN /\ overlapped \in BOOLEAN /\ row \in {"on", "off", "gone"}
      /\ handler \in [Handlers -> HandlerType]
      /\ \A h \in Handlers : /\ handler[h].op \in {"on", "off", "gone"}
                             /\ handler[h].at \in {"idle", "turn", "write", "undo"}
      /\ 0 \notin Pollers
  <2>1. Cardinality(Pollers) \in Nat /\ Pollers = 1..Cardinality(Pollers)
    BY PollersAssumption, FS_CardinalityType
  <2>2. 0 \notin Pollers
    BY <2>1
  <2> QED BY <2>2 DEF Typed, HandlerType
<1>1. ASSUME UNCHANGED <<row, api>> PROVE FollowInv'
  BY <1>1 DEF FollowInv, Step, AllIdle, api
<1>2. CASE Crash
  <2>1. (registry' # 0 <=> row' = "on" /\ ~dark') /\ handler' = [h \in Handlers |-> Free]
    BY <1>2, CrashSlots DEF Crash
  <2> QED BY <2>1 DEF FollowInv, Free
<1>3. ASSUME NEW h \in Handlers, NEW op \in {"on", "off", "gone"}, Request(h, op) PROVE FollowInv'
  <2>1. /\ handler[h].at = "idle" /\ row \notin {op, "gone"}
        /\ UNCHANGED <<row, registry, dark>>
        /\ overlapped' = (overlapped \/ \E g \in Handlers \ {h} : handler[g].at # "idle")
        /\ handler'[h].at = (IF op = "gone" /\ row = "off" THEN "write" ELSE "turn")
        /\ handler'[h].op = op
        /\ \A g \in Handlers \ {h} : handler'[g] = handler[g]
    BY <1>0, <1>3 DEF Request
  <2>2. ASSUME ~overlapped', NEW g \in Handlers, handler'[g].at # "idle" PROVE g = h
    <3>1. ~(\E i \in Handlers \ {h} : handler[i].at # "idle")
      BY <2>1, <2>2
    <3> QED BY <2>1, <2>2, <3>1
  <2>3. ASSUME ~overlapped', ~dark' PROVE Step(h)'
    <3>1. AllIdle /\ ~overlapped /\ ~dark
      BY <1>0, <2>1, <2>3 DEF AllIdle
    <3>2. registry # 0 <=> row = "on"
      BY <3>1 DEF FollowInv
    <3>3. CASE op = "gone" /\ row = "off"
      BY <2>1, <3>2, <3>3 DEF Step
    <3>4. CASE ~(op = "gone" /\ row = "off")
      BY <2>1, <3>2, <3>4 DEF Step
    <3> QED BY <3>3, <3>4
  <2>4. ~AllIdle'
    BY <2>1 DEF AllIdle
  <2> QED BY <2>2, <2>3, <2>4 DEF FollowInv
<1>4. ASSUME NEW h \in Handlers, Handle(h) \/ WriteFails(h) PROVE FollowInv'
  <2>1. \A from, to : Hand(h, from, to) =>
          handler[h].at = from /\ handler'[h].at = to /\ handler'[h].op = handler[h].op
    BY <1>0 DEF Hand, HandlerType
  <2>2. Aborted => registry' = 0
    BY DEF Aborted
  <2>3. Spawned /\ h \in Owing => registry' # 0
    BY <1>0, OneIsLeft, SpawnedLife
  <2>a. CASE TurnOn(h)
    <3>0. UNCHANGED <<row, dark, overlapped>> /\ handler[h].op = "on"
      BY <2>a DEF TurnOn
    <3>1. CASE Hand(h, "turn", "write") /\ Spawned
      <4>1. h \in Owing
        BY <2>1, <3>1 DEF Owing
      <4>2. Step(h) => Step(h)'
        BY <1>0, <2>1, <2>3, <3>0, <3>1, <4>1 DEF Step
      <4> QED BY <1>0, <3>0, <3>1, <4>2, FollowHand
    <3>2. CASE Hand(h, "turn", "idle") /\ registry' = registry
      <4>1. Step(h) => Step(h)'
        BY <2>1, <3>0, <3>2 DEF Step
      <4> QED BY <1>0, <3>0, <3>2, <4>1, FollowHand
    <3> QED BY <2>a, <3>1, <3>2 DEF TurnOn
  <2>b. CASE TurnOff(h)
    <3>1. UNCHANGED <<row, dark, overlapped>> /\ handler[h].op # "on" /\ Hand(h, "turn", "write") /\ registry' = 0
      BY <2>2, <2>b DEF TurnOff
    <3>2. Step(h) => Step(h)'
      BY <1>0, <2>1, <3>1 DEF Step
    <3> QED BY <1>0, <3>1, <3>2, FollowHand
  <2>c. CASE WriteRow(h)
    <3>1. /\ UNCHANGED <<registry, dark, overlapped>> /\ Hand(h, "write", "idle")
          /\ row' = IF row = "gone" THEN row ELSE handler[h].op
      BY <2>c DEF WriteRow
    <3>2. Step(h) => Step(h)'
      BY <1>0, <2>1, <3>1 DEF Step
    <3> QED BY <1>0, <3>1, <3>2, FollowHand
  <2>d. CASE Undo(h)
    <3>0. UNCHANGED <<row, overlapped>> /\ Hand(h, "undo", "idle")
      BY <2>d DEF Undo
    <3>1. CASE handler[h].op = "on" /\ Aborted /\ dark' = dark
      <4>1. Step(h) => Step(h)'
        BY <2>1, <2>2, <3>0, <3>1 DEF Step
      <4> QED BY <1>0, <3>0, <3>1, <4>1, FollowHand
    <3>2. CASE handler[h].op = "off" /\ Spawned /\ dark' = dark
      <4>1. h \in Owing
        BY <2>1, <3>0, <3>2 DEF Owing
      <4>2. Step(h) => Step(h)'
        BY <2>1, <2>3, <3>0, <3>2, <4>1 DEF Step
      <4> QED BY <1>0, <3>0, <3>2, <4>2, FollowHand
    <3>3. CASE dark' = TRUE
      BY <1>0, <3>0, <3>3, FollowHand
    <3> QED BY <2>d, <3>1, <3>2, <3>3 DEF Undo
  <2>e. CASE UpdateFails(h)
    <3>1. /\ UNCHANGED <<row, registry, dark, overlapped>> /\ Hand(h, "write", "undo")
          /\ handler[h].op # "gone"
      BY <2>e DEF UpdateFails
    <3>2. Step(h) => Step(h)'
      BY <1>0, <2>1, <3>1 DEF Step
    <3> QED BY <1>0, <3>1, <3>2, FollowHand
  <2>f. CASE DeleteFails(h) \/ Dropped(h)
    BY <1>0, <2>f, FollowHand DEF DeleteFails, Dropped
  <2> QED BY <1>4, <2>a, <2>b, <2>c, <2>d, <2>e, <2>f DEF Handle, WriteFails
<1>5. ASSUME NEW p \in Pollers, Poll(p) \/ TryAgain(p) PROVE FollowInv'
  <2>1. UNCHANGED <<row, api>>
    BY <1>5, PollMoves
  <2> QED BY <1>1, <2>1
<1>6. ASSUME NEW k \in Workers, Work(k) \/ Idle(k) \/ TakeFails(k) PROVE FollowInv'
  <2>1. WorkStep
    BY <1>6, WorkEffect
  <2> QED BY <1>1, <2>1 DEF WorkStep
<1>7. CASE Send \/ UNCHANGED vars
  BY <1>1, <1>7 DEF Send, vars
<1> QED BY <1>2, <1>3, <1>4, <1>5, <1>6, <1>7 DEF Next

\* RegistryFollowsRow: as long as requests come one at a time and none was
\* dropped before its write was answered, a poller is recorded exactly when the
\* workflow is active, whichever call is answered with an error; unless that
\* was a delete, or the start of the poller that was to make up for it.
THEOREM RegistryIsRight == Spec => []RegistryFollowsRow
<1>1. FollowInv => RegistryFollowsRow
  BY DEF FollowInv, RegistryFollowsRow, AllIdle
<1> QED BY <1>1, InitInv, SlotsInit, FollowInit, NextInv, SlotsNext, FollowNext, PTL DEF Spec, Inv

===============================================================================
