----------------------------- MODULE MainsProofs -----------------------------
(***************************************************************************)
(* Proofs about the mains, for any number of them: that Election lets one  *)
(* lead at a time, for any cuts, crashes, shutdowns and times that fit     *)
(* together; that leadership then changes as Activation takes it to; and   *)
(* that Activation leaves timers to the leader, for any workflows,         *)
(* requests and changes of leadership.                                     *)
(***************************************************************************)
EXTENDS Election, Activation, TLAPS

(* The election: type correctness.                                          *)

\* What the mains, the key and the counters hold are values of their kinds.
THEOREM ElectionTypes == ElectionSpec => []ElectionTypeOK
<1> USE NoMainAssumption, TimesAssumption, DelayAssumption, ElectionBounds
<1>1. ElectionInit => ElectionTypeOK
  BY DEF ElectionInit, ElectionTypeOK
<1>2. ASSUME ElectionTypeOK, [ElectionNext]_electionVars PROVE ElectionTypeOK'
  <2> USE <1>2 DEF ElectionTypeOK, key, main
  <2>1. ASSUME NEW m \in Mains, Start(m) \/ StartCheck(m) PROVE ElectionTypeOK'
    BY <2>1 DEF Start, StartCheck
  <2>2. ASSUME NEW m \in Mains, Serve(m) PROVE ElectionTypeOK'
    BY <2>2 DEF Serve
  <2>3. ASSUME NEW m \in Mains, Answered(m) PROVE ElectionTypeOK'
    BY <2>3 DEF Answered, CallOver
  <2>4. ASSUME NEW m \in Mains, Failed(m) PROVE ElectionTypeOK'
    BY <2>4 DEF Failed, CallOver
  <2>5. ASSUME NEW m \in Mains, Crash(m) PROVE ElectionTypeOK'
    BY <2>5 DEF Crash, Gone
  <2>6. ASSUME NEW m \in Mains, Shutdown(m) PROVE ElectionTypeOK'
    BY <2>6 DEF Shutdown
  <2>7. ASSUME NEW m \in Mains, Exit(m) PROVE ElectionTypeOK'
    BY <2>7 DEF Exit, Gone
  <2>8. ASSUME NEW m \in Mains, Cut(m) \/ Heal(m) PROVE ElectionTypeOK'
    BY <2>8 DEF Cut, Heal
  <2>9. ASSUME Tick PROVE ElectionTypeOK'
    <3>1. keyLeft' \in 0..Ttl /\ owner' \in Mains \cup {NoMain}
      BY <2>9 DEF Tick
    <3>2. held' \in [Mains -> 0..Ttl]
      BY <2>9 DEF Tick
    <3>3. next' \in [Mains -> 0..Interval]
      BY <2>9 DEF Tick
    <3>4. \A m \in Mains : call[m] # "none" => age[m] + 1 \in 0..MaxDelay
      BY <2>9 DEF Tick, Due
    <3>5. age' \in [Mains -> 0..MaxDelay]
      BY <2>9, <3>4 DEF Tick
    <3> QED BY <2>9, <3>1, <3>2, <3>3, <3>5 DEF Tick
  <2>10. CASE UNCHANGED electionVars
    BY <2>10 DEF electionVars
  <2> QED BY <2>1, <2>2, <2>3, <2>4, <2>5, <2>6, <2>7, <2>8, <2>9, <2>10 DEF ElectionNext, MainNext
<1> QED BY <1>1, <1>2, PTL DEF ElectionSpec

-----------------------------------------------------------------------------
(* The election: the lock.                                                 *)

\* Calls are answered or fail at once, and among the checks that follow a
\* renewal, due at k intervals after it, one falls when the lease is over
\* and the key has not expired: with the defaults, at 9 of 8 and 10.
TimesFit ==
  /\ MaxDelay = 0
  /\ \E k \in Nat : Lease <= k * Interval /\ k * Interval < Ttl

\* The k of the last check before which a leader steps down.
LastCheck == CHOOSE k \in Nat : Lease <= k * Interval /\ k * Interval < Ttl

\* The key outlives what a leader counts, and its count is such that the
\* checks to come fall on multiples of the interval.
LeaderInv ==
  \A m \in Mains : Leads(m) =>
    /\ owner = m
    /\ keyLeft + held[m] >= Ttl
    /\ call[m] = "none" =>
         \E k \in 0..LastCheck : held[m] + next[m] = k * Interval
    /\ call[m] # "none" =>
         next[m] = Interval /\ \E k \in 0..LastCheck : held[m] = k * Interval

\* An answer that grants the lock is read before any time passes.
GrantInv == \A m \in Mains : call[m] = "yes" => owner = m /\ keyLeft = Ttl

\* Calls are under way in mains that run; only a main that has started, and
\* has not exited, has its gate open.
ProcInv ==
  \A m \in Mains :
    /\ call[m] # "none" => proc[m] \in {"starting", "up"}
    /\ call[m] # "none" /\ proc[m] = "up" => next[m] = Interval
    /\ gate[m] => proc[m] \in {"up", "leaving"}

Elected == ElectionTypeOK /\ LeaderInv /\ GrantInv /\ ProcInv

\* The last check before a leader steps down: the first to be failed when
\* the lease is over, and before the key expires.
LEMMA LastCheckFits ==
  ASSUME TimesFit
  PROVE  /\ LastCheck \in Nat \ {0}
         /\ Lease <= LastCheck * Interval /\ LastCheck * Interval < Ttl
<1>1. LastCheck \in Nat /\ Lease <= LastCheck * Interval /\ LastCheck * Interval < Ttl
  BY DEF TimesFit, LastCheck
<1>2. LastCheck # 0
  BY <1>1, TimesAssumption
<1> QED BY <1>1, <1>2

LEMMA Multiples ==
  ASSUME NEW j \in Nat, NEW k \in Nat, NEW i \in Nat \ {0}
  PROVE  /\ j * i \in Nat /\ (j + 1) * i = j * i + i
         /\ j * i < k * i => j + 1 <= k
         /\ j <= k => j * i <= k * i
<1>1. j * i \in Nat /\ (j + 1) * i = j * i + i
  OBVIOUS
<1>2. ASSUME j <= k PROVE j * i <= k * i
  <2>1. k - j \in Nat /\ k * i = j * i + (k - j) * i /\ (k - j) * i \in Nat
    BY <1>2
  <2> QED BY <2>1, <1>1
<1>3. ASSUME j * i < k * i, ~(j + 1 <= k) PROVE FALSE
  <2>1. j - k \in Nat /\ j * i = k * i + (j - k) * i /\ (j - k) * i \in Nat /\ k * i \in Nat
    BY <1>3
  <2> QED BY <2>1, <1>3
<1> QED BY <1>1, <1>2, <1>3

\* No main leads at first.
LEMMA InitElected == ElectionInit => Elected
BY NoMainAssumption, TimesAssumption, DelayAssumption, ElectionBounds
   DEF ElectionInit, Elected, ElectionTypeOK, LeaderInv, GrantInv, ProcInv, Leads

\* A step of one main leaves what is said of the others, when it leaves the
\* key to its owner.
LEMMA OthersKept ==
  ASSUME Elected, NEW m \in Mains,
         \A o \in Mains \ {m} :
           /\ gate'[o] = gate[o] /\ proc'[o] = proc[o] /\ held'[o] = held[o]
           /\ next'[o] = next[o] /\ call'[o] = call[o]
           /\ owner = o => owner' = owner /\ keyLeft' = keyLeft
  PROVE  \A o \in Mains \ {m} :
           /\ Leads(o)' =>
                /\ owner' = o
                /\ keyLeft' + held'[o] >= Ttl
                /\ call'[o] = "none" =>
                     \E k \in 0..LastCheck : held'[o] + next'[o] = k * Interval
                /\ call'[o] # "none" =>
                     /\ next'[o] = Interval
                     /\ \E k \in 0..LastCheck : held'[o] = k * Interval
           /\ call'[o] = "yes" => owner' = o /\ keyLeft' = Ttl
           /\ call'[o] # "none" => proc'[o] \in {"starting", "up"}
           /\ call'[o] # "none" /\ proc'[o] = "up" => next'[o] = Interval
           /\ gate'[o] => proc'[o] \in {"up", "leaving"}
<1> TAKE o \in Mains \ {m}
<1>1. /\ Leads(o) =>
           /\ owner = o
           /\ keyLeft + held[o] >= Ttl
           /\ call[o] = "none" =>
                \E k \in 0..LastCheck : held[o] + next[o] = k * Interval
           /\ call[o] # "none" =>
                /\ next[o] = Interval
                /\ \E k \in 0..LastCheck : held[o] = k * Interval
      /\ call[o] = "yes" => owner = o /\ keyLeft = Ttl
      /\ call[o] # "none" => proc[o] \in {"starting", "up"}
      /\ call[o] # "none" /\ proc[o] = "up" => next[o] = Interval
      /\ gate[o] => proc[o] \in {"up", "leaving"}
  BY DEF Elected, LeaderInv, GrantInv, ProcInv
<1> QED BY <1>1 DEF Leads

\* Each step of a main, of its connection or of time preserves the
\* invariant; at a tick the leader's next check is still ahead, hence falls
\* before the key expires.
LEMMA StepElected ==
  ASSUME TimesFit, Elected, ElectionTypeOK', [ElectionNext]_electionVars PROVE Elected'
<1> USE NoMainAssumption, TimesAssumption, DelayAssumption, ElectionBounds
<1>t. /\ owner \in Mains \cup {NoMain} /\ NoMain \notin Mains
      /\ proc \in [Mains -> {"down", "starting", "up", "leaving"}]
      /\ gate \in [Mains -> BOOLEAN] /\ held \in [Mains -> 0..Ttl]
      /\ next \in [Mains -> 0..Interval]
      /\ call \in [Mains -> {"none", "sent", "yes", "no"}]
      /\ age \in [Mains -> 0..MaxDelay] /\ keyLeft \in 0..Ttl
  BY DEF Elected, ElectionTypeOK
<1>l. /\ LastCheck \in Nat \ {0}
      /\ Lease <= LastCheck * Interval /\ LastCheck * Interval < Ttl
  BY LastCheckFits
<1>z. 0 * Interval = 0 /\ 1 * Interval = Interval /\ 0 \in 0..LastCheck /\ 1 \in 0..LastCheck
  BY <1>l
<1> DEFINE Mine(m) ==
      /\ gate[m] /\ proc[m] = "up" =>
           /\ owner = m
           /\ keyLeft + held[m] >= Ttl
           /\ call[m] = "none" =>
                \E k \in 0..LastCheck : held[m] + next[m] = k * Interval
           /\ call[m] # "none" =>
                /\ next[m] = Interval
                /\ \E k \in 0..LastCheck : held[m] = k * Interval
      /\ call[m] = "yes" => owner = m /\ keyLeft = Ttl
      /\ call[m] # "none" => proc[m] \in {"starting", "up"}
      /\ call[m] # "none" /\ proc[m] = "up" => next[m] = Interval
      /\ gate[m] => proc[m] \in {"up", "leaving"}
<1>i. \A m \in Mains : Mine(m)
  BY DEF Elected, LeaderInv, GrantInv, ProcInv, Leads
<1>q. ASSUME \A m \in Mains : Mine(m)' PROVE Elected'
  BY <1>q DEF Elected, LeaderInv, GrantInv, ProcInv, Leads
<1>o. ASSUME NEW m \in Mains, Mine(m)',
             \A o \in Mains \ {m} :
               /\ gate'[o] = gate[o] /\ proc'[o] = proc[o] /\ held'[o] = held[o]
               /\ next'[o] = next[o] /\ call'[o] = call[o]
               /\ owner = o => owner' = owner /\ keyLeft' = keyLeft
      PROVE  Elected'
  <2>1. \A o \in Mains \ {m} : Mine(o)'
    BY <1>o, OthersKept DEF Leads
  <2> QED BY <2>1, <1>o, <1>q
<1>1. ASSUME NEW m \in Mains, Start(m) PROVE Elected'
  <2>1. Mine(m)'
    BY <1>1, <1>i, <1>t DEF Start, key
  <2> QED BY <2>1, <1>1, <1>t, <1>o DEF Start, key
<1>2. ASSUME NEW m \in Mains, StartCheck(m) PROVE Elected'
  <2>1. Mine(m)'
    BY <1>2, <1>i, <1>t DEF StartCheck, key
  <2> QED BY <2>1, <1>2, <1>t, <1>o DEF StartCheck, key
<1>3. ASSUME NEW m \in Mains, Serve(m) PROVE Elected'
  <2>1. Mine(m)'
    BY <1>3, <1>i, <1>t DEF Serve
  <2> QED BY <2>1, <1>3, <1>t, <1>o DEF Serve
<1>4. ASSUME NEW m \in Mains, Answered(m) PROVE Elected'
  <2>1. next'[m] = Interval /\ call'[m] = "none" /\ proc'[m] = "up"
    BY <1>4, <1>i, <1>t DEF Answered, CallOver
  <2>2. call[m] = "yes" => owner = m /\ keyLeft = Ttl /\ held'[m] = 0
    BY <1>4, <1>i, <1>t DEF Answered
  <2>3. gate'[m] = (call[m] = "yes") /\ owner' = owner /\ keyLeft' = keyLeft
    BY <1>4, <1>t DEF Answered, key
  <2>4. call[m] = "yes" => held'[m] + next'[m] = 1 * Interval
    BY <2>1, <2>2, <1>z
  <2>5. Mine(m)'
    <3>1. gate'[m] => \E k \in 0..LastCheck : held'[m] + next'[m] = k * Interval
      BY <2>3, <2>4, <1>z
    <3>2. gate'[m] => owner' = m /\ keyLeft' = Ttl /\ held'[m] = 0
      BY <2>2, <2>3
    <3>3. Ttl + 0 >= Ttl
      OBVIOUS
    <3> QED BY <3>1, <3>2, <3>3, <2>1
  <2> QED BY <2>5, <1>4, <1>t, <1>o DEF Answered, CallOver, key
<1>5. ASSUME NEW m \in Mains, Failed(m) PROVE Elected'
  <2>1. next'[m] = Interval /\ call'[m] = "none" /\ proc'[m] = "up"
    BY <1>5, <1>i, <1>t DEF Failed, CallOver
  <2>2. gate'[m] => gate[m] /\ proc[m] = "up" /\ held[m] < Lease /\ held'[m] = held[m]
    BY <1>5, <1>i, <1>t DEF Failed
  <2>3. owner' = owner /\ keyLeft' = keyLeft
    BY <1>5 DEF Failed, key
  <2>4. ASSUME gate'[m] PROVE \E k \in 0..LastCheck : held'[m] + next'[m] = k * Interval
    <3>1. PICK j \in 0..LastCheck : held[m] = j * Interval
      BY <1>i, <1>5, <2>2, <2>4 DEF Failed
    <3>2. j * Interval < LastCheck * Interval
      BY <3>1, <2>2, <2>4, <1>l, <1>t
    <3>3. j + 1 \in 0..LastCheck /\ (j + 1) * Interval = j * Interval + Interval
      BY <3>2, <1>l, Multiples
    <3> QED BY <3>1, <3>3, <2>1, <2>2, <2>4
  <2>5. Mine(m)'
    <3>1. gate'[m] => owner = m /\ keyLeft + held[m] >= Ttl
      BY <2>2, <1>i
    <3> QED BY <3>1, <2>1, <2>2, <2>3, <2>4
  <2> QED BY <2>5, <1>5, <1>t, <1>o DEF Failed, CallOver, key
<1>6. ASSUME NEW m \in Mains, Crash(m) PROVE Elected'
  <2>1. Mine(m)'
    BY <1>6, <1>t DEF Crash, Gone
  <2> QED BY <2>1, <1>6, <1>t, <1>o DEF Crash, Gone, key
<1>7. ASSUME NEW m \in Mains, Shutdown(m) PROVE Elected'
  <2>1. Mine(m)'
    BY <1>7, <1>t DEF Shutdown
  <2> QED BY <2>1, <1>7, <1>t, <1>o DEF Shutdown, key
<1>8. ASSUME NEW m \in Mains, Exit(m) PROVE Elected'
  <2>1. Mine(m)'
    BY <1>8, <1>t DEF Exit, Gone
  <2> QED BY <2>1, <1>8, <1>t, <1>o DEF Exit, Gone, key
<1>9. ASSUME NEW m \in Mains, Cut(m) \/ Heal(m) PROVE Elected'
  <2>1. \A o \in Mains : Mine(o)'
    BY <1>9, <1>i DEF Cut, Heal, key, main
  <2> QED BY <2>1, <1>q
<1>10. ASSUME Tick PROVE Elected'
  <2>1. \A m \in Mains : call[m] = "none" /\ call'[m] = "none"
    BY <1>10, <1>t DEF Tick, Due, TimesFit
  <2>2. ASSUME NEW m \in Mains, gate'[m], proc'[m] = "up" PROVE Mine(m)'
    <3>1. gate[m] /\ proc[m] = "up" /\ next[m] # 0
      BY <1>10, <2>1, <2>2 DEF Tick, Due
    <3>t. held[m] \in Nat /\ next[m] \in Nat /\ Ttl \in Nat /\ keyLeft \in Nat
      BY <1>t
    <3>2. PICK k \in 0..LastCheck : held[m] + next[m] = k * Interval
      BY <3>1, <2>1, <1>i
    <3>3. k * Interval <= LastCheck * Interval
      BY <1>l, Multiples
    <3>k. k * Interval \in Nat /\ LastCheck * Interval \in Nat
      BY <1>l, Multiples
    <3>4. held[m] < Ttl /\ held[m] + 1 < Ttl
      <4>1. ASSUME NEW a \in Nat, NEW b \in Nat, NEW x \in Nat, NEW y \in Nat, NEW T \in Nat,
                   a + b = x, b # 0, x <= y, y < T
            PROVE  a < T /\ a + 1 < T
        BY <4>1
      <4> QED BY ONLY <4>1, <3>1, <3>2, <3>3, <3>k, <3>t, <1>l
    <3>5. held'[m] = held[m] + 1 /\ next'[m] = next[m] - 1
      BY <1>10, <3>1, <3>4, <1>t DEF Tick
    <3>e. owner = m /\ keyLeft + held[m] >= Ttl
      BY <3>1, <1>i
    <3>6. keyLeft > 1
      BY <3>e, <3>4, <3>t
    <3>7. owner' = m /\ keyLeft' = keyLeft - 1
      BY <1>10, <3>e, <3>6, <3>t DEF Tick
    <3>8. keyLeft' + held'[m] >= Ttl
      BY <3>5, <3>7, <3>e, <3>t
    <3>9. held'[m] + next'[m] = k * Interval
      BY ONLY <3>2, <3>5, <3>t, <3>k
    <3> QED BY <3>7, <3>8, <3>9, <2>1, <2>2
  <2>3. \A m \in Mains : ~(gate'[m] /\ proc'[m] = "up") => Mine(m)'
    BY <1>10, <2>1, <1>i DEF Tick
  <2> QED BY <2>2, <2>3, <1>q
<1>11. CASE UNCHANGED electionVars
  <2>1. \A m \in Mains : Mine(m)'
    BY <1>11, <1>i DEF electionVars, key, main
  <2> QED BY <2>1, <1>q
<1> QED BY <1>1, <1>2, <1>3, <1>4, <1>5, <1>6, <1>7, <1>8, <1>9, <1>10, <1>11 DEF ElectionNext, MainNext

\* "So two mains can never both believe they hold the lock" (election.rs
\* 61-63): whatever processes die and calls fail, a main that leads holds
\* the unexpired key, provided that no call hangs and the times fit.
THEOREM LeaderHolds == ASSUME TimesFit PROVE ElectionSpec => []LeaderHoldsLock
<1>1. ElectionInit => Elected
  BY InitElected
<1>2. Elected /\ ElectionTypeOK' /\ [ElectionNext]_electionVars => Elected'
  BY StepElected
<1>3. Elected => LeaderHoldsLock
  BY DEF Elected, LeaderInv, LeaderHoldsLock
<1> QED BY <1>1, <1>2, <1>3, ElectionTypes, PTL DEF ElectionSpec

-----------------------------------------------------------------------------
(* What Activation takes leadership to be.                                 *)

\* Who leads, as one function: the leader of Activation.
Leading == [m \in Mains |-> Leads(m)]

\* The guard and the effect on leader of Turn, the only action of
\* Activation that changes it: one main takes over while none leads, or one
\* steps down.
Turns ==
  \E m \in Mains, lead \in BOOLEAN :
    /\ Leading[m] # lead
    /\ lead => \A n \in Mains : ~Leading[n]
    /\ Leading' = [Leading EXCEPT ![m] = lead]

\* A step of one main that leads afterwards only if the lock was already its
\* own is a turn, or changes nothing.
LEMMA OneTurns ==
  ASSUME Elected, Elected', NEW m \in Mains,
         \A o \in Mains \ {m} : gate'[o] = gate[o] /\ proc'[o] = proc[o],
         ~Leads(m) /\ Leads(m)' => owner' = owner
  PROVE  [Turns]_Leading
<1>1. Leading \in [Mains -> BOOLEAN] /\ Leading' \in [Mains -> BOOLEAN]
  BY DEF Leading, Leads, Elected, ElectionTypeOK
<1>2. \A o \in Mains \ {m} : Leading'[o] = Leading[o]
  BY DEF Leading, Leads
<1>3. \A o \in Mains : /\ Leading[o] => owner = o
                       /\ Leading'[o] => owner' = o
  BY DEF Leading, Elected, LeaderInv
<1>4. CASE Leading'[m] = Leading[m]
  <2>1. \A o \in Mains : Leading'[o] = Leading[o]
    BY <1>2, <1>4
  <2>2. Leading' = Leading
    BY <1>1, <2>1
  <2> QED BY <2>2
<1>5. CASE Leading'[m] # Leading[m]
  <2>1. Leading' = [Leading EXCEPT ![m] = Leading'[m]]
    <3>1. \A o \in Mains : Leading'[o] = [Leading EXCEPT ![m] = Leading'[m]][o]
      BY <1>1, <1>2
    <3> QED BY <1>1, <3>1
  <2>2. ASSUME Leading'[m] PROVE \A n \in Mains : ~Leading[n]
    <3>1. ~Leads(m) /\ Leads(m)'
      BY <1>5, <2>2, <1>1 DEF Leading
    <3>2. owner = m
      BY <3>1, <2>2, <1>3
    <3> QED BY <3>1, <3>2, <1>3 DEF Leading
  <2>3. Leading'[m] \in BOOLEAN
    BY <1>1
  <2> QED BY <2>1, <2>2, <2>3, <1>5 DEF Turns
<1> QED BY <1>4, <1>5

\* Activation takes leadership from outside, by Turn. That is what the
\* election does with it (election.rs, LeaderGate): whatever processes die
\* and calls fail, each change is one main that takes over when no main
\* leads, or one that stops leading, and never a handover in one step.
THEOREM LeadersTakeTurns ==
  ASSUME TimesFit PROVE ElectionSpec => [][Turns]_Leading
<1>1. ASSUME Elected, Elected', [ElectionNext]_electionVars PROVE [Turns]_Leading
  <2>t. /\ proc \in [Mains -> {"down", "starting", "up", "leaving"}]
        /\ gate \in [Mains -> BOOLEAN] /\ proc' \in [Mains -> {"down", "starting", "up", "leaving"}]
        /\ gate' \in [Mains -> BOOLEAN]
        /\ \A m \in Mains : gate[m] => proc[m] \in {"up", "leaving"}
    BY <1>1 DEF Elected, ElectionTypeOK, ProcInv
  <2>1. ASSUME NEW m \in Mains, MainNext(m) \/ Crash(m) \/ Shutdown(m)
        PROVE  [Turns]_Leading
    <3>1. \A o \in Mains \ {m} : gate'[o] = gate[o] /\ proc'[o] = proc[o]
      BY <2>1, <2>t DEF MainNext, Start, StartCheck, Serve, Answered, Failed,
         CallOver, Exit, Crash, Shutdown, Gone
    <3>2. owner' # owner => ~(~Leads(m) /\ Leads(m)')
      BY <2>1, <2>t DEF MainNext, Start, StartCheck, Serve, Answered, Failed,
         CallOver, Exit, Crash, Shutdown, Gone, Leads, key
    <3> QED BY <1>1, <3>1, <3>2, OneTurns
  <2>2. CASE gate' = gate /\ proc' = proc
    BY <2>2 DEF Leading, Leads
  <2>3. ASSUME NEW m \in Mains, Cut(m) \/ Heal(m) PROVE gate' = gate /\ proc' = proc
    BY <2>3 DEF Cut, Heal, main
  <2>4. Tick \/ UNCHANGED electionVars => gate' = gate /\ proc' = proc
    BY DEF Tick, electionVars, main
  <2> QED BY <1>1, <2>1, <2>2, <2>3, <2>4 DEF ElectionNext
<1>2. ElectionInit => Elected
  BY InitElected
<1>3. Elected /\ ElectionTypeOK' /\ [ElectionNext]_electionVars => Elected'
  BY StepElected
<1> QED BY <1>1, <1>2, <1>3, ElectionTypes, PTL DEF ElectionSpec

-----------------------------------------------------------------------------
(* Registrations: type correctness.                                        *)

\* Where a thread has a registration in hand.
Working == Pc \ {"idle", "boot", "next", "stale"}

\* The registration in hand names its main and its workflow, and is of a
\* version that exists, unless it only unregisters.
JobInv == \A t \in Threads :
  /\ pc[t] \in Working => job[t].main \in Mains /\ job[t].flow \in Flows
  /\ pc[t] \in {"check", "hook", "cache", "gate", "start"} => ~job[t].off
  /\ pc[t] \in {"unhook", "uncache", "stop"} /\ ~job[t].off => job[t].version # 0
  /\ job[t].active => job[t].version # 0

\* The loop of m is among the active rows, or registers one of them.
Looking(m) ==
  \/ pc[m] \in {"next", "check", "hook", "cache", "gate", "start"}
  \/ pc[m] \in {"unhook", "uncache", "stop"} /\ ~job[m].off

\* A row that is active has not been deleted: so a loop never registers the
\* version 0 of a row it read.
RowInv ==
  /\ \A w \in Flows : row[w].active => row[w].version # 0
  /\ \A m \in Mains, w \in Flows : rows[m][w].active => rows[m][w].version # 0
  /\ \A m \in Mains : Looking(m) => \A w \in todo[m] : rows[m][w].active

\* The inductive invariant for type correctness: a registration keeps a
\* version other than 0 because of the rows it is read from.
IInv == TypeOK /\ JobInv /\ RowInv

USE ConflictsAssumption, NamesAssumption, BoundsAssumption, NoMainAssumption

\* Nothing is under way at first.
LEMMA InitIInv == Init => IInv
<1> SUFFICES ASSUME Init PROVE IInv
  OBVIOUS
<1>1. 0 \in Versions /\ 1 \in Versions /\ MaxRequests \in Nat /\ MaxTurns \in Nat
  BY DEF Versions
<1>2. NoJob \in Job
  BY <1>1 DEF NoJob, Job
<1>3. NoRows \in [Flows -> Row] /\ row \in [Flows -> Row]
  BY <1>1 DEF Init, NoRows, Row
<1>4. pc \in [Threads -> Pc] /\ \A t \in Threads : pc[t] \in {"boot", "idle"}
  BY DEF Init, Pc
<1>5. TypeOK
  BY <1>1, <1>2, <1>3, <1>4 DEF Init, TypeOK
<1>6. JobInv
  BY <1>4 DEF Init, JobInv, NoJob, Working
<1>7. RowInv
  BY <1>4 DEF Init, RowInv, Looking, NoRows
<1> QED BY <1>5, <1>6, <1>7 DEF IInv

\* What proofs about steps use of the type invariant.
LEMMA Types ==
  ASSUME IInv
  PROVE  /\ row \in [Flows -> Row]
         /\ hooks \in [Mains -> [Flows -> SUBSET Versions]]
         /\ cached \in [Mains -> [Flows -> Versions]]
         /\ timers \in [Mains -> SUBSET Flows]
         /\ leader \in [Mains -> BOOLEAN] /\ changed \in [Mains -> BOOLEAN]
         /\ pc \in [Threads -> Pc] /\ job \in [Threads -> Job]
         /\ todo \in [Mains -> SUBSET Flows] /\ rows \in [Mains -> [Flows -> Row]]
         /\ tpc \in [Mains -> {"boot", "idle", "start", "stop"}] /\ tset \in [Mains -> SUBSET Flows]
         /\ asked \in 0..MaxRequests /\ turns \in 0..MaxTurns
         /\ disturbed \in [Mains -> SUBSET Flows]
         /\ MaxRequests \in Nat /\ MaxTurns \in Nat
         /\ Mains \subseteq Threads /\ Requests \subseteq Threads /\ Mains \cap Requests = {}
BY DEF IInv, TypeOK, Threads

\* The part of the type invariant about what threads do.
JobsOK ==
  /\ pc \in [Threads -> Pc] /\ job \in [Threads -> Job]
  /\ \A t \in Threads : pc[t] \in {"check", "hook", "cache", "gate", "start"} => job[t].version # 0

\* What the invariant asks of one thread, at p with j in hand.
Fine(p, j) ==
  /\ p \in Pc /\ j \in Job
  /\ p \in {"check", "hook", "cache", "gate", "start"} => j.version # 0
  /\ p \in Working => j.main \in Mains /\ j.flow \in Flows
  /\ p \in {"check", "hook", "cache", "gate", "start"} => ~j.off
  /\ p \in {"unhook", "uncache", "stop"} /\ ~j.off => j.version # 0
  /\ j.active => j.version # 0

LEMMA FineOf == ASSUME IInv, NEW t \in Threads PROVE Fine(pc[t], job[t])
BY DEF IInv, TypeOK, JobInv, Fine

\* A step of one thread to a place that is fine for it keeps all threads
\* fine.
LEMMA JobsMove ==
  ASSUME IInv, NEW t \in Threads, NEW p, NEW j, Fine(p, j),
         pc' = [pc EXCEPT ![t] = p], job' = [job EXCEPT ![t] = j] \/ (job' = job /\ j = job[t])
  PROVE  JobsOK' /\ JobInv'
<1>1. pc \in [Threads -> Pc] /\ job \in [Threads -> Job]
  BY DEF IInv, TypeOK
<1>2. job' = [job EXCEPT ![t] = j]
  BY <1>1
<1>3. \A u \in Threads : pc'[u] = (IF u = t THEN p ELSE pc[u]) /\ job'[u] = (IF u = t THEN j ELSE job[u])
  BY <1>1, <1>2
<1>4. \A u \in Threads : Fine(pc'[u], job'[u])
  BY <1>3, FineOf
<1>5. pc' \in [Threads -> Pc] /\ job' \in [Threads -> Job]
  BY <1>1, <1>2 DEF Fine
<1>6. JobsOK'
  BY <1>4, <1>5 DEF Fine, JobsOK
<1>7. JobInv'
  BY <1>4 DEF Fine, JobInv
<1> QED BY <1>6, <1>7

\* The rest of the type invariant.
RestOK ==
  /\ row \in [Flows -> Row]
  /\ hooks \in [Mains -> [Flows -> SUBSET Versions]]
  /\ cached \in [Mains -> [Flows -> Versions]]
  /\ timers \in [Mains -> SUBSET Flows]
  /\ leader \in [Mains -> BOOLEAN] /\ changed \in [Mains -> BOOLEAN]
  /\ todo \in [Mains -> SUBSET Flows] /\ rows \in [Mains -> [Flows -> Row]]
  /\ tpc \in [Mains -> {"boot", "idle", "start", "stop"}] /\ tset \in [Mains -> SUBSET Flows]
  /\ asked \in 0..MaxRequests /\ turns \in 0..MaxTurns
  /\ disturbed \in [Mains -> SUBSET Flows]

LEMMA AllOK == JobsOK' /\ RestOK' /\ JobInv' /\ RowInv' => IInv'
BY DEF IInv, TypeOK, JobsOK, RestOK

\* A step of thread t that leaves the rows alone: it goes on looking only
\* if it was looking.
LEMMA LooksOn ==
  ASSUME IInv, NEW t \in Threads, NEW p, NEW j,
         pc' = [pc EXCEPT ![t] = p], job' = [job EXCEPT ![t] = j] \/ (job' = job /\ j = job[t]),
         row' = row, rows' = rows, todo' = todo,
         t \in Mains /\ (p \in {"next", "check", "hook", "cache", "gate", "start"} \/ (p \in {"unhook", "uncache", "stop"} /\ ~j.off))
           => Looking(t)
  PROVE  RowInv'
<1>1. pc \in [Threads -> Pc] /\ job \in [Threads -> Job]
  BY DEF IInv, TypeOK
<1>2. job' = [job EXCEPT ![t] = j]
  BY <1>1
<1>3. \A u \in Threads : pc'[u] = (IF u = t THEN p ELSE pc[u]) /\ job'[u] = (IF u = t THEN j ELSE job[u])
  BY <1>1, <1>2
<1>4. \A m \in Mains : Looking(m)' => Looking(m)
  BY <1>3 DEF Looking, Threads
<1> QED BY <1>4 DEF IInv, RowInv

\* register and unregister, step by step.
LEMMA RegisteringIInv ==
  ASSUME IInv, NEW t \in Threads, Registering(t) PROVE IInv'
<1>t. /\ row \in [Flows -> Row]
      /\ hooks \in [Mains -> [Flows -> SUBSET Versions]]
      /\ cached \in [Mains -> [Flows -> Versions]]
      /\ timers \in [Mains -> SUBSET Flows]
      /\ pc \in [Threads -> Pc] /\ job \in [Threads -> Job]
      /\ disturbed \in [Mains -> SUBSET Flows]
  BY Types
<1>f. Fine(pc[t], job[t])
  BY FineOf
<1>n. RestOK
  BY DEF IInv, TypeOK, RestOK
<1>o. After(t) \in {"save", "stale", "next"} /\ (After(t) = "next" => t \in Mains /\ ~job[t].off)
      /\ (After(t) = "save" => t \in Requests)
  BY DEF After, Threads
<1>d. t \in Requests => t \notin Mains
  BY Types
<1>j. NoJob \in Job /\ ~NoJob.active /\ NoJob.version = 0
  BY Types DEF NoJob, Job, Versions
<1>1. CASE Check(t)
  <2>1. pc[t] = "check" /\ job[t].version # 0 /\ job[t].main \in Mains /\ job[t].flow \in Flows /\ ~job[t].off
    BY <1>1, <1>f DEF Check, Go, Fine, Working, Pc
  <2>2. RestOK'
    BY <1>1, <1>n DEF Check, RestOK, loops, task
  <2>3. CASE ~InConflict(job[t].main, job[t].flow) /\ Go(t, "check", "unhook") /\ UNCHANGED job
    <3>1. Fine("unhook", job[t])
      BY <1>f, <2>1 DEF Fine, Pc, Working
    <3>2. JobsOK' /\ JobInv'
      BY <3>1, <2>3, JobsMove DEF Go
    <3>3. RowInv'
      BY <1>1, <2>1, <2>3, LooksOn DEF Go, Looking, Check, loops
    <3> QED BY <2>2, <3>2, <3>3, AllOK
  <2>4. CASE GivesUp(t) /\ job' = [job EXCEPT ![t] = NoJob]
    <3>1. Fine(IF t \in Requests THEN "idle" ELSE "next", NoJob)
      BY <1>j DEF Fine, Pc, Working
    <3>2. JobsOK' /\ JobInv'
      BY <3>1, <2>4, JobsMove DEF GivesUp
    <3>3. RowInv'
      BY <1>1, <2>1, <2>4, <1>d, LooksOn DEF GivesUp, Looking, Check, loops
    <3> QED BY <2>2, <3>2, <3>3, AllOK
  <2> QED BY <1>1, <2>3, <2>4 DEF Check
<1>2. CASE Unhook(t)
  <2>1. pc[t] = "unhook" /\ job[t].main \in Mains /\ job[t].flow \in Flows
    BY <1>2, <1>f DEF Unhook, Go, Fine, Working, Pc
  <2>2. RestOK'
    <3>1. hooks' \in [Mains -> [Flows -> SUBSET Versions]]
      BY <1>2, <1>t DEF Unhook
    <3>2. disturbed' \in [Mains -> SUBSET Flows]
      BY <1>2, <1>t, <2>1 DEF Unhook
    <3> QED BY <1>2, <1>n, <3>1, <3>2 DEF Unhook, RestOK, loops, task
  <2>3. Fine("uncache", job[t])
    BY <1>f, <2>1 DEF Fine, Pc, Working
  <2>4. JobsOK' /\ JobInv'
    BY <2>3, <1>2, JobsMove DEF Unhook, Go
  <2>5. RowInv'
    BY <1>2, <2>1, LooksOn DEF Unhook, Go, Looking, loops
  <2> QED BY <2>2, <2>4, <2>5, AllOK
<1>7. CASE Uncache(t)
  <2>1. pc[t] = "uncache" /\ job[t].main \in Mains /\ job[t].flow \in Flows
    BY <1>7, <1>f DEF Uncache, Go, Fine, Working, Pc
  <2>2. RestOK'
    <3>1. 0 \in Versions
      BY Types DEF Versions
    <3>2. cached' \in [Mains -> [Flows -> Versions]]
      BY <1>7, <1>t, <3>1 DEF Uncache
    <3> QED BY <1>7, <1>n, <3>2 DEF Uncache, RestOK, loops, task
  <2>3. Fine("stop", job[t])
    BY <1>f, <2>1 DEF Fine, Pc, Working
  <2>4. JobsOK' /\ JobInv'
    BY <2>3, <1>7, JobsMove DEF Uncache, Go
  <2>5. RowInv'
    BY <1>7, <2>1, LooksOn DEF Uncache, Go, Looking, loops
  <2> QED BY <2>2, <2>4, <2>5, AllOK
<1>3. CASE Stop(t)
  <2>1. pc[t] = "stop" /\ job[t].main \in Mains /\ job[t].flow \in Flows /\ (~job[t].off => job[t].version # 0)
    BY <1>3, <1>f DEF Stop, Go, Fine, Working, Pc
  <2>2. RestOK'
    <3>1. timers' \in [Mains -> SUBSET Flows]
      BY <1>3, <1>t, <2>1 DEF Stop
    <3> QED BY <1>3, <1>n, <3>1 DEF Stop, RestOK, loops, task
  <2>3. Fine(IF job[t].off THEN After(t) ELSE "hook", job[t])
    BY <1>f, <2>1, <1>o DEF Fine, Pc, Working
  <2>4. JobsOK' /\ JobInv'
    BY <2>3, <1>3, JobsMove DEF Stop, Go
  <2>5. RowInv'
    BY <1>3, <2>1, <1>o, LooksOn DEF Stop, Go, Looking, loops
  <2> QED BY <2>2, <2>4, <2>5, AllOK
<1>4. CASE Hook(t)
  <2>1. pc[t] = "hook" /\ job[t].main \in Mains /\ job[t].flow \in Flows /\ job[t].version # 0 /\ ~job[t].off
    BY <1>4, <1>f DEF Hook, Go, Fine, Working, Pc
  <2>2. RestOK'
    <3>1. job[t].version \in Versions
      BY <1>t DEF Job
    <3>2. hooks' \in [Mains -> [Flows -> SUBSET Versions]]
      BY <1>4, <1>t, <2>1, <3>1 DEF Hook
    <3> QED BY <1>4, <1>n, <3>2 DEF Hook, RestOK, loops, task
  <2>3. Fine("cache", job[t])
    BY <1>f, <2>1 DEF Fine, Pc, Working
  <2>4. JobsOK' /\ JobInv'
    BY <2>3, <1>4, JobsMove DEF Hook, Go
  <2>5. RowInv'
    BY <1>4, <2>1, LooksOn DEF Hook, Go, Looking, loops
  <2> QED BY <2>2, <2>4, <2>5, AllOK
<1>8. CASE Cache(t)
  <2>1. pc[t] = "cache" /\ job[t].main \in Mains /\ job[t].flow \in Flows /\ job[t].version # 0 /\ ~job[t].off
    BY <1>8, <1>f DEF Cache, Go, Fine, Working, Pc
  <2>2. RestOK'
    <3>1. cached' \in [Mains -> [Flows -> Versions]]
      BY <1>8, <1>t DEF Cache, Job
    <3> QED BY <1>8, <1>n, <3>1 DEF Cache, RestOK, loops, task
  <2>3. Fine("gate", job[t])
    BY <1>f, <2>1 DEF Fine, Pc, Working
  <2>4. JobsOK' /\ JobInv'
    BY <2>3, <1>8, JobsMove DEF Cache, Go
  <2>5. RowInv'
    BY <1>8, <2>1, LooksOn DEF Cache, Go, Looking, loops
  <2> QED BY <2>2, <2>4, <2>5, AllOK
<1>5. CASE ReadGate(t)
  <2>1. pc[t] = "gate" /\ job[t].main \in Mains /\ job[t].flow \in Flows /\ job[t].version # 0 /\ ~job[t].off
    BY <1>5, <1>f DEF ReadGate, Go, Fine, Working, Pc
  <2>2. RestOK'
    BY <1>5, <1>n DEF ReadGate, RestOK, loops, task
  <2>3. Fine(IF leader[job[t].main] THEN "start" ELSE After(t), job[t])
    BY <1>f, <2>1, <1>o DEF Fine, Pc, Working
  <2>4. JobsOK' /\ JobInv'
    BY <2>3, <1>5, JobsMove DEF ReadGate, Go
  <2>5. RowInv'
    BY <1>5, <2>1, <1>o, LooksOn DEF ReadGate, Go, Looking, loops
  <2> QED BY <2>2, <2>4, <2>5, AllOK
<1>6. CASE StartTimers(t)
  <2>1. pc[t] = "start" /\ job[t].main \in Mains /\ job[t].flow \in Flows /\ job[t].version # 0 /\ ~job[t].off
    BY <1>6, <1>f DEF StartTimers, Go, Fine, Working, Pc
  <2>2. RestOK'
    <3>1. timers' \in [Mains -> SUBSET Flows]
      BY <1>6, <1>t, <2>1 DEF StartTimers
    <3>2. disturbed' \in [Mains -> SUBSET Flows]
      BY <1>6, <1>t, <2>1 DEF StartTimers
    <3> QED BY <1>6, <1>n, <3>1, <3>2 DEF StartTimers, RestOK, loops, task
  <2>3. Fine(After(t), job[t])
    BY <1>f, <2>1, <1>o DEF Fine, Pc, Working
  <2>4. JobsOK' /\ JobInv'
    BY <2>3, <1>6, JobsMove DEF StartTimers, Go
  <2>5. RowInv'
    BY <1>6, <2>1, <1>o, LooksOn DEF StartTimers, Go, Looking, loops
  <2> QED BY <2>2, <2>4, <2>5, AllOK
<1> QED BY <1>1, <1>2, <1>3, <1>4, <1>5, <1>6, <1>7, <1>8 DEF Registering

\* A registration or a save that is refused, or a request that is dropped.
LEMMA RefusedIInv ==
  ASSUME IInv, NEW t \in Threads, Refused(t) PROVE IInv'
<1>1. NoJob \in Job /\ ~NoJob.active /\ asked \in 0..MaxRequests /\ MaxRequests \in Nat
  BY Types DEF NoJob, Job, Versions
<1>2. Fine(IF t \in Requests THEN "idle" ELSE "next", NoJob)
  BY <1>1 DEF Fine, Pc, Working
<1>3. JobsOK' /\ JobInv'
  BY <1>2, JobsMove DEF Refused, GivesUp
<1>4. RowInv'
  <2>1. t \notin Requests => Looking(t)
    BY DEF Refused, Looking
  <2>2. t \in Requests => t \notin Mains
    BY Types
  <2> QED BY <2>1, <2>2, LooksOn DEF Refused, GivesUp, loops
<1>5. RestOK'
  <2>1. asked' \in 0..MaxRequests
    BY <1>1 DEF Refused
  <2> QED BY <2>1 DEF Refused, RestOK, loops, task, IInv, TypeOK
<1> QED BY <1>3, <1>4, <1>5, AllOK

\* A request whose registration is of the row it found.
LEMMA AskIInv ==
  ASSUME IInv, NEW r \in Requests, NEW m \in Mains, NEW w \in Flows, NEW j, NEW to,
         Ask(r, m, w, j, to), to \in {"check", "unhook", "save"},
         [j EXCEPT !.main = m, !.flow = w] \in Job, j.active => j.version # 0,
         to = "check" => j.version # 0 /\ ~j.off, to = "unhook" /\ ~j.off => j.version # 0,
         j \in Job
  PROVE  IInv'
<1> DEFINE k == [j EXCEPT !.main = m, !.flow = w]
<1>1. k.main = m /\ k.flow = w /\ k.version = j.version /\ k.off = j.off /\ k.active = j.active
  BY DEF Job
<1>2. Fine(to, k)
  BY <1>1 DEF Fine, Pc, Working
<1>3. r \in Threads /\ r \notin Mains
  BY Types
<1>4. pc' = [pc EXCEPT ![r] = to] /\ job' = [job EXCEPT ![r] = k]
  BY DEF Ask, Go
<1> HIDE DEF k
<1>5. JobsOK' /\ JobInv'
  BY <1>2, <1>3, <1>4, JobsMove
<1>6. RowInv'
  BY <1>3, <1>4, LooksOn DEF Ask, loops
<1>7. RestOK'
  <2>1. RestOK
    BY DEF IInv, TypeOK, RestOK
  <2>2. asked' \in 0..MaxRequests
    BY Types DEF Ask, Weight
  <2> QED BY <2>1, <2>2 DEF Ask, RestOK, loops, task
<1> QED BY <1>5, <1>6, <1>7, AllOK

\* The handlers of REST requests; Save writes a version that exists.
LEMMA RequestIInv ==
  ASSUME IInv, NEW r \in Requests,
         \/ Save(r) \/ Again(r)
         \/ \E m \in Mains, w \in Flows :
              \/ Activate(r, m, w) \/ Deactivate(r, m, w) \/ Delete(r, m, w)
              \/ \E want \in {"keep", "on", "off"} : Update(r, m, w, want)
  PROVE  IInv'
<1>t. /\ row \in [Flows -> Row] /\ pc \in [Threads -> Pc] /\ job \in [Threads -> Job]
      /\ asked \in 0..MaxRequests /\ MaxRequests \in Nat /\ r \in Threads /\ r \notin Mains
  BY Types
<1>j. NoJob \in Job /\ ~NoJob.active /\ NoJob.version = 0 /\ 0 \in Versions
  BY Types DEF NoJob, Job, Versions
<1>r. \A w \in Flows : row[w].version \in Versions /\ row[w].active \in BOOLEAN /\ (row[w].active => row[w].version # 0)
  BY <1>t DEF Row, IInv, RowInv
<1>f. Fine(pc[r], job[r])
  BY <1>t, FineOf
<1>n. RestOK
  BY DEF IInv, TypeOK, RestOK
<1>1. ASSUME NEW m \in Mains, NEW w \in Flows, Activate(r, m, w) PROVE IInv'
  <2> DEFINE j == [NoJob EXCEPT !.version = row[w].version, !.active = TRUE]
  <2>1. j \in Job /\ [j EXCEPT !.main = m, !.flow = w] \in Job /\ j.version = row[w].version /\ ~j.off
    BY <1>j, <1>r DEF NoJob, Job
  <2>2. Ask(r, m, w, j, "check")
    BY <1>1 DEF Activate
  <2>3. row[w].version # 0
    BY <2>2 DEF Ask
  <2> HIDE DEF j
  <2> QED BY <2>1, <2>2, <2>3, AskIInv
<1>2. ASSUME NEW m \in Mains, NEW w \in Flows, Deactivate(r, m, w) PROVE IInv'
  <2> DEFINE j == [NoJob EXCEPT !.version = row[w].version, !.off = TRUE]
  <2>1. j \in Job /\ [j EXCEPT !.main = m, !.flow = w] \in Job /\ j.off /\ ~j.active
    BY <1>j, <1>r DEF NoJob, Job
  <2>2. Ask(r, m, w, j, "unhook")
    BY <1>2 DEF Deactivate
  <2> HIDE DEF j
  <2> QED BY <2>1, <2>2, AskIInv
<1>3. ASSUME NEW m \in Mains, NEW w \in Flows, Delete(r, m, w) PROVE IInv'
  <2> DEFINE j == [NoJob EXCEPT !.off = TRUE, !.gone = TRUE]
  <2>1. j \in Job /\ [j EXCEPT !.main = m, !.flow = w] \in Job /\ j.off /\ ~j.active
    BY <1>j DEF NoJob, Job
  <2>2. Ask(r, m, w, j, "unhook")
    BY <1>3 DEF Delete
  <2> HIDE DEF j
  <2> QED BY <2>1, <2>2, AskIInv
<1>4. ASSUME NEW m \in Mains, NEW w \in Flows, NEW want \in {"keep", "on", "off"},
             Update(r, m, w, want)
      PROVE  IInv'
  <2> DEFINE j == [NoJob EXCEPT !.version = asked + 2, !.active = row[w].active, !.want = want]
             to == IF row[w].active /\ want # "off" THEN "check" ELSE "save"
  <2>1. Ask(r, m, w, j, to)
    BY <1>4 DEF Update
  <2>2. asked + 2 \in Versions /\ asked + 2 # 0
    BY <1>t, <2>1 DEF Ask, Weight, Versions
  <2>3. j \in Job /\ [j EXCEPT !.main = m, !.flow = w] \in Job /\ j.version # 0 /\ ~j.off
    BY <1>j, <1>r, <2>2 DEF NoJob, Job
  <2>4. to \in {"check", "unhook", "save"} /\ to # "unhook"
    OBVIOUS
  <2> HIDE DEF j, to
  <2> QED BY <2>1, <2>3, <2>4, AskIInv
<1>5. CASE Save(r)
  <2> DEFINE j == job[r]
             p == IF j.want = "keep" THEN "idle" ELSE "again"
             k == IF j.want = "keep" THEN NoJob
                  ELSE [NoJob EXCEPT !.main = j.main, !.flow = j.flow, !.want = j.want]
  <2>1. pc[r] = "save" /\ j \in Job /\ j.main \in Mains /\ j.flow \in Flows /\ (j.active => j.version # 0)
    BY <1>5, <1>f DEF Save, Go, Fine, Pc, Working
  <2>2. k \in Job /\ ~k.active /\ (p = "again" => k.main \in Mains /\ k.flow \in Flows)
    BY <1>j, <2>1 DEF NoJob, Job
  <2>3. Fine(p, k)
    BY <2>2 DEF Fine, Pc, Working
  <2>m. pc' = [pc EXCEPT ![r] = p] /\ job' = [job EXCEPT ![r] = k]
    BY <1>5 DEF Save, Go
  <2>4. JobsOK' /\ JobInv'
    <3> HIDE DEF p, k
    <3> QED BY <1>t, <2>m, <2>3, JobsMove
  <2>5. row' \in [Flows -> Row] /\ \A w \in Flows : row'[w].active => row'[w].version # 0
    <3> DEFINE now == IF j.gone THEN [active |-> FALSE, version |-> 0]
                      ELSE [active |-> j.active, version |-> j.version]
    <3>1. now \in Row /\ (now.active => now.version # 0)
      BY <1>j, <2>1 DEF Row, Job
    <3>2. row' = [row EXCEPT ![j.flow] = now]
      BY <1>5 DEF Save
    <3> HIDE DEF now, j
    <3> QED BY <3>1, <3>2, <1>t, <1>r
  <2>6. RowInv'
    <3>1. \A m \in Mains : pc'[m] = pc[m] /\ job'[m] = job[m]
      BY <1>5, <1>t DEF Save, Go
    <3> QED BY <3>1, <2>5, <1>5 DEF RowInv, IInv, Looking, Save, loops
  <2>7. RestOK'
    BY <1>5, <1>n, <2>5 DEF Save, RestOK, loops, task
  <2> QED BY <2>4, <2>6, <2>7, AllOK
<1>6. CASE Again(r)
  <2> DEFINE j == job[r]
             now == row[j.flow]
             turn == [NoJob EXCEPT !.main = j.main, !.flow = j.flow, !.version = now.version]
             on == [turn EXCEPT !.active = TRUE]
             off == [turn EXCEPT !.off = TRUE]
  <2>1. pc[r] = "again" /\ j \in Job /\ j.main \in Mains /\ j.flow \in Flows
    BY <1>6, <1>f DEF Again, Fine, Pc, Working
  <2>2. RestOK'
    BY <1>6, <1>n DEF Again, RestOK, loops, task
  <2>3. now.version \in Versions
    BY <2>1, <1>r
  <2>4. on \in Job /\ on.version = now.version /\ on.main = j.main /\ on.flow = j.flow /\ ~on.off
    BY <1>j, <2>1, <2>3 DEF NoJob, Job
  <2>5. off \in Job /\ off.main = j.main /\ off.flow = j.flow /\ off.off /\ ~off.active
    BY <1>j, <2>1, <2>3 DEF NoJob, Job
  <2>6. ASSUME NEW p, NEW k, Fine(p, k), Go(r, "again", p), job' = [job EXCEPT ![r] = k]
        PROVE  IInv'
    <3>1. JobsOK' /\ JobInv'
      BY <1>t, <2>6, JobsMove DEF Go
    <3>2. RowInv'
      BY <1>6, <1>t, <2>6, LooksOn DEF Go, Again, loops
    <3> QED BY <3>1, <3>2, <2>2, AllOK
  <2>7. \/ now.version # 0 /\ Go(r, "again", "check") /\ job' = [job EXCEPT ![r] = on]
        \/ Go(r, "again", "unhook") /\ job' = [job EXCEPT ![r] = off]
        \/ Go(r, "again", "idle") /\ job' = [job EXCEPT ![r] = NoJob]
    BY <1>6 DEF Again
  <2> HIDE DEF on, off
  <2>8. now.version # 0 => Fine("check", on)
    BY <2>4, <2>1 DEF Fine, Pc, Working
  <2>9. Fine("unhook", off) /\ Fine("idle", NoJob)
    BY <2>5, <2>1, <1>j DEF Fine, Pc, Working
  <2> QED BY <2>6, <2>7, <2>8, <2>9
<1> QED BY <1>1, <1>2, <1>3, <1>4, <1>5, <1>6

\* Another main saves a row that exists.
LEMMA ElsewhereIInv ==
  ASSUME IInv, NEW w \in Flows, NEW active \in BOOLEAN, NEW version \in Versions,
         SaveElsewhere(w, active, version)
  PROVE  IInv'
<1>1. row \in [Flows -> Row] /\ asked \in 0..MaxRequests /\ MaxRequests \in Nat
  BY Types
<1>2. version # 0
  BY <1>1 DEF SaveElsewhere
<1>3. [active |-> active, version |-> version] \in Row
  BY DEF Row
<1>4. row' \in [Flows -> Row] /\ \A v \in Flows : row'[v].active => row'[v].version # 0
  BY <1>1, <1>2, <1>3 DEF SaveElsewhere, IInv, RowInv
<1>5. RowInv'
  BY <1>4 DEF RowInv, IInv, Looking, SaveElsewhere, loops
<1>6. asked' \in 0..MaxRequests
  BY <1>1 DEF SaveElsewhere
<1>7. RestOK'
  BY <1>4, <1>6 DEF SaveElsewhere, RestOK, loops, task, IInv, TypeOK
<1>8. JobsOK' /\ JobInv'
  BY DEF SaveElsewhere, JobsOK, JobInv, IInv, TypeOK
<1> QED BY <1>5, <1>7, <1>8, AllOK

\* The loop: the rows it reads carry the row invariant to what it registers.
LEMMA LoopIInv ==
  ASSUME IInv, NEW m \in Mains, Loop(m) PROVE IInv'
<1>t. /\ row \in [Flows -> Row] /\ pc \in [Threads -> Pc] /\ job \in [Threads -> Job]
      /\ todo \in [Mains -> SUBSET Flows] /\ rows \in [Mains -> [Flows -> Row]]
      /\ tpc \in [Mains -> {"boot", "idle", "start", "stop"}]
      /\ m \in Threads /\ Mains \subseteq Threads
  BY Types
<1>j. NoJob \in Job /\ ~NoJob.active /\ NoJob.version = 0 /\ 0 \in Versions
  BY Types DEF NoJob, Job, Versions
<1>f. Fine(pc[m], job[m])
  BY <1>t, FineOf
<1>n. RestOK
  BY DEF IInv, TypeOK, RestOK
<1>r. RowInv
  BY DEF IInv
<1>z. NoRows \in [Flows -> Row] /\ \A w \in Flows : ~NoRows[w].active
  BY <1>j DEF NoRows, Row
\* What a loop's step has to show of the rows and of what is still to do.
<1>g. ASSUME NEW p, NEW k, Fine(p, k), pc' = [pc EXCEPT ![m] = p],
             job' = [job EXCEPT ![m] = k] \/ (job' = job /\ k = job[m]),
             RestOK', row' = row,
             \A n \in Mains \ {m} : rows'[n] = rows[n] /\ todo'[n] = todo[n],
             \A w \in Flows : rows'[m][w].active => rows'[m][w].version # 0,
             p \in {"next", "check", "hook", "cache", "gate", "start"} \/ (p \in {"unhook", "uncache", "stop"} /\ ~k.off)
               => \A w \in todo'[m] : rows'[m][w].active
      PROVE  IInv'
  <2>1. JobsOK' /\ JobInv'
    BY <1>t, <1>g, JobsMove
  <2>2. job' = [job EXCEPT ![m] = k]
    BY <1>t, <1>g
  <2>3. \A n \in Mains : pc'[n] = (IF n = m THEN p ELSE pc[n]) /\ job'[n] = (IF n = m THEN k ELSE job[n])
    BY <1>t, <1>g, <2>2
  <2>4. RowInv'
    BY <1>r, <1>g, <2>3 DEF RowInv, Looking
  <2> QED BY <1>g, <2>1, <2>4, AllOK
<1>1. CASE ReadRows(m)
  <2>1. rows' \in [Mains -> [Flows -> Row]] /\ todo' \in [Mains -> SUBSET Flows]
    BY <1>1, <1>t DEF ReadRows
  <2>2. RestOK'
    BY <1>1, <1>n, <2>1 DEF ReadRows, RestOK, task
  <2>3. Fine("next", job[m])
    BY <1>f DEF Fine, Pc, Working
  <2>4. rows'[m] = row /\ todo'[m] = {w \in Flows : row[w].active} /\ row' = row
        /\ pc' = [pc EXCEPT ![m] = "next"] /\ job' = job
    BY <1>1, <1>t DEF ReadRows
  <2>5. \A n \in Mains \ {m} : rows'[n] = rows[n] /\ todo'[n] = todo[n]
    BY <1>1, <1>t DEF ReadRows
  <2>6. \A w \in Flows : rows'[m][w].active => rows'[m][w].version # 0
    BY <2>4, <1>r DEF RowInv
  <2>7. \A w \in todo'[m] : rows'[m][w].active
    BY <2>4
  <2> QED BY <2>2, <2>3, <2>4, <2>5, <2>6, <2>7, <1>g
<1>2. ASSUME NEW w \in Flows, Look(m, w) PROVE IInv'
  <2>1. pc[m] = "next" /\ w \in todo[m] /\ rows' = rows /\ row' = row
    BY <1>2 DEF Look
  <2>2. rows[m][w].active /\ rows[m][w].version # 0 /\ rows[m][w].version \in Versions
    BY <2>1, <1>r, <1>t DEF RowInv, Looking, Row
  <2>3. todo'[m] = todo[m] \ {w} /\ (\A n \in Mains \ {m} : todo'[n] = todo[n])
        /\ todo' \in [Mains -> SUBSET Flows]
    BY <1>2, <1>t DEF Look
  <2>4. RestOK'
    BY <1>2, <1>n, <2>3 DEF Look, RestOK, task
  <2>5. \A v \in todo'[m] : rows'[m][v].active
    BY <2>1, <2>3, <1>r DEF RowInv, Looking
  <2>6. \A v \in Flows : rows'[m][v].active => rows'[m][v].version # 0
    BY <2>1, <1>r DEF RowInv
  <2> DEFINE k == [NoJob EXCEPT !.main = m, !.flow = w, !.version = rows[m][w].version]
  <2>7. k \in Job /\ ~k.off /\ ~k.active /\ k.version # 0 /\ k.main = m /\ k.flow = w
    BY <1>j, <2>2 DEF NoJob, Job
  <2>8. CASE cached[m][w] = rows[m][w].version
    <3>1. pc' = pc /\ job' = job
      BY <1>2, <2>8 DEF Look
    <3>2. pc' = [pc EXCEPT ![m] = "next"]
      BY <3>1, <2>1, <1>t
    <3>3. Fine("next", job[m])
      BY <1>f, <2>1
    <3> QED BY <3>1, <3>2, <3>3, <2>1, <2>3, <2>4, <2>5, <2>6, <1>g
  <2>9. CASE cached[m][w] # rows[m][w].version
    <3>1. pc' = [pc EXCEPT ![m] = "check"] /\ job' = [job EXCEPT ![m] = k]
      BY <1>2, <2>9 DEF Look
    <3>2. Fine("check", k)
      BY <2>7 DEF Fine, Pc, Working
    <3> HIDE DEF k
    <3> QED BY <3>1, <3>2, <2>1, <2>3, <2>4, <2>5, <2>6, <1>g
  <2> QED BY <2>8, <2>9
<1>3. CASE LookedAtAll(m)
  <2> DEFINE p == IF tpc[m] = "boot" THEN "idle" ELSE "stale"
  <2>1. pc' = [pc EXCEPT ![m] = p] /\ job' = [job EXCEPT ![m] = NoJob] /\ row' = row
        /\ rows' = [rows EXCEPT ![m] = NoRows]
    BY <1>3 DEF LookedAtAll, Go
  <2>2. todo' \in [Mains -> SUBSET Flows] /\ (\A n \in Mains \ {m} : todo'[n] = todo[n])
    BY <1>3, <1>t DEF LookedAtAll
  <2>3. rows' \in [Mains -> [Flows -> Row]] /\ (\A n \in Mains \ {m} : rows'[n] = rows[n]) /\ rows'[m] = NoRows
    BY <2>1, <1>t, <1>z
  <2>4. tpc' \in [Mains -> {"boot", "idle", "start", "stop"}]
    BY <1>3, <1>t DEF LookedAtAll
  <2>5. RestOK'
    BY <1>3, <1>n, <2>2, <2>3, <2>4 DEF LookedAtAll, RestOK
  <2>6. Fine(p, NoJob) /\ p \in {"idle", "stale"}
    BY <1>j DEF Fine, Pc, Working
  <2> HIDE DEF p
  <2> QED BY <2>1, <2>2, <2>3, <2>5, <2>6, <1>z, <1>g
<1>4. ASSUME NEW w \in Flows, Drop(m, w) PROVE IInv'
  <2> DEFINE k == [NoJob EXCEPT !.main = m, !.flow = w, !.off = TRUE]
  <2>1. pc' = [pc EXCEPT ![m] = "unhook"] /\ job' = [job EXCEPT ![m] = k] /\ row' = row /\ rows' = rows
    BY <1>4 DEF Drop, Go
  <2>2. todo' \in [Mains -> SUBSET Flows] /\ (\A n \in Mains \ {m} : todo'[n] = todo[n])
    BY <1>4, <1>t DEF Drop
  <2>3. RestOK'
    BY <1>4, <1>n, <2>2 DEF Drop, RestOK, task
  <2>4. k \in Job /\ k.off /\ ~k.active /\ k.main = m /\ k.flow = w
    BY <1>j DEF NoJob, Job
  <2>5. Fine("unhook", k)
    BY <2>4 DEF Fine, Pc, Working
  <2>6. \A v \in Flows : rows'[m][v].active => rows'[m][v].version # 0
    BY <2>1, <1>r DEF RowInv
  <2> HIDE DEF k
  <2> QED BY <2>1, <2>2, <2>3, <2>4, <2>5, <2>6, <1>g
<1>5. CASE SyncOver(m)
  <2>1. pc' = [pc EXCEPT ![m] = "idle"] /\ job' = [job EXCEPT ![m] = NoJob]
        /\ row' = row /\ rows' = rows /\ todo' = todo
    BY <1>5 DEF SyncOver, Go, loops
  <2>2. RestOK'
    BY <1>5, <1>n DEF SyncOver, RestOK, loops, task
  <2>3. Fine("idle", NoJob)
    BY <1>j DEF Fine, Pc, Working
  <2>4. \A v \in Flows : rows'[m][v].active => rows'[m][v].version # 0
    BY <2>1, <1>r DEF RowInv
  <2> QED BY <2>1, <2>2, <2>3, <2>4, <1>g
<1> QED BY <1>1, <1>2, <1>3, <1>4, <1>5 DEF Loop

\* The leadership task and the turns leave threads and rows alone.
LEMMA TaskIInv ==
  ASSUME IInv, NEW m \in Mains, Task(m) \/ \E lead \in BOOLEAN : Turn(m, lead) PROVE IInv'
<1>t. /\ cached \in [Mains -> [Flows -> Versions]] /\ timers \in [Mains -> SUBSET Flows]
      /\ leader \in [Mains -> BOOLEAN] /\ changed \in [Mains -> BOOLEAN]
      /\ tpc \in [Mains -> {"boot", "idle", "start", "stop"}] /\ tset \in [Mains -> SUBSET Flows]
      /\ turns \in 0..MaxTurns /\ MaxTurns \in Nat /\ disturbed \in [Mains -> SUBSET Flows]
  BY Types
<1>n. RestOK
  BY DEF IInv, TypeOK, RestOK
<1>1. pc' = pc /\ job' = job /\ row' = row /\ rows' = rows /\ todo' = todo
  BY DEF Task, Turn, Wake, TaskOver, Takeover, Stepdown, loops
<1>2. JobsOK' /\ JobInv' /\ RowInv'
  BY <1>1 DEF JobsOK, JobInv, RowInv, IInv, TypeOK, Looking
<1>3. ASSUME NEW lead \in BOOLEAN, Turn(m, lead) PROVE RestOK'
  <2>1. leader' \in [Mains -> BOOLEAN] /\ changed' \in [Mains -> BOOLEAN] /\ turns' \in 0..MaxTurns
    BY <1>3, <1>t DEF Turn
  <2> QED BY <1>3, <1>n, <2>1 DEF Turn, RestOK, loops, task
<1>4. ASSUME Wake(m) PROVE RestOK'
  <2>1. changed' \in [Mains -> BOOLEAN] /\ tpc' \in [Mains -> {"boot", "idle", "start", "stop"}]
    BY <1>4, <1>t DEF Wake
  <2>2. tset' \in [Mains -> SUBSET Flows]
    BY <1>4, <1>t DEF Wake
  <2> QED BY <1>4, <1>n, <2>1, <2>2 DEF Wake, RestOK, loops
<1>5. ASSUME NEW w \in Flows, Takeover(m, w) PROVE RestOK'
  <2>1. tset' \in [Mains -> SUBSET Flows] /\ timers' \in [Mains -> SUBSET Flows]
        /\ disturbed' \in [Mains -> SUBSET Flows]
    BY <1>5, <1>t DEF Takeover
  <2> QED BY <1>5, <1>n, <2>1 DEF Takeover, RestOK, loops
<1>6. ASSUME NEW w \in Flows, Stepdown(m, w) PROVE RestOK'
  <2>1. tset' \in [Mains -> SUBSET Flows] /\ timers' \in [Mains -> SUBSET Flows]
    BY <1>6, <1>t DEF Stepdown
  <2> QED BY <1>6, <1>n, <2>1 DEF Stepdown, RestOK, loops
<1>7. ASSUME TaskOver(m) PROVE RestOK'
  <2>1. tpc' \in [Mains -> {"boot", "idle", "start", "stop"}]
    BY <1>7, <1>t DEF TaskOver
  <2> QED BY <1>7, <1>n, <2>1 DEF TaskOver, RestOK, loops
<1>8. RestOK'
  BY <1>3, <1>4, <1>5, <1>6, <1>7 DEF Task
<1> QED BY <1>2, <1>8, AllOK

LEMMA StillIInv == ASSUME IInv, UNCHANGED vars PROVE IInv'
BY DEF IInv, TypeOK, JobInv, RowInv, Looking, vars, loops, task

LEMMA NextIInv == ASSUME IInv, [Next]_vars PROVE IInv'
<1>1. ASSUME NEW r \in Requests, NEW m \in Mains, NEW w \in Flows,
             \/ Activate(r, m, w) \/ Deactivate(r, m, w) \/ Delete(r, m, w)
             \/ \E want \in {"keep", "on", "off"} : Update(r, m, w, want)
      PROVE  IInv'
  BY <1>1, RequestIInv
<1>2. ASSUME NEW r \in Requests, Save(r) \/ Again(r) PROVE IInv'
  BY <1>2, RequestIInv
<1>3. ASSUME NEW t \in Threads, Registering(t) \/ Refused(t) PROVE IInv'
  BY <1>3, RegisteringIInv, RefusedIInv
<1>4. ASSUME NEW w \in Flows, NEW active \in BOOLEAN, NEW version \in Versions,
             SaveElsewhere(w, active, version)
      PROVE  IInv'
  BY <1>4, ElsewhereIInv
<1>5. ASSUME NEW m \in Mains, Loop(m) PROVE IInv'
  BY <1>5, LoopIInv
<1>6. ASSUME NEW m \in Mains, Task(m) \/ \E lead \in BOOLEAN : Turn(m, lead) PROVE IInv'
  BY <1>6, TaskIInv
<1> QED BY <1>1, <1>2, <1>3, <1>4, <1>5, <1>6, StillIInv DEF Next

\* What threads, tasks, tables and counters hold are values of their kinds; a
\* thread that registers has a version to register, whatever rows are
\* deleted while it works (activation.rs register, rest.rs).
THEOREM RegistrationTypes == Spec => []TypeOK
<1>1. IInv => TypeOK
  BY DEF IInv
<1>2. IInv /\ [Next]_vars => IInv'
  BY NextIInv
<1> QED BY <1>1, <1>2, InitIInv, PTL DEF Spec

-----------------------------------------------------------------------------
(* Registrations: the timers follow the leader.                            *)

\* Until the gate changes again, the task does what the gate says.
TaskInv == \A m \in Mains : ~changed[m] =>
  (tpc[m] = "start" => leader[m]) /\ (tpc[m] = "stop" => ~leader[m])

\* What m has in its cache while it leads has its timers, or is still to be
\* started by the takeover under way.
Started(m, w) ==
  ~changed[m] /\ leader[m] /\ cached[m][w] # 0 =>
    w \in timers[m] \/ (tpc[m] = "start" /\ w \in tset[m])

\* A main that does not lead has no timers but those that its stepdown is
\* still to stop.
Stopped(m, w) ==
  ~changed[m] /\ ~leader[m] /\ w \in timers[m] => tpc[m] = "stop" /\ w \in tset[m]

\* One thread at most is at workflow w of main m, ...
Alone(m, w) == \A t, u \in Threads : Handling(t, m, w) /\ Handling(u, m, w) => t = u

\* ... which it has unregistered, stopped, registered in that order, ...
Phase(m, w) ==
  \A t \in Threads : Handling(t, m, w) =>
    /\ pc[t] = "stop" => cached[m][w] = 0
    /\ pc[t] \in {"hook", "cache"} => cached[m][w] = 0 /\ w \notin timers[m]
    /\ pc[t] \in {"gate", "start"} => cached[m][w] # 0
    /\ pc[t] = "gate" => Stopped(m, w)

\* ... and when none is, the timers are what leadership makes of the
\* registration, or the task is about to see to it.
Quiet(m, w) ==
  (\A t \in Threads : ~Handling(t, m, w)) =>
    /\ w \in timers[m] => cached[m][w] # 0
    /\ Started(m, w) /\ Stopped(m, w)

Flow(m, w) == Alone(m, w) /\ Phase(m, w) /\ Quiet(m, w)

\* The inductive invariant for TimersFollowLeader, with IInv and TaskInv.
FlowInv == \A m \in Mains : \A w \in Flows \ disturbed[m] : Flow(m, w)

\* A step that leaves alone what is said of a workflow.
LEMMA FlowKept ==
  ASSUME NEW m \in Mains, NEW w \in Flows, Flow(m, w),
         cached'[m][w] = cached[m][w], w \in timers'[m] <=> w \in timers[m],
         leader'[m] = leader[m], changed'[m] = changed[m],
         tpc'[m] = tpc[m] \/ (tpc[m] \in {"boot", "idle"} /\ tpc'[m] \in {"boot", "idle"}),
         w \in tset'[m] <=> w \in tset[m],
         \A t \in Threads : /\ Handling(t, m, w)' <=> Handling(t, m, w)
                            /\ Handling(t, m, w) => pc'[t] = pc[t]
  PROVE  Flow(m, w)'
<1>1. Stopped(m, w)' <=> Stopped(m, w)
  BY DEF Stopped
<1>2. Started(m, w)' <=> Started(m, w)
  BY DEF Started
<1>3. Alone(m, w)'
  BY DEF Flow, Alone
<1>4. Phase(m, w)'
  BY <1>1 DEF Flow, Phase
<1>5. Quiet(m, w)'
  BY <1>1, <1>2 DEF Flow, Quiet
<1> QED BY <1>3, <1>4, <1>5 DEF Flow

\* A step of a thread that handles no workflow before it or after it.
LEMMA FlowStill ==
  ASSUME IInv, TaskInv, FlowInv, NEW t \in Threads,
         cached' = cached, timers' = timers, leader' = leader, changed' = changed,
         tset' = tset, disturbed' = disturbed,
         \A m \in Mains : tpc'[m] = tpc[m] \/ (tpc[m] \in {"boot", "idle"} /\ tpc'[m] \in {"boot", "idle"}),
         \A u \in Threads \ {t} : pc'[u] = pc[u] /\ job'[u] = job[u],
         pc[t] \notin Handles, pc'[t] \notin Handles
  PROVE  TaskInv' /\ FlowInv'
<1>1. TaskInv'
  BY DEF TaskInv
<1>2. ASSUME NEW m \in Mains, NEW w \in Flows \ disturbed[m] PROVE Flow(m, w)'
  <2>1. \A u \in Threads : /\ Handling(u, m, w)' <=> Handling(u, m, w)
                           /\ Handling(u, m, w) => pc'[u] = pc[u]
    BY DEF Handling, Handles
  <2>2. Flow(m, w)
    BY DEF FlowInv
  <2> QED BY <2>1, <2>2, FlowKept
<1> QED BY <1>1, <1>2 DEF FlowInv

\* Thread t works on a flow w of a main m: what it leaves elsewhere.
LEMMA FlowElsewhere ==
  ASSUME IInv, FlowInv, NEW t \in Threads, NEW m \in Mains, NEW w \in Flows,
         job[t].main = m, job[t].flow = w, job' = job,
         leader' = leader, changed' = changed, tpc' = tpc, tset' = tset,
         \A u \in Threads \ {t} : pc'[u] = pc[u],
         \A n \in Mains, v \in Flows : ~(n = m /\ v = w) =>
           /\ cached'[n][v] = cached[n][v] /\ (v \in timers'[n] <=> v \in timers[n])
           /\ v \in disturbed'[n] <=> v \in disturbed[n],
         w \notin disturbed'[m] => Flow(m, w)'
  PROVE  FlowInv'
<1>1. ASSUME NEW n \in Mains, NEW v \in Flows \ disturbed'[n], ~(n = m /\ v = w) PROVE Flow(n, v)'
  <2>1. v \notin disturbed[n] /\ cached'[n][v] = cached[n][v] /\ (v \in timers'[n] <=> v \in timers[n])
    BY <1>1
  <2>2. \A u \in Threads : /\ Handling(u, n, v)' <=> Handling(u, n, v)
                           /\ Handling(u, n, v) => pc'[u] = pc[u]
    BY <1>1 DEF Handling
  <2>3. Flow(n, v)
    BY <2>1 DEF FlowInv
  <2> QED BY <2>1, <2>2, <2>3, FlowKept
<1> QED BY <1>1 DEF FlowInv

\* Thread t moves on to p; main m has version S of flow w cached by then,
\* and m the timers T. Nobody else handles the flow, unless it is disturbed.
Moves(t, m, w, p, T, S) ==
  /\ pc' = [pc EXCEPT ![t] = p]
  /\ UNCHANGED <<job, leader, changed, tpc, tset>>
  /\ timers' = [timers EXCEPT ![m] = T]
  /\ cached' = [cached EXCEPT ![m][w] = S]
  /\ disturbed' \in {disturbed, [disturbed EXCEPT ![m] = @ \cup {w}]}
  /\ T \subseteq Flows /\ T \ {w} = timers[m] \ {w}
  /\ w \notin disturbed'[m] =>
       /\ \A u \in Threads \ {t} : ~Handling(u, m, w)
       /\ p = "stop" => S = 0
       /\ p \in {"hook", "cache"} => S = 0 /\ w \notin T
       /\ p \in {"gate", "start"} => S # 0
       /\ p = "gate" => Stopped(m, w)'
       /\ p \notin Handles => (w \in T => S # 0) /\ Started(m, w)' /\ Stopped(m, w)'

\* Such a step keeps the invariant.
LEMMA MovesFlow ==
  ASSUME IInv, TaskInv, FlowInv, NEW t \in Threads, NEW m \in Mains, NEW w \in Flows,
         m = job[t].main, w = job[t].flow, NEW p, NEW T, NEW S, Moves(t, m, w, p, T, S)
  PROVE  TaskInv' /\ FlowInv'
<1>t. /\ cached \in [Mains -> [Flows -> Versions]] /\ timers \in [Mains -> SUBSET Flows]
      /\ pc \in [Threads -> Pc] /\ disturbed \in [Mains -> SUBSET Flows]
  BY Types
<1>1. \A u \in Threads : pc'[u] = IF u = t THEN p ELSE pc[u]
  BY <1>t DEF Moves
<1>2. cached'[m][w] = S /\ timers'[m] = T
  BY <1>t DEF Moves
<1>c. job' = job /\ leader' = leader /\ changed' = changed /\ tpc' = tpc /\ tset' = tset
  BY DEF Moves
<1>3. \A n \in Mains, v \in Flows : ~(n = m /\ v = w) =>
        /\ cached'[n][v] = cached[n][v] /\ (v \in timers'[n] <=> v \in timers[n])
        /\ v \in disturbed'[n] <=> v \in disturbed[n]
  BY <1>t DEF Moves
<1>4. ASSUME w \notin disturbed'[m] PROVE Flow(m, w)'
  <2>1. /\ \A u \in Threads \ {t} : ~Handling(u, m, w)
        /\ p = "stop" => S = 0
        /\ p \in {"hook", "cache"} => S = 0 /\ w \notin T
        /\ p \in {"gate", "start"} => S # 0
        /\ p = "gate" => Stopped(m, w)'
        /\ p \notin Handles => (w \in T => S # 0) /\ Started(m, w)' /\ Stopped(m, w)'
    BY <1>4 DEF Moves
  <2>2. \A u \in Threads : Handling(u, m, w)' <=> u = t /\ p \in Handles
    BY <2>1, <1>1, <1>c DEF Handling, Handles
  <2>3. Alone(m, w)'
    BY <2>2 DEF Alone
  <2>4. Phase(m, w)'
    BY <2>1, <2>2, <1>1, <1>2 DEF Phase
  <2>5. Quiet(m, w)'
    BY <2>1, <2>2, <1>2 DEF Quiet
  <2> QED BY <2>3, <2>4, <2>5 DEF Flow
<1>5. TaskInv'
  BY <1>c DEF TaskInv
<1>6. \A u \in Threads \ {t} : pc'[u] = pc[u]
  BY <1>1
<1> QED BY <1>c, <1>3, <1>4, <1>5, <1>6, FlowElsewhere

\* Thread t registers or unregisters flow w on main m.
LEMMA RegisteringFlow ==
  ASSUME IInv, TaskInv, FlowInv, NEW t \in Threads, NEW m, NEW w,
         m = job[t].main, w = job[t].flow, Registering(t)
  PROVE  TaskInv' /\ FlowInv'
<1>t. /\ cached \in [Mains -> [Flows -> Versions]] /\ timers \in [Mains -> SUBSET Flows]
      /\ pc \in [Threads -> Pc] /\ job \in [Threads -> Job]
      /\ leader \in [Mains -> BOOLEAN] /\ changed \in [Mains -> BOOLEAN]
      /\ disturbed \in [Mains -> SUBSET Flows]
  BY Types
<1>e. ASSUME m \in Mains, w \in Flows
      PROVE  /\ timers = [timers EXCEPT ![m] = timers[m]] /\ timers[m] \subseteq Flows
             /\ cached = [cached EXCEPT ![m][w] = cached[m][w]]
  <2>1. timers = [timers EXCEPT ![m] = timers[m]] /\ timers[m] \subseteq Flows
    BY ONLY <1>e, <1>t
  <2>2. cached[m] = [cached[m] EXCEPT ![w] = cached[m][w]]
    BY ONLY <1>e, <1>t
  <2>3. cached = [cached EXCEPT ![m] = cached[m]]
    BY ONLY <1>e, <1>t
  <2>4. cached = [cached EXCEPT ![m][w] = cached[m][w]]
    BY ONLY <2>2, <2>3
  <2> QED BY <2>1, <2>4
<1>f. Fine(pc[t], job[t])
  BY FineOf
<1>o. After(t) \notin Handles
  BY DEF After, Handles
<1>m. pc[t] \in {"check", "unhook"} \cup Handles => m \in Mains /\ w \in Flows
  BY <1>f DEF Fine, Working, Pc, Handles
<1>a. ASSUME m \in Mains, w \in Flows, w \notin disturbed[m] PROVE Alone(m, w) /\ Phase(m, w) /\ Quiet(m, w)
  BY <1>a DEF FlowInv, Flow
<1>s. ASSUME pc[t] \in Handles, w \notin disturbed[m]
      PROVE  /\ \A u \in Threads \ {t} : ~Handling(u, m, w)
             /\ pc[t] = "stop" => cached[m][w] = 0
             /\ pc[t] \in {"hook", "cache"} => cached[m][w] = 0 /\ w \notin timers[m]
             /\ pc[t] \in {"gate", "start"} => cached[m][w] # 0
             /\ pc[t] = "gate" => Stopped(m, w)
  <2>1. Alone(m, w) /\ Phase(m, w) /\ Handling(t, m, w)
    BY <1>s, <1>a, <1>m DEF Handling, Handles
  <2> QED BY <2>1 DEF Alone, Phase
<1>1. CASE Check(t)
  BY <1>1, <1>t, FlowStill DEF Check, Go, GivesUp, Handles, loops, task
<1>2. CASE Unhook(t)
  <2>1. pc[t] = "unhook" /\ m \in Mains /\ w \in Flows /\ pc' = [pc EXCEPT ![t] = "uncache"]
        /\ leader' = leader /\ changed' = changed /\ tpc' = tpc /\ tset' = tset /\ job' = job
        /\ timers' = timers /\ cached' = cached
    BY <1>2, <1>m DEF Unhook, Go, task
  <2>2. disturbed' = IF \E u \in Threads \ {t} : Handling(u, m, w)
                     THEN [disturbed EXCEPT ![m] = @ \cup {w}] ELSE disturbed
    BY <1>2 DEF Unhook
  <2>3. timers' = [timers EXCEPT ![m] = timers[m]] /\ timers[m] \subseteq Flows
        /\ cached' = [cached EXCEPT ![m][w] = cached[m][w]]
    BY ONLY <2>1, <1>e
  <2>4. w \notin disturbed'[m] => \A u \in Threads \ {t} : ~Handling(u, m, w)
    BY <2>1, <2>2, <1>t
  <2>5. Moves(t, m, w, "uncache", timers[m], cached[m][w])
    BY <2>1, <2>2, <2>3, <2>4 DEF Moves, Handles
  <2> QED BY <2>1, <2>5, MovesFlow
<1>7. CASE Uncache(t)
  <2>1. pc[t] = "uncache" /\ m \in Mains /\ w \in Flows /\ pc' = [pc EXCEPT ![t] = "stop"]
        /\ leader' = leader /\ changed' = changed /\ tpc' = tpc /\ tset' = tset /\ job' = job
        /\ timers' = timers /\ cached' = [cached EXCEPT ![m][w] = 0] /\ disturbed' = disturbed
    BY <1>7, <1>m DEF Uncache, Go, task, Handles
  <2>2. timers' = [timers EXCEPT ![m] = timers[m]] /\ timers[m] \subseteq Flows
    BY <2>1, <1>t
  <2>3. w \notin disturbed[m] => \A u \in Threads \ {t} : ~Handling(u, m, w)
    BY <2>1, <1>s DEF Handles
  <2>4. Moves(t, m, w, "stop", timers[m], 0)
    BY <2>1, <2>2, <2>3 DEF Moves, Handles
  <2> QED BY <2>1, <2>4, MovesFlow
<1>3. CASE Stop(t)
  <2> DEFINE p == IF job[t].off THEN After(t) ELSE "hook"
  <2>1. pc[t] = "stop" /\ m \in Mains /\ w \in Flows /\ pc' = [pc EXCEPT ![t] = p]
        /\ leader' = leader /\ changed' = changed /\ tpc' = tpc /\ tset' = tset /\ job' = job
        /\ timers' = [timers EXCEPT ![m] = timers[m] \ {w}] /\ cached' = cached /\ disturbed' = disturbed
    BY <1>3, <1>m DEF Stop, Go, task, Handles
  <2>2. p \notin Handles \/ p = "hook"
    BY <1>o
  <2> HIDE DEF p
  <2>3. cached' = [cached EXCEPT ![m][w] = cached[m][w]]
    BY ONLY <2>1, <1>e
  <2>4. timers[m] \subseteq Flows /\ w \notin timers'[m]
    BY <2>1, <1>t
  <2>5. w \notin disturbed[m] => cached[m][w] = 0 /\ \A u \in Threads \ {t} : ~Handling(u, m, w)
    BY <2>1, <1>s DEF Handles
  <2>6. w \notin disturbed[m] => Started(m, w)' /\ Stopped(m, w)'
    BY <2>1, <2>4, <2>5 DEF Started, Stopped
  <2>7. Moves(t, m, w, p, timers[m] \ {w}, cached[m][w])
    BY <2>1, <2>2, <2>3, <2>4, <2>5, <2>6 DEF Moves, Handles
  <2> QED BY <2>1, <2>7, MovesFlow
<1>4. CASE Hook(t)
  <2>1. pc[t] = "hook" /\ m \in Mains /\ w \in Flows /\ pc' = [pc EXCEPT ![t] = "cache"]
        /\ leader' = leader /\ changed' = changed /\ tpc' = tpc /\ tset' = tset /\ job' = job
        /\ timers' = timers /\ cached' = cached /\ disturbed' = disturbed
    BY <1>4, <1>m DEF Hook, Go, task, Handles
  <2>2. timers' = [timers EXCEPT ![m] = timers[m]] /\ timers[m] \subseteq Flows
        /\ cached' = [cached EXCEPT ![m][w] = cached[m][w]]
    BY ONLY <2>1, <1>e
  <2>3. w \notin disturbed[m] => /\ cached[m][w] = 0 /\ w \notin timers[m]
                               /\ \A u \in Threads \ {t} : ~Handling(u, m, w)
    BY <2>1, <1>s DEF Handles
  <2>4. Moves(t, m, w, "cache", timers[m], cached[m][w])
    BY <2>1, <2>2, <2>3 DEF Moves, Handles
  <2> QED BY <2>1, <2>4, MovesFlow
<1>8. CASE Cache(t)
  <2>1. pc[t] = "cache" /\ m \in Mains /\ w \in Flows /\ pc' = [pc EXCEPT ![t] = "gate"]
        /\ leader' = leader /\ changed' = changed /\ tpc' = tpc /\ tset' = tset /\ job' = job
        /\ timers' = timers /\ cached' = [cached EXCEPT ![m][w] = job[t].version] /\ disturbed' = disturbed
        /\ job[t].version # 0
    BY <1>8, <1>m, <1>f DEF Cache, Go, task, Handles, Fine
  <2>2. timers' = [timers EXCEPT ![m] = timers[m]] /\ timers[m] \subseteq Flows
    BY <2>1, <1>t
  <2>3. w \notin disturbed[m] => w \notin timers[m] /\ \A u \in Threads \ {t} : ~Handling(u, m, w)
    BY <2>1, <1>s DEF Handles
  <2>4. w \notin disturbed[m] => Stopped(m, w)'
    BY <2>1, <2>3 DEF Stopped
  <2>5. Moves(t, m, w, "gate", timers[m], job[t].version)
    BY <2>1, <2>2, <2>3, <2>4 DEF Moves, Handles
  <2> QED BY <2>1, <2>5, MovesFlow
<1>5. CASE ReadGate(t)
  <2> DEFINE p == IF leader[m] THEN "start" ELSE After(t)
  <2>1. pc[t] = "gate" /\ m \in Mains /\ w \in Flows /\ pc' = [pc EXCEPT ![t] = p]
        /\ leader' = leader /\ changed' = changed /\ tpc' = tpc /\ tset' = tset /\ job' = job
        /\ timers' = timers /\ cached' = cached /\ disturbed' = disturbed
    BY <1>5, <1>m DEF ReadGate, Go, task, Handles
  <2>2. (p \notin Handles /\ ~leader[m]) \/ p = "start"
    BY <1>o
  <2> HIDE DEF p
  <2>3. timers' = [timers EXCEPT ![m] = timers[m]] /\ timers[m] \subseteq Flows
        /\ cached' = [cached EXCEPT ![m][w] = cached[m][w]]
    BY ONLY <2>1, <1>e
  <2>4. w \notin disturbed[m] =>
          /\ cached[m][w] # 0 /\ Stopped(m, w)
          /\ \A u \in Threads \ {t} : ~Handling(u, m, w)
    BY <2>1, <1>s DEF Handles
  <2>5. w \notin disturbed[m] => Stopped(m, w)'
    BY <2>1, <2>4 DEF Stopped
  <2>6. ~leader[m] => Started(m, w)'
    BY <2>1 DEF Started
  <2>7. Moves(t, m, w, p, timers[m], cached[m][w])
    BY <2>1, <2>2, <2>3, <2>4, <2>5, <2>6 DEF Moves, Handles
  <2> QED BY <2>1, <2>7, MovesFlow
<1>6. CASE StartTimers(t)
  <2> DEFINE p == After(t)
  <2>1. pc[t] = "start" /\ m \in Mains /\ w \in Flows /\ pc' = [pc EXCEPT ![t] = p]
        /\ leader' = leader /\ changed' = changed /\ tpc' = tpc /\ tset' = tset /\ job' = job
        /\ timers' = [timers EXCEPT ![m] = timers[m] \cup {w}] /\ cached' = cached
        /\ disturbed' = IF leader[m] THEN disturbed ELSE [disturbed EXCEPT ![m] = @ \cup {w}]
    BY <1>6, <1>m DEF StartTimers, Go, task, Handles
  <2>2. p \notin Handles
    BY <1>o
  <2> HIDE DEF p
  <2>3. cached' = [cached EXCEPT ![m][w] = cached[m][w]]
    BY ONLY <2>1, <1>e
  <2>4. timers[m] \cup {w} \subseteq Flows /\ w \in timers'[m]
    BY <2>1, <1>t
  <2>5. w \notin disturbed'[m] => leader[m] /\ w \notin disturbed[m]
    BY <2>1, <1>t
  <2>6. w \notin disturbed[m] => cached[m][w] # 0 /\ \A u \in Threads \ {t} : ~Handling(u, m, w)
    BY <2>1, <1>s DEF Handles
  <2>7. w \notin disturbed'[m] => Started(m, w)' /\ Stopped(m, w)'
    BY <2>1, <2>4, <2>5 DEF Started, Stopped
  <2>8. Moves(t, m, w, p, timers[m] \cup {w}, cached[m][w])
    BY <2>1, <2>2, <2>3, <2>4, <2>5, <2>6, <2>7 DEF Moves, Handles
  <2> QED BY <2>1, <2>8, MovesFlow
<1> QED BY <1>1, <1>2, <1>3, <1>4, <1>5, <1>6, <1>7, <1>8 DEF Registering

\* Nor is a workflow handled where a registration is refused.
LEMMA RefusedFlow ==
  ASSUME IInv, TaskInv, FlowInv, NEW t \in Threads, Refused(t)
  PROVE  TaskInv' /\ FlowInv'
<1>1. pc \in [Threads -> Pc] /\ job \in [Threads -> Job]
  BY Types
<1>2. pc[t] \notin Handles /\ pc'[t] \notin Handles
  BY <1>1 DEF Refused, GivesUp, Handles
<1>3. \A u \in Threads \ {t} : pc'[u] = pc[u] /\ job'[u] = job[u]
  BY <1>1 DEF Refused, GivesUp
<1> QED BY <1>2, <1>3, FlowStill DEF Refused, task

\* Handlers handle no workflow where they ask, save and ask again.
LEMMA RequestFlow ==
  ASSUME IInv, TaskInv, FlowInv, NEW r \in Requests,
         \/ Save(r) \/ Again(r)
         \/ \E m \in Mains, w \in Flows :
              \/ Activate(r, m, w) \/ Deactivate(r, m, w) \/ Delete(r, m, w)
              \/ \E want \in {"keep", "on", "off"} : Update(r, m, w, want)
  PROVE  TaskInv' /\ FlowInv'
<1>t. pc \in [Threads -> Pc] /\ job \in [Threads -> Job] /\ r \in Threads
  BY Types
<1>1. ASSUME NEW m, NEW w, NEW j, NEW to, Ask(r, m, w, j, to), to \in {"check", "unhook", "save"}
      PROVE  TaskInv' /\ FlowInv'
  BY <1>1, <1>t, FlowStill DEF Ask, Go, Handles, loops, task
<1>2. CASE Save(r)
  BY <1>2, <1>t, FlowStill DEF Save, Go, Handles, loops, task
<1>3. CASE Again(r)
  BY <1>3, <1>t, FlowStill DEF Again, Go, Handles, loops, task
<1>4. ASSUME NEW m \in Mains, NEW w \in Flows, Activate(r, m, w) PROVE TaskInv' /\ FlowInv'
  BY <1>1, <1>4 DEF Activate
<1>5. ASSUME NEW m \in Mains, NEW w \in Flows, Deactivate(r, m, w) PROVE TaskInv' /\ FlowInv'
  BY <1>1, <1>5 DEF Deactivate
<1>6. ASSUME NEW m \in Mains, NEW w \in Flows, Delete(r, m, w) PROVE TaskInv' /\ FlowInv'
  BY <1>1, <1>6 DEF Delete
<1>7. ASSUME NEW m \in Mains, NEW w \in Flows, NEW want, Update(r, m, w, want) PROVE TaskInv' /\ FlowInv'
  <2> DEFINE j == [NoJob EXCEPT !.version = asked + 2, !.active = row[w].active, !.want = want]
             to == IF row[w].active /\ want # "off" THEN "check" ELSE "save"
  <2>1. Ask(r, m, w, j, to)
    BY <1>7 DEF Update
  <2>2. to \in {"check", "unhook", "save"}
    OBVIOUS
  <2> HIDE DEF j, to
  <2> QED BY <1>1, <2>1, <2>2
<1> QED BY <1>2, <1>3, <1>4, <1>5, <1>6, <1>7

\* Neither does a loop where it reads rows and looks for the next one.
LEMMA LoopFlow ==
  ASSUME IInv, TaskInv, FlowInv, NEW m \in Mains, Loop(m) PROVE TaskInv' /\ FlowInv'
<1>t. /\ pc \in [Threads -> Pc] /\ job \in [Threads -> Job] /\ m \in Threads
      /\ tpc \in [Mains -> {"boot", "idle", "start", "stop"}]
  BY Types
<1>1. CASE ReadRows(m)
  BY <1>1, <1>t, FlowStill DEF ReadRows, Handles, task
<1>2. ASSUME NEW w \in Flows, Look(m, w) PROVE TaskInv' /\ FlowInv'
  <2>1. pc[m] = "next" /\ pc'[m] \in {"next", "check"}
    BY <1>2, <1>t DEF Look
  <2>2. \A u \in Threads \ {m} : pc'[u] = pc[u] /\ job'[u] = job[u]
    BY <1>2, <1>t DEF Look
  <2> QED BY <1>2, <1>t, <2>1, <2>2, FlowStill DEF Look, Handles, task
<1>3. CASE LookedAtAll(m)
  <2>1. pc[m] = "next" /\ pc'[m] \in {"idle", "stale"}
    BY <1>3, <1>t DEF LookedAtAll, Go
  <2>2. \A u \in Threads \ {m} : pc'[u] = pc[u] /\ job'[u] = job[u]
    BY <1>3, <1>t DEF LookedAtAll, Go
  <2>3. \A n \in Mains : tpc'[n] = tpc[n] \/ (tpc[n] \in {"boot", "idle"} /\ tpc'[n] \in {"boot", "idle"})
    BY <1>3, <1>t DEF LookedAtAll
  <2> QED BY <1>3, <1>t, <2>1, <2>2, <2>3, FlowStill DEF LookedAtAll, Handles
<1>4. ASSUME NEW w \in Flows, Drop(m, w) PROVE TaskInv' /\ FlowInv'
  BY <1>4, <1>t, FlowStill DEF Drop, Go, Handles, task
<1>5. CASE SyncOver(m)
  BY <1>5, <1>t, FlowStill DEF SyncOver, Go, Handles, loops, task
<1> QED BY <1>1, <1>2, <1>3, <1>4, <1>5 DEF Loop

\* A step of the leadership task of main m, or a turn of it.
LEMMA FlowOfTask ==
  ASSUME FlowInv, NEW m \in Mains,
         pc' = pc, job' = job, cached' = cached, disturbed' \in [Mains -> SUBSET Flows],
         \A n \in Mains \ {m} :
           /\ leader'[n] = leader[n] /\ changed'[n] = changed[n] /\ tpc'[n] = tpc[n]
           /\ tset'[n] = tset[n] /\ timers'[n] = timers[n],
         \A n \in Mains : disturbed[n] \subseteq disturbed'[n],
         \A w \in Flows \ disturbed'[m] :
           /\ w \in timers'[m] => w \in timers[m] \/ cached[m][w] # 0
           /\ Stopped(m, w) => Stopped(m, w)'
           /\ Started(m, w) /\ (w \in timers[m] => cached[m][w] # 0) => Started(m, w)'
  PROVE  FlowInv'
<1>1. \A t \in Threads, n \in Mains, w \in Flows : Handling(t, n, w)' <=> Handling(t, n, w)
  BY DEF Handling
<1>2. ASSUME NEW n \in Mains \ {m}, NEW w \in Flows \ disturbed'[n] PROVE Flow(n, w)'
  <2>1. Flow(n, w)
    BY DEF FlowInv
  <2> QED BY <1>1, <2>1, FlowKept
<1>3. ASSUME NEW w \in Flows \ disturbed'[m] PROVE Flow(m, w)'
  <2>1. Alone(m, w) /\ Phase(m, w) /\ Quiet(m, w)
    BY DEF FlowInv, Flow
  <2>2. Alone(m, w)'
    BY <1>1, <2>1 DEF Alone
  <2>3. Phase(m, w)'
    BY <1>1, <2>1 DEF Phase
  <2>4. Quiet(m, w)'
    BY <1>1, <2>1 DEF Quiet
  <2> QED BY <2>2, <2>3, <2>4 DEF Flow
<1> QED BY <1>2, <1>3 DEF FlowInv

\* A takeover starts what is cached and a stepdown stops what has timers,
\* unless a thread took the workflow away meanwhile, which disturbs it.
LEMMA TaskFlow ==
  ASSUME IInv, TaskInv, FlowInv, NEW m \in Mains, Task(m) \/ \E lead \in BOOLEAN : Turn(m, lead)
  PROVE  TaskInv' /\ FlowInv'
<1>t. /\ cached \in [Mains -> [Flows -> Versions]] /\ timers \in [Mains -> SUBSET Flows]
      /\ leader \in [Mains -> BOOLEAN] /\ changed \in [Mains -> BOOLEAN]
      /\ tpc \in [Mains -> {"boot", "idle", "start", "stop"}] /\ tset \in [Mains -> SUBSET Flows]
      /\ disturbed \in [Mains -> SUBSET Flows]
  BY Types
<1>1. ASSUME NEW lead \in BOOLEAN, Turn(m, lead) PROVE TaskInv' /\ FlowInv'
  <2>1. changed'[m] /\ \A n \in Mains \ {m} : leader'[n] = leader[n] /\ changed'[n] = changed[n]
    BY <1>1, <1>t DEF Turn
  <2>2. TaskInv'
    BY <1>1, <2>1 DEF TaskInv, Turn, task
  <2>3. \A w \in Flows : Stopped(m, w)' /\ Started(m, w)'
    BY <2>1 DEF Stopped, Started
  <2>4. FlowInv'
    BY <1>1, <1>t, <2>1, <2>3, FlowOfTask DEF Turn, task
  <2> QED BY <2>2, <2>4
<1>2. CASE Wake(m)
  <2>1. /\ tpc[m] = "idle" /\ changed[m] /\ ~changed'[m]
        /\ tpc'[m] = IF leader[m] THEN "start" ELSE "stop"
        /\ tset'[m] = IF leader[m] THEN {w \in Flows : cached[m][w] # 0} ELSE timers[m]
        /\ \A n \in Mains \ {m} : changed'[n] = changed[n] /\ tpc'[n] = tpc[n] /\ tset'[n] = tset[n]
    BY <1>2, <1>t DEF Wake
  <2>2. TaskInv'
    BY <1>2, <2>1 DEF TaskInv, Wake
  <2>3. \A w \in Flows : Stopped(m, w)' /\ Started(m, w)'
    BY <1>2, <2>1 DEF Stopped, Started, Wake
  <2>4. FlowInv'
    BY <1>2, <1>t, <2>1, <2>3, FlowOfTask DEF Wake
  <2> QED BY <2>2, <2>4
<1>3. ASSUME NEW w \in Flows, Takeover(m, w) PROVE TaskInv' /\ FlowInv'
  <2>1. /\ tpc[m] = "start" /\ w \in tset[m]
        /\ tset'[m] = tset[m] \ {w} /\ timers'[m] = timers[m] \cup {w}
        /\ \A n \in Mains \ {m} : tset'[n] = tset[n] /\ timers'[n] = timers[n]
        /\ leader' = leader /\ changed' = changed /\ tpc' = tpc /\ cached' = cached /\ pc' = pc /\ job' = job
    BY <1>3, <1>t DEF Takeover
  <2>2. /\ disturbed' \in [Mains -> SUBSET Flows]
        /\ \A n \in Mains : disturbed[n] \subseteq disturbed'[n]
        /\ w \notin disturbed'[m] => cached[m][w] # 0
    BY <1>3, <1>t DEF Takeover
  <2>3. TaskInv'
    BY <2>1 DEF TaskInv
  <2>4. ~changed[m] => leader[m]
    BY <2>1 DEF TaskInv
  <2>5. \A v \in Flows : Stopped(m, v)'
    BY <2>1, <2>4 DEF Stopped
  <2>6. \A v \in Flows : Started(m, v) => Started(m, v)'
    BY <2>1 DEF Started
  <2>7. \A v \in Flows \ disturbed'[m] : v \in timers'[m] => v \in timers[m] \/ cached[m][v] # 0
    BY <2>1, <2>2
  <2>8. FlowInv'
    BY <2>1, <2>2, <2>5, <2>6, <2>7, FlowOfTask
  <2> QED BY <2>3, <2>8
<1>4. ASSUME NEW w \in Flows, Stepdown(m, w) PROVE TaskInv' /\ FlowInv'
  <2>1. /\ tpc[m] = "stop" /\ w \in tset[m]
        /\ tset'[m] = tset[m] \ {w} /\ timers'[m] = timers[m] \ {w}
        /\ \A n \in Mains \ {m} : tset'[n] = tset[n] /\ timers'[n] = timers[n]
        /\ leader' = leader /\ changed' = changed /\ tpc' = tpc /\ cached' = cached /\ pc' = pc /\ job' = job
        /\ disturbed' = disturbed
    BY <1>4, <1>t DEF Stepdown
  <2>2. TaskInv'
    BY <2>1 DEF TaskInv
  <2>3. ~changed[m] => ~leader[m]
    BY <2>1 DEF TaskInv
  <2>4. \A v \in Flows : Stopped(m, v) => Stopped(m, v)'
    BY <2>1 DEF Stopped
  <2>5. \A v \in Flows : Started(m, v)'
    BY <2>1, <2>3 DEF Started
  <2>6. FlowInv'
    BY <2>1, <2>4, <2>5, <1>t, FlowOfTask
  <2> QED BY <2>2, <2>6
<1>5. CASE TaskOver(m)
  <2>1. /\ tpc[m] \in {"start", "stop"} /\ tset[m] = {} /\ tpc'[m] = "idle"
        /\ \A n \in Mains \ {m} : tpc'[n] = tpc[n]
        /\ leader' = leader /\ changed' = changed /\ cached' = cached /\ pc' = pc /\ job' = job
        /\ disturbed' = disturbed /\ tset' = tset /\ timers' = timers
    BY <1>5, <1>t DEF TaskOver
  <2>2. TaskInv'
    BY <2>1 DEF TaskInv
  <2>3. \A v \in Flows : Stopped(m, v) => Stopped(m, v)'
    BY <2>1 DEF Stopped
  <2>4. \A v \in Flows : Started(m, v) => Started(m, v)'
    BY <2>1 DEF Started
  <2>5. FlowInv'
    BY <2>1, <2>3, <2>4, <1>t, FlowOfTask
  <2> QED BY <2>2, <2>5
<1> QED BY <1>1, <1>2, <1>3, <1>4, <1>5 DEF Task

LEMMA StillFlow ==
  ASSUME IInv, TaskInv, FlowInv, UNCHANGED vars \/ \E w \in Flows, active \in BOOLEAN, version \in Versions :
           SaveElsewhere(w, active, version)
  PROVE  TaskInv' /\ FlowInv'
<1>1. /\ cached' = cached /\ timers' = timers /\ leader' = leader /\ changed' = changed
      /\ tset' = tset /\ tpc' = tpc /\ disturbed' = disturbed /\ pc' = pc /\ job' = job
  BY DEF SaveElsewhere, vars, loops, task
<1>2. TaskInv'
  BY <1>1 DEF TaskInv
<1>3. \A t \in Threads, m \in Mains, w \in Flows : Handling(t, m, w)' <=> Handling(t, m, w)
  BY <1>1 DEF Handling
<1>4. ASSUME NEW m \in Mains, NEW w \in Flows \ disturbed'[m] PROVE Flow(m, w)'
  <2>1. Flow(m, w)
    BY <1>1 DEF FlowInv
  <2> QED BY <1>1, <1>3, <2>1, FlowKept
<1> QED BY <1>2, <1>4 DEF FlowInv

LEMMA NextFlow == ASSUME IInv, TaskInv, FlowInv, [Next]_vars PROVE TaskInv' /\ FlowInv'
<1>1. ASSUME NEW r \in Requests, NEW m \in Mains, NEW w \in Flows,
             \/ Activate(r, m, w) \/ Deactivate(r, m, w) \/ Delete(r, m, w)
             \/ \E want \in {"keep", "on", "off"} : Update(r, m, w, want)
      PROVE  TaskInv' /\ FlowInv'
  BY <1>1, RequestFlow
<1>2. ASSUME NEW r \in Requests, Save(r) \/ Again(r) PROVE TaskInv' /\ FlowInv'
  BY <1>2, RequestFlow
<1>3. ASSUME NEW t \in Threads, Registering(t) \/ Refused(t) PROVE TaskInv' /\ FlowInv'
  BY <1>3, RegisteringFlow, RefusedFlow
<1>4. ASSUME NEW w \in Flows, NEW active \in BOOLEAN, NEW version \in Versions,
             SaveElsewhere(w, active, version)
      PROVE  TaskInv' /\ FlowInv'
  BY <1>4, StillFlow
<1>5. ASSUME NEW m \in Mains, Loop(m) PROVE TaskInv' /\ FlowInv'
  BY <1>5, LoopFlow
<1>6. ASSUME NEW m \in Mains, Task(m) \/ \E lead \in BOOLEAN : Turn(m, lead)
      PROVE  TaskInv' /\ FlowInv'
  BY <1>6, TaskFlow
<1> QED BY <1>1, <1>2, <1>3, <1>4, <1>5, <1>6, StillFlow DEF Next

LEMMA InitFlow == Init => TaskInv /\ FlowInv
<1> SUFFICES ASSUME Init PROVE TaskInv /\ FlowInv
  OBVIOUS
<1>1. TaskInv
  BY DEF Init, TaskInv
<1>2. ASSUME NEW m \in Mains, NEW w \in Flows PROVE Flow(m, w)
  <2>1. \A t \in Threads : ~Handling(t, m, w)
    BY DEF Init, Handling, Handles
  <2>2. cached[m][w] = 0 /\ w \notin timers[m]
    BY DEF Init
  <2> QED BY <2>1, <2>2 DEF Flow, Alone, Phase, Quiet, Started, Stopped
<1> QED BY <1>1, <1>2 DEF FlowInv

\* Timers run on the leader alone (activation.rs 207-212): for any
\* number of mains, workflows, requests and changes of leadership, a main at
\* rest has the timers of a workflow exactly if it leads and has it in its
\* cache, unless two of its tasks handled the workflow at once.
THEOREM TimersFollow == Spec => []TimersFollowLeader
<1>1. Init => IInv /\ TaskInv /\ FlowInv
  BY InitIInv, InitFlow
<1>2. IInv /\ TaskInv /\ FlowInv /\ [Next]_vars => (IInv /\ TaskInv /\ FlowInv)'
  BY NextIInv, NextFlow
<1>3. ASSUME IInv, FlowInv PROVE TimersFollowLeader
  <2> SUFFICES ASSUME NEW m \in Mains, Settled(m), NEW w \in Flows \ disturbed[m]
               PROVE  w \in timers[m] <=> leader[m] /\ cached[m][w] # 0
    BY DEF TimersFollowLeader
  <2>1. \A t \in Threads : ~Handling(t, m, w)
    BY DEF Settled, Handling
  <2>2. (w \in timers[m] => cached[m][w] # 0) /\ Started(m, w) /\ Stopped(m, w)
    BY <1>3, <2>1 DEF FlowInv, Flow, Quiet
  <2>3. leader[m] \in BOOLEAN
    BY <1>3, Types
  <2> QED BY <2>2, <2>3 DEF Started, Stopped, Settled
<1> QED BY <1>1, <1>2, <1>3, PTL DEF Spec
=============================================================================
