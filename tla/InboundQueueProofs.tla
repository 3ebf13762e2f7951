------------------------- MODULE InboundQueueProofs -------------------------
(***************************************************************************)
(* Proofs about InboundQueue for any sets of claims and workers and any    *)
(* bounds: type correctness, NothingLost, ReleaseJustified,                *)
(* DeadLetterEarned, and that the queue implements the safety part of      *)
(* DurableInbox; and, where the reclaim age exceeds the time of a batch,   *)
(* OneWorkerPerMessage, AtMostOneReply, AttemptBudget, TerminalNotRetried. *)
(***************************************************************************)
EXTENDS InboundQueue, OrderLemmas, FiniteSetTheorems

(* What a step may do to the stream without touching who waits for what.   *)
SameClaims ==
  /\ stream' \in Seq(Entry)
  /\ Len(stream') = Len(stream)
  /\ \A i \in Ids : /\ stream'[i].claim = stream[i].claim
                   /\ stream'[i].attempts = stream[i].attempts

SameEntries ==
  /\ SameClaims
  /\ \A i \in Ids : stream'[i].acked = stream[i].acked

-----------------------------------------------------------------------------
(* The loop head is an entry of the loop.                                  *)
LEMMA CurrentInTodo ==
  ASSUME TypeOK, NEW w \in Workers, worker[w].todo # {}
  PROVE  Current(w) \in worker[w].todo
<1>1. worker[w].todo \in SUBSET Nat
  BY DEF TypeOK, Worker
<1>2. \E i \in worker[w].todo : \A j \in worker[w].todo : i <= j
  BY <1>1, MinExists
<1> QED BY <1>2 DEF Current

(* XADD appends one entry, leaves the others alone, and trims only beyond  *)
(* the ceiling.                                                            *)
LEMMA XADDAppends ==
  ASSUME TypeOK, NEW e \in Entry, XADD(e)
  PROVE  /\ stream' \in Seq(Entry)
         /\ Len(stream') = Len(stream) + 1
         /\ \A i \in Ids : stream'[i] = stream[i]
         /\ stream'[Len(stream) + 1] = e
         /\ trimmed' \in 0..Len(stream')
         /\ trimmed <= trimmed'
         /\ trimmed' > trimmed => Len(stream') - trimmed' >= MAX_STREAM_LENGTH
<1>1. stream \in Seq(Entry) /\ Len(stream) \in Nat /\ trimmed \in 0..Len(stream)
  BY DEF TypeOK
<1>2. stream' = Append(stream, e)
  BY DEF XADD
<1>3. /\ stream' \in Seq(Entry)
      /\ Len(stream') = Len(stream) + 1
      /\ \A i \in Ids : stream'[i] = stream[i]
      /\ stream'[Len(stream) + 1] = e
  BY <1>1, <1>2 DEF Ids
<1>4. PICK k \in trimmed..Len(stream) :
        /\ k > trimmed => Len(stream) + 1 - k >= MAX_STREAM_LENGTH
        /\ trimmed' = k
  BY DEF XADD
<1> QED BY <1>1, <1>3, <1>4

(* XACK changes one entry's acknowledgement and nothing else.              *)
LEMMA XACKMarks ==
  ASSUME TypeOK, NEW i \in Ids, XACK(i)
  PROVE  /\ SameClaims
         /\ stream'[i].acked = TRUE
         /\ \A j \in Ids : j # i => stream'[j].acked = stream[j].acked
<1>1. stream \in Seq(Entry) /\ Len(stream) \in Nat
  BY DEF TypeOK
<1>2. stream' = [stream EXCEPT ![i].acked = TRUE]
  BY DEF XACK
<1>3. stream[i] \in Entry
  BY <1>1 DEF Ids
<1> DEFINE e == [stream[i] EXCEPT !.acked = TRUE]
<1>4. e \in Entry /\ e.claim = stream[i].claim /\ e.attempts = stream[i].attempts /\ e.acked = TRUE
  BY <1>3 DEF Entry
<1>5. stream' = [stream EXCEPT ![i] = e]
  BY <1>2
<1> HIDE DEF e
<1>6. /\ stream' \in Seq(Entry) /\ Len(stream') = Len(stream)
      /\ stream'[i] = e
      /\ \A j \in Ids : j # i => stream'[j] = stream[j]
  BY <1>1, <1>4, <1>5 DEF Ids
<1> QED BY <1>4, <1>6 DEF SameClaims

(* Delivery and the passing of time only touch idle times.                 *)
LEMMA DeliverKeepsEntries ==
  ASSUME TypeOK, NEW S, Deliver(S)
  PROVE  SameEntries
<1>1. stream \in Seq(Entry) /\ Len(stream) \in Nat
  BY DEF TypeOK
<1> DEFINE f == [i \in Ids |-> IF i \in S THEN [stream[i] EXCEPT !.idle = 0] ELSE stream[i]]
<1>2. ASSUME NEW i \in Ids
      PROVE  /\ f[i] \in Entry
             /\ f[i].claim = stream[i].claim /\ f[i].attempts = stream[i].attempts
             /\ f[i].acked = stream[i].acked
  <2>1. stream[i] \in Entry
    BY <1>1 DEF Ids
  <2>2. 0 \in 0..MIN_IDLE
    BY QueueAssumption
  <2>3. [stream[i] EXCEPT !.idle = 0] \in Entry
    BY <2>1, <2>2 DEF Entry
  <2>4. /\ [stream[i] EXCEPT !.idle = 0].claim = stream[i].claim
        /\ [stream[i] EXCEPT !.idle = 0].attempts = stream[i].attempts
        /\ [stream[i] EXCEPT !.idle = 0].acked = stream[i].acked
    BY <2>1 DEF Entry
  <2> QED BY <2>1, <2>3, <2>4
<1>3. f \in [1..Len(stream) -> Entry]
  BY <1>2 DEF Ids
<1>4. f \in Seq(Entry) /\ Len(f) = Len(stream)
  <2> HIDE DEF f
  <2> QED BY <1>1, <1>3, SeqOfFunction
<1>5. stream' = f
  BY DEF Deliver
<1> QED BY <1>2, <1>4, <1>5 DEF SameEntries, SameClaims

(* A tick makes entries older and changes nothing else of them: which      *)
(* message an entry is for and whether it was acknowledged (XACK) stay.    *)
LEMMA TickKeepsEntries ==
  ASSUME TypeOK, Tick
  PROVE  SameEntries
<1>1. stream \in Seq(Entry) /\ Len(stream) \in Nat
  BY DEF TypeOK
<1> DEFINE f == [i \in Ids |->
       IF i \in Pending /\ stream[i].idle < MIN_IDLE
         THEN [stream[i] EXCEPT !.idle = @ + 1] ELSE stream[i]]
<1>2. ASSUME NEW i \in Ids
      PROVE  /\ f[i] \in Entry
             /\ f[i].claim = stream[i].claim /\ f[i].attempts = stream[i].attempts
             /\ f[i].acked = stream[i].acked
  <2>0. stream[i] \in Entry
    BY <1>1 DEF Ids
  <2>1. stream[i] \in Entry /\ stream[i].idle \in 0..MIN_IDLE
    BY <2>0 DEF Entry
  <2>2. stream[i].idle < MIN_IDLE => stream[i].idle + 1 \in 0..MIN_IDLE
    BY <2>1, QueueAssumption
  <2> DEFINE aged == [stream[i] EXCEPT !.idle = @ + 1]
  <2>3. stream[i].idle < MIN_IDLE => aged \in Entry
    BY <2>1, <2>2 DEF Entry
  <2>4. aged.claim = stream[i].claim /\ aged.acked = stream[i].acked
        /\ aged.attempts = stream[i].attempts
    BY <2>1 DEF Entry
  <2> QED BY <2>1, <2>3, <2>4
<1>3. f \in [1..Len(stream) -> Entry]
  BY <1>2 DEF Ids
<1>4. f \in Seq(Entry) /\ Len(f) = Len(stream)
  <2> HIDE DEF f
  <2> QED BY <1>1, <1>3, SeqOfFunction
<1>5. stream' = f
  BY DEF Tick
<1> QED BY <1>2, <1>4, <1>5 DEF SameEntries, SameClaims

-----------------------------------------------------------------------------
(* The pass counter of run_forever stays below RECLAIM_EVERY_PASSES.       *)
LEMMA NextPassInRange ==
  ASSUME TypeOK, NEW w \in Workers
  PROVE  NextPass(w) \in 0..(RECLAIM_EVERY_PASSES - 1)
<1>1. worker[w].pass \in Nat
  BY QueueAssumption DEF TypeOK, Worker
<1>2. RECLAIM_EVERY_PASSES \in Nat \ {0}
  BY QueueAssumption
<1> QED BY <1>1, <1>2 DEF NextPass

(* A worker that goes on to another Redis call keeps the entries it holds, *)
(* and no other worker is touched.                                         *)
LEMMA GotoMoves ==
  ASSUME TypeOK, NEW w \in Workers, NEW pc \in PC, Goto(w, pc)
  PROVE  /\ worker' \in [Workers -> Worker]
         /\ worker'[w].pc = pc
         /\ worker'[w].todo = worker[w].todo
         /\ worker'[w].mode = worker[w].mode /\ worker'[w].spent = 0
         /\ \A v \in Workers : v # w => worker'[v] = worker[v]
<1> DEFINE r == [worker[w] EXCEPT !.pc = pc, !.spent = 0]
<1>1. worker \in [Workers -> Worker] /\ worker[w] \in Worker
  BY DEF TypeOK
<1>2. /\ r \in Worker /\ r.pc = pc /\ r.todo = worker[w].todo
      /\ r.mode = worker[w].mode /\ r.spent = 0
  BY <1>1 DEF Worker
<1>3. worker' = [worker EXCEPT ![w] = r]
  BY DEF Goto
<1> HIDE DEF r
<1> QED BY <1>1, <1>2, <1>3

(* A worker that enters or continues one of the two loops of run_once      *)
(* holds exactly the entries the loop still has, and is inside it only     *)
(* while there are any.                                                    *)
LEMMA LoopMoves ==
  ASSUME TypeOK, NEW w \in Workers, NEW mode \in {"sweep", "turn"},
         NEW todo \in SUBSET Nat, Loop(w, mode, todo)
  PROVE  /\ worker' \in [Workers -> Worker]
         /\ worker'[w].pc \in {"fetch", "poll", "sweep", "turn"}
         /\ worker'[w].pc \notin {"poll", "fetch", "down"} => todo # {}
         /\ worker'[w].pc \in {"poll", "fetch", "down"} => todo = {}
         /\ worker'[w].pc \notin {"poll", "fetch", "down"} => worker'[w].pc = mode
         /\ worker'[w].todo = todo
         /\ worker'[w].mode = mode /\ worker'[w].spent = 0
         /\ \A v \in Workers : v # w => worker'[v] = worker[v]
<1> DEFINE p == CASE todo # {} -> mode
                  [] todo = {} /\ mode = "sweep" -> "fetch"
                  [] todo = {} /\ mode = "turn" -> "poll"
           q == IF todo = {} /\ mode = "turn" THEN NextPass(w) ELSE worker[w].pass
           r == [worker[w] EXCEPT !.mode = mode, !.todo = todo, !.spent = 0,
                                  !.pc = p, !.pass = q]
<1>1. worker \in [Workers -> Worker] /\ worker[w] \in Worker
  BY DEF TypeOK
<1>2. /\ p \in {"fetch", "poll", "sweep", "turn"}
      /\ p \notin {"poll", "fetch", "down"} => todo # {} /\ p = mode
      /\ p \in {"poll", "fetch", "down"} => todo = {}
  OBVIOUS
<1>3. q \in 0..(RECLAIM_EVERY_PASSES - 1)
  BY <1>1, NextPassInRange DEF Worker
<1>4. worker' = [worker EXCEPT ![w] = r]
  BY DEF Loop
<1> HIDE DEF p, q
<1>5. r \in Worker /\ r.pc = p /\ r.todo = todo /\ r.mode = mode /\ r.spent = 0
  BY <1>1, <1>2, <1>3 DEF Worker, PC
<1> HIDE DEF r
<1> QED BY <1>1, <1>2, <1>4, <1>5

-----------------------------------------------------------------------------
(* A step that keeps every entry, closes no message less, and sends no     *)
(* worker to "release" without a reason, keeps the coverage of entries.    *)
LEMMA CoverageKept ==
  ASSUME IInv, SameEntries, settled \subseteq settled', dead \subseteq dead',
         \A v \in Workers : worker'[v].pc = "release" =>
           /\ worker'[v].todo = worker[v].todo
           /\ \/ worker[v].pc = "release"
              \/ CurrentEntry(v).claim \in settled' \cup dead'
         , HoldsEntries'
  PROVE  Covered' /\ ReleaseJustified'
<1>1. Ids' = Ids
  BY DEF SameEntries, SameClaims, Ids
<1>2. \A c : Closed(c) => Closed(c)'
  BY DEF Closed
<1>3. Covered'
  BY <1>1, <1>2 DEF IInv, Covered, SameEntries, SameClaims
<1>4. ASSUME NEW v \in Workers, worker'[v].pc = "release"
      PROVE  \/ Closed(CurrentEntry(v).claim)'
             \/ \E j \in Ids' : /\ j > Current(v)'
                                /\ stream'[j].claim = CurrentEntry(v)'.claim
                                /\ ~stream'[j].acked
  <2>1. Current(v)' = Current(v)
    BY <1>4 DEF Current
  <2>2. Current(v) \in Ids
    BY <1>4, CurrentInTodo DEF IInv, HoldsEntries
  <2>3. CurrentEntry(v)'.claim = CurrentEntry(v).claim
    BY <2>1, <2>2 DEF CurrentEntry, SameEntries, SameClaims
  <2>4. CASE worker[v].pc = "release"
    BY <1>1, <1>2, <2>1, <2>3, <2>4 DEF IInv, ReleaseJustified, SameEntries, SameClaims
  <2>5. CASE CurrentEntry(v).claim \in settled' \cup dead'
    BY <2>3, <2>5 DEF Closed
  <2> QED BY <1>4, <2>4, <2>5
<1>5. ReleaseJustified'
  BY <1>4 DEF ReleaseJustified
<1> QED BY <1>3, <1>5

(* A step of one worker that leaves every entry alone (reads, turns,       *)
(* replies, crashes) preserves the invariant.                              *)
LEMMA KeepingStep ==
  ASSUME IInv, SameEntries, NEW w \in Workers,
         worker' \in [Workers -> Worker],
         \A v \in Workers : v # w => worker'[v] = worker[v],
         worker'[w].todo \subseteq Ids,
         worker'[w].pc \notin {"poll", "fetch", "down"} => worker'[w].todo # {},
         worker'[w].pc = "release" =>
           /\ worker'[w].todo = worker[w].todo
           /\ CurrentEntry(w).claim \in settled' \cup dead',
         delivered' \in 0..Len(stream), trimmed' = trimmed,
         settled \subseteq settled', settled' \subseteq Claims,
         dead \subseteq dead', dead' \subseteq Claims, letters' \in Seq(Claims),
         replies' \in [Claims -> Nat], faults' \in 0..MaxFaults
  PROVE  IInv'
<1>1. Len(stream') = Len(stream) /\ Ids' = Ids
  BY DEF SameEntries, SameClaims, Ids
<1>2. TypeOK'
  BY <1>1 DEF IInv, TypeOK, SameEntries, SameClaims
<1>3. HoldsEntries'
  BY <1>1 DEF IInv, HoldsEntries
<1>4. TrimCeiling'
  BY <1>1 DEF IInv, TrimCeiling
<1>5. Covered' /\ ReleaseJustified'
  BY <1>3, CoverageKept
<1> QED BY <1>2, <1>3, <1>4, <1>5 DEF IInv

(* A retry that appends a fresh entry (reclaim_stale) preserves the        *)
(* invariant, trimming included: the new entry covers its message.         *)
LEMMA AppendingStep ==
  ASSUME IInv, NEW e \in Entry, XADD(e), ~e.acked,
         worker' \in [Workers -> Worker],
         \A v \in Workers : worker'[v].todo = worker[v].todo,
         \A v \in Workers : worker'[v].pc \in {"poll", "fetch", "down"}
                              <=> worker[v].pc \in {"poll", "fetch", "down"},
         \A v \in Workers : worker'[v].pc = "release" =>
           worker[v].pc = "release" \/ (worker[v].todo # {} /\ CurrentEntry(v).claim = e.claim),
         UNCHANGED <<delivered, settled, dead, letters, replies, faults>>
  PROVE  IInv'
<1> DEFINE n == Len(stream) + 1
<1>1. /\ stream' \in Seq(Entry)
      /\ Len(stream') = n
      /\ \A i \in Ids : stream'[i] = stream[i]
      /\ stream'[n] = e
      /\ trimmed' \in 0..Len(stream')
      /\ trimmed' > trimmed => Len(stream') - trimmed' >= MAX_STREAM_LENGTH
      /\ trimmed <= trimmed'
  BY XADDAppends DEF IInv
<1>2. /\ Len(stream) \in Nat /\ trimmed \in 0..Len(stream)
      /\ n \in Nat /\ Ids' = Ids \cup {n} /\ \A i \in Ids : i < n
  BY <1>1 DEF IInv, TypeOK, Ids
<1>3. TypeOK'
  BY <1>1, <1>2 DEF IInv, TypeOK
<1>4. HoldsEntries'
  BY <1>2 DEF IInv, HoldsEntries
<1>5. TrimCeiling'
  BY <1>1, <1>2, QueueAssumption DEF IInv, TrimCeiling
<1>6. Covered'
  BY <1>1, <1>2 DEF IInv, Covered, Closed
<1>7. ASSUME NEW v \in Workers, worker'[v].pc = "release"
      PROVE  \/ Closed(CurrentEntry(v).claim)'
             \/ \E j \in Ids' : /\ j > Current(v)'
                                /\ stream'[j].claim = CurrentEntry(v)'.claim
                                /\ ~stream'[j].acked
  <2>1. Current(v)' = Current(v)
    BY DEF Current
  <2>2. Current(v) \in Ids
    BY <1>7, CurrentInTodo DEF IInv, HoldsEntries
  <2>3. CurrentEntry(v)' = CurrentEntry(v)
    BY <1>1, <2>1, <2>2 DEF CurrentEntry
  <2>4. CASE worker[v].pc = "release"
    <3>1. CASE Closed(CurrentEntry(v).claim)
      BY <2>3, <3>1 DEF Closed
    <3>2. CASE \E j \in Ids : /\ j > Current(v)
                             /\ stream[j].claim = CurrentEntry(v).claim
                             /\ ~stream[j].acked
      BY <1>1, <1>2, <2>1, <2>3, <3>2
    <3> QED BY <2>4, <3>1, <3>2 DEF IInv, ReleaseJustified
  <2>5. CASE CurrentEntry(v).claim = e.claim
    BY <1>1, <1>2, <2>1, <2>2, <2>3, <2>5
  <2> QED BY <1>7, <2>4, <2>5
<1>8. ReleaseJustified'
  BY <1>7 DEF ReleaseJustified
<1> QED BY <1>3, <1>4, <1>5, <1>6, <1>8 DEF IInv

(* Acknowledging the current entry preserves the invariant, because at     *)
(* "release" its message is closed or has a younger entry.                 *)
LEMMA AcknowledgingStep ==
  ASSUME IInv, NEW w \in Workers, worker[w].todo # {},
         XACK(Current(w)), Advance(w), worker[w].mode \in {"sweep", "turn"},
         \/ worker[w].pc = "release"
         \/ CurrentEntry(w).claim \in Undecodable,
         UNCHANGED <<delivered, trimmed, settled, dead, letters, replies, faults>>
  PROVE  IInv'
<1> DEFINE i == Current(w)
<1>1. i \in worker[w].todo /\ i \in Ids
  BY CurrentInTodo DEF IInv, HoldsEntries
<1>2. /\ SameClaims
      /\ stream'[i].acked = TRUE
      /\ \A j \in Ids : j # i => stream'[j].acked = stream[j].acked
  BY <1>1, XACKMarks DEF IInv
<1>3. Ids' = Ids /\ Len(stream') = Len(stream) /\ \A k \in Ids : k \in Nat
  BY <1>2 DEF SameClaims, Ids
<1>4. /\ worker' \in [Workers -> Worker]
      /\ worker'[w].pc \in {"fetch", "poll", "sweep", "turn"}
      /\ worker'[w].pc \notin {"poll", "fetch", "down"} => worker[w].todo \ {i} # {}
      /\ worker'[w].todo = worker[w].todo \ {i}
      /\ \A v \in Workers : v # w => worker'[v] = worker[v]
  <2>1. worker[w].todo \ {i} \in SUBSET Nat
    BY DEF IInv, TypeOK, Worker
  <2>2. Loop(w, worker[w].mode, worker[w].todo \ {i})
    BY DEF Advance
  <2> HIDE DEF i
  <2> QED BY <2>1, <2>2, LoopMoves DEF IInv
<1>5. TypeOK'
  BY <1>2, <1>3, <1>4 DEF IInv, TypeOK, SameClaims
<1>6. HoldsEntries'
  BY <1>3, <1>4 DEF IInv, HoldsEntries
<1>7. TrimCeiling'
  BY <1>3 DEF IInv, TrimCeiling
<1>8. \A c : Closed(c)' <=> Closed(c)
  BY DEF Closed
<1>9. \/ Closed(stream[i].claim)
      \/ \E j \in Ids : j > i /\ stream[j].claim = stream[i].claim /\ ~stream[j].acked
  BY DEF IInv, ReleaseJustified, CurrentEntry, Closed
<1>10. ASSUME NEW j \in Ids, ~stream[j].acked
       PROVE  \/ Closed(stream[j].claim)
              \/ \E k \in Ids : /\ k >= j /\ stream'[k].claim = stream[j].claim
                                /\ ~stream'[k].acked
  <2>1. CASE j = i
    <3>1. CASE \E k \in Ids : k > i /\ stream[k].claim = stream[i].claim /\ ~stream[k].acked
      <4>1. PICK k \in Ids : k > i /\ stream[k].claim = stream[i].claim /\ ~stream[k].acked
        BY <3>1
      <4>2. k \in Nat /\ i \in Nat /\ k # i /\ k >= i
        BY <1>1, <1>3, <4>1
      <4>3. stream'[k].claim = stream[j].claim /\ ~stream'[k].acked
        BY <1>2, <2>1, <4>1, <4>2 DEF SameClaims
      <4> QED BY <2>1, <4>2, <4>3
    <3> QED BY <1>9, <2>1, <3>1
  <2>2. CASE j # i
    <3>1. stream'[j].claim = stream[j].claim /\ ~stream'[j].acked
      BY <1>2, <1>10, <2>2 DEF SameClaims
    <3>2. j \in Nat /\ j >= j
      BY <1>3
    <3> QED BY <3>1, <3>2
  <2> QED BY <2>1, <2>2
<1>11. Covered'
  <2> SUFFICES ASSUME NEW k \in Ids, ~Closed(stream[k].claim)
               PROVE  \E j \in Ids : stream'[j].claim = stream[k].claim /\ ~stream'[j].acked
    BY <1>2, <1>3, <1>8 DEF Covered, SameClaims
  <2>1. PICK j \in Ids : stream[j].claim = stream[k].claim /\ ~stream[j].acked
    BY DEF IInv, Covered
  <2> QED BY <1>10, <2>1
<1>12. ASSUME NEW v \in Workers, worker'[v].pc = "release"
       PROVE  \/ Closed(CurrentEntry(v).claim)'
              \/ \E j \in Ids' : /\ j > Current(v)'
                                 /\ stream'[j].claim = CurrentEntry(v)'.claim
                                 /\ ~stream'[j].acked
  <2>1. v # w /\ worker'[v] = worker[v]
    BY <1>4, <1>12
  <2>2. Current(v)' = Current(v)
    BY <2>1 DEF Current
  <2>3. Current(v) \in Ids
    BY <1>12, <2>1, CurrentInTodo DEF IInv, HoldsEntries
  <2>4. CurrentEntry(v)'.claim = CurrentEntry(v).claim
    BY <1>2, <2>2, <2>3 DEF CurrentEntry, SameClaims
  <2>5. CASE Closed(CurrentEntry(v).claim)
    BY <1>8, <2>4, <2>5
  <2>6. CASE ~Closed(CurrentEntry(v).claim)
    <3>1. PICK j \in Ids : /\ j > Current(v)
                          /\ stream[j].claim = CurrentEntry(v).claim
                          /\ ~stream[j].acked
      BY <1>12, <2>1, <2>6 DEF IInv, ReleaseJustified
    <3>2. PICK k \in Ids : /\ k >= j /\ stream'[k].claim = stream[j].claim
                          /\ ~stream'[k].acked
      BY <1>10, <2>6, <3>1
    <3>3. k > Current(v)
      BY <1>3, <2>3, <3>1, <3>2
    <3> QED BY <1>3, <2>2, <2>4, <3>1, <3>2, <3>3
  <2> QED BY <2>5, <2>6
<1>13. ReleaseJustified'
  BY <1>12 DEF ReleaseJustified
<1> QED BY <1>5, <1>6, <1>7, <1>11, <1>13 DEF IInv

-----------------------------------------------------------------------------
(* The empty stream with every worker idle satisfies the invariant.        *)
LEMMA InitIInv == Init => IInv
<1> SUFFICES ASSUME Init PROVE IInv
  OBVIOUS
<1> USE QueueAssumption DEF Init
<1>1. stream \in Seq(Entry) /\ Len(stream) = 0 /\ Ids = {}
  BY DEF Ids
<1>2. Idle \in Worker /\ Idle.todo = {} /\ Idle.pc = "poll"
  BY DEF Idle, Worker, PC
<1>3. TypeOK
  BY <1>1, <1>2 DEF TypeOK
<1>4. HoldsEntries /\ TrimCeiling /\ Covered /\ ReleaseJustified
  BY <1>1, <1>2 DEF HoldsEntries, TrimCeiling, Covered, ReleaseJustified
<1> QED BY <1>3, <1>4 DEF IInv

(* A step that leaves the stream alone keeps every entry.                  *)
LEMMA StreamUnchanged ==
  ASSUME IInv, stream' = stream
  PROVE  SameEntries
BY DEF IInv, TypeOK, SameEntries, SameClaims

(* A worker inside a loop holds an entry, and the one it is at is an entry *)
(* of the stream.                                                          *)
LEMMA HeldEntry ==
  ASSUME IInv, NEW w \in Workers, worker[w].pc \notin {"poll", "fetch", "down"}
  PROVE  /\ worker[w].todo # {}
         /\ Current(w) \in worker[w].todo
         /\ Current(w) \in Ids
         /\ CurrentEntry(w) \in Entry
<1>1. worker[w].todo # {} /\ worker[w].todo \subseteq Ids
  BY DEF IInv, HoldsEntries
<1>2. Current(w) \in worker[w].todo
  BY <1>1, CurrentInTodo DEF IInv
<1>3. stream \in Seq(Entry)
  BY DEF IInv, TypeOK
<1> QED BY <1>1, <1>2, <1>3 DEF CurrentEntry, Ids

(* A POST of a reply, however often its answer was lost, keeps the types   *)
(* of the two counters it moves.                                           *)
LEMMA PostTypes ==
  ASSUME IInv, NEW w \in Workers, worker[w].pc \in {"turn", "sent"},
         NEW answered \in Nat, NEW lost \in 0..MaxFaults, Post(w, answered, lost)
  PROVE  faults' \in 0..MaxFaults /\ replies' \in [Claims -> Nat]
<1>1. CurrentEntry(w).claim \in Claims
  BY HeldEntry DEF Entry
<1>2. faults \in 0..MaxFaults /\ replies \in [Claims -> Nat] /\ MaxFaults \in Nat
  BY QueueAssumption DEF IInv, TypeOK
<1>3. faults' \in 0..MaxFaults
  BY <1>2 DEF Post
<1>4. replies' \in [Claims -> Nat]
  BY <1>1, <1>2 DEF Post
<1> QED BY <1>3, <1>4

(* Going on to another call preserves the invariant, if a worker that      *)
(* moves to "release" has closed its message first.                        *)
LEMMA GotoStep ==
  ASSUME IInv, NEW w \in Workers, NEW pc \in PC, Goto(w, pc), stream' = stream,
         pc \notin {"poll", "fetch", "down"} => worker[w].pc \notin {"poll", "fetch", "down"},
         pc = "release" => CurrentEntry(w).claim \in settled' \cup dead',
         UNCHANGED <<delivered, trimmed>>, faults' \in 0..MaxFaults,
         replies' \in [Claims -> Nat],
         settled \subseteq settled', settled' \subseteq Claims,
         dead \subseteq dead', dead' \subseteq Claims, letters' \in Seq(Claims)
  PROVE  IInv'
<1>1. SameEntries
  BY StreamUnchanged
<1>2. /\ worker' \in [Workers -> Worker]
      /\ worker'[w].pc = pc
      /\ worker'[w].todo = worker[w].todo
      /\ \A v \in Workers : v # w => worker'[v] = worker[v]
  BY GotoMoves DEF IInv
<1>3. /\ worker'[w].todo \subseteq Ids
      /\ worker'[w].pc \notin {"poll", "fetch", "down"} => worker'[w].todo # {}
  BY <1>2 DEF IInv, HoldsEntries
<1>4. /\ delivered' \in 0..Len(stream) /\ trimmed' = trimmed
      /\ replies' \in [Claims -> Nat] /\ faults' \in 0..MaxFaults
  BY DEF IInv, TypeOK
<1> QED BY <1>1, <1>2, <1>3, <1>4, KeepingStep

(* Entering or continuing a loop over entries of the stream preserves the  *)
(* invariant.                                                              *)
LEMMA LoopStep ==
  ASSUME IInv, SameEntries, NEW w \in Workers, NEW mode \in {"sweep", "turn"},
         NEW todo \in SUBSET Ids, Loop(w, mode, todo),
         delivered' \in 0..Len(stream), faults' \in 0..MaxFaults,
         replies' \in [Claims -> Nat], UNCHANGED <<trimmed, settled, dead, letters>>
  PROVE  IInv'
<1>1. todo \in SUBSET Nat
  BY DEF Ids
<1>2. /\ worker' \in [Workers -> Worker]
      /\ worker'[w].pc \in {"fetch", "poll", "sweep", "turn"}
      /\ worker'[w].pc \notin {"poll", "fetch", "down"} => todo # {}
      /\ worker'[w].todo = todo
      /\ \A v \in Workers : v # w => worker'[v] = worker[v]
  BY <1>1, LoopMoves DEF IInv
<1>3. settled \subseteq Claims /\ dead \subseteq Claims /\ letters \in Seq(Claims)
  BY DEF IInv, TypeOK
<1> QED BY <1>2, <1>3, KeepingStep

(* A worker that drops everything, because it crashed or its pass failed.  *)
LEMMA DropStep ==
  ASSUME IInv, NEW w \in Workers, NEW r \in Worker, r.todo = {},
         r.pc \in {"poll", "fetch", "down"},
         worker' = [worker EXCEPT ![w] = r], faults' \in 0..MaxFaults,
         UNCHANGED <<stream, delivered, trimmed, dead, letters, settled, replies>>
  PROVE  IInv'
<1>1. SameEntries
  BY StreamUnchanged
<1>2. /\ worker' \in [Workers -> Worker] /\ worker'[w] = r
      /\ \A v \in Workers : v # w => worker'[v] = worker[v]
  BY DEF IInv, TypeOK
<1>3. /\ delivered' \in 0..Len(stream) /\ trimmed' = trimmed
      /\ settled' = settled /\ settled' \subseteq Claims
      /\ letters' \in Seq(Claims) /\ dead' = dead /\ dead' \subseteq Claims /\ replies' \in [Claims -> Nat]
  BY DEF IInv, TypeOK
<1> QED BY <1>1, <1>2, <1>3, KeepingStep

(* A failed turn, whether or not its reply went out.                       *)
LEMMA FailureStep ==
  ASSUME IInv, NEW w \in Workers, worker[w].pc \in {"turn", "sent"},
         AfterFailure(w), faults' \in 0..MaxFaults, replies' \in [Claims -> Nat],
         UNCHANGED <<stream, delivered, trimmed, dead, letters, settled>>
  PROVE  IInv'
<1>1. CASE is_last_attempt(CurrentEntry(w))
  <2>1. Goto(w, "bury")
    BY <1>1 DEF AfterFailure
  <2> QED BY <2>1, GotoStep DEF PC, IInv, TypeOK
<1>2. CASE ~is_last_attempt(CurrentEntry(w))
  <2>1. worker[w].mode \in {"sweep", "turn"} /\ worker[w].todo \subseteq Ids
    BY DEF IInv, TypeOK, Worker, HoldsEntries
  <2>2. Loop(w, worker[w].mode, worker[w].todo \ {Current(w)})
    BY <1>2 DEF AfterFailure, Advance
  <2>3. SameEntries
    BY StreamUnchanged
  <2>4. delivered' \in 0..Len(stream)
    BY DEF IInv, TypeOK
  <2> QED BY <2>1, <2>2, <2>3, <2>4, LoopStep
<1> QED BY <1>1, <1>2

(* Time passing preserves the invariant.                                   *)
LEMMA TickStep ==
  ASSUME IInv, Tick
  PROVE  IInv'
<1>1. SameEntries
  BY TickKeepsEntries DEF IInv
<1>2. Len(stream') = Len(stream) /\ Ids' = Ids
  BY <1>1 DEF SameEntries, SameClaims, Ids
<1>3. ASSUME NEW v \in Workers
      PROVE  /\ worker'[v] \in Worker
             /\ worker'[v].pc = worker[v].pc
             /\ worker'[v].todo = worker[v].todo
  <2>1. worker[v] \in Worker
    BY DEF IInv, TypeOK
  <2>2. worker'[v] = IF Busy(v) THEN [worker[v] EXCEPT !.spent = @ + 1] ELSE worker[v]
    BY DEF Tick
  <2> QED BY <2>1, <2>2 DEF Worker
<1>4. worker' \in [Workers -> Worker]
  BY <1>3 DEF Tick
<1>5. TypeOK'
  BY <1>1, <1>2, <1>4 DEF Tick, IInv, TypeOK, SameEntries, SameClaims
<1>6. HoldsEntries'
  BY <1>2, <1>3 DEF IInv, HoldsEntries
<1>7. TrimCeiling'
  BY <1>2 DEF Tick, IInv, TrimCeiling
<1>8. Covered' /\ ReleaseJustified'
  BY <1>1, <1>3, <1>6, CoverageKept DEF Tick
<1> QED BY <1>5, <1>6, <1>7, <1>8 DEF IInv

(* What _encode puts on the stream is an entry, for an attempt in range.   *)
LEMMA FreshEntryIsEntry ==
  ASSUME NEW c \in Claims, NEW n \in 1..MAX_ATTEMPTS
  PROVE  /\ FreshEntry(c, n) \in Entry
         /\ ~FreshEntry(c, n).acked
         /\ FreshEntry(c, n).claim = c
BY QueueAssumption DEF FreshEntry, Entry

(* A dead letter goes to the end of its stream, of which only a head that  *)
(* is beyond the ceiling is trimmed (dead_letter's XADD with maxlen).      *)
LEMMA LetterAdded ==
  ASSUME letters \in Seq(Claims), NEW c \in Claims, AddLetter(c)
  PROVE  /\ dead' = dead \cup {c}
         /\ letters' \in Seq(Claims)
         /\ \/ letters' = Append(letters, c)
            \/ Len(letters') >= MAX_STREAM_LENGTH
<1>1. PICK k \in 0..Len(letters) :
        /\ k > 0 => Len(letters) + 1 - k >= MAX_STREAM_LENGTH
        /\ letters' = SubSeq(Append(letters, c), k + 1, Len(letters) + 1)
  BY DEF AddLetter
<1> DEFINE all == Append(letters, c)
           n == Len(letters) + 1
<1>2. all \in Seq(Claims) /\ Len(all) = n /\ n \in Nat /\ n = Len(letters) + 1 /\ n >= 1
  OBVIOUS
<1>3. letters' = SubSeq(all, k + 1, n) /\ k \in 0..(n - 1)
  BY <1>1, <1>2
<1> HIDE DEF all
<1>4. letters' \in Seq(Claims) /\ Len(letters') = n - k
  <2>1. SubSeq(all, k + 1, n) \in Seq(Claims) /\ Len(SubSeq(all, k + 1, n)) = n - k
    <3>1. k + 1 \in Int /\ n \in Int /\ k + 1 <= n /\ n - (k + 1) + 1 = n - k
      BY <1>2, <1>3
    <3>2. \A i \in (k + 1)..n : all[i] \in Claims
      BY <1>2, <1>3
    <3> QED BY <3>1, <3>2, SubSeqProperties
  <2> QED BY <1>3, <2>1
<1>5. k > 0 => Len(letters') >= MAX_STREAM_LENGTH
  BY <1>1, <1>2, <1>4
<1>6. k = 0 => letters' = Append(letters, c)
  <2>1. SubSeq(all, 1, n) = all
    BY <1>2
  <2> QED BY <1>3, <2>1 DEF all
<1>7. dead' = dead \cup {c}
  BY DEF AddLetter
<1>8. k > 0 \/ k = 0
  OBVIOUS
<1> QED BY <1>4, <1>5, <1>6, <1>7, <1>8

(* The invariant is preserved by every action.                             *)
LEMMA NextIInv == IInv /\ [Next]_vars => IInv'
<1> SUFFICES ASSUME IInv, [Next]_vars PROVE IInv'
  OBVIOUS
<1>t. /\ delivered \in 0..Len(stream) /\ settled \subseteq Claims /\ dead \subseteq Claims
      /\ letters \in Seq(Claims)
      /\ replies \in [Claims -> Nat] /\ faults \in 0..MaxFaults
      /\ stream \in Seq(Entry) /\ worker \in [Workers -> Worker]
  BY DEF IInv, TypeOK
<1>1. ASSUME NEW c \in Claims, Enqueue(c) PROVE IInv'
  <2>1. 1 \in 1..MAX_ATTEMPTS
    BY QueueAssumption
  <2> QED BY <1>1, <1>t, <2>1, FreshEntryIsEntry, AppendingStep DEF Enqueue
<1>2. ASSUME NEW w \in Workers, Sweep(w) PROVE IInv'
  <2> DEFINE S == FirstOf(DEFAULT_BATCH_SIZE, Stale)
  <2>1. S \in SUBSET Ids
    BY DEF FirstOf, Stale, Pending
  <2>2. Deliver(S) /\ Loop(w, "sweep", S)
    BY <1>2 DEF Sweep
  <2>3. UNCHANGED <<delivered, trimmed, dead, letters, settled, replies, faults>>
    BY <1>2 DEF Sweep
  <2> HIDE DEF S
  <2>4. SameEntries
    BY <2>2, DeliverKeepsEntries DEF IInv
  <2> QED BY <1>t, <2>1, <2>2, <2>3, <2>4, LoopStep
<1>3. ASSUME NEW w \in Workers, SkipSweep(w) PROVE IInv'
  BY <1>3, <1>t, GotoStep DEF SkipSweep, PC
<1>4. ASSUME NEW w \in Workers, DiscardMalformed(w) PROVE IInv'
  <2>1. worker[w].todo # {} /\ worker[w].mode \in {"sweep", "turn"}
    BY <1>4, <1>t, HeldEntry DEF DiscardMalformed, Worker
  <2> QED BY <1>4, <2>1, AcknowledgingStep DEF DiscardMalformed
<1>5. ASSUME NEW w \in Workers, GiveUp(w) PROVE IInv'
  BY <1>5, <1>t, GotoStep DEF GiveUp, PC
<1>6. ASSUME NEW w \in Workers, Retry(w) PROVE IInv'
  <2> DEFINE e == FreshEntry(CurrentEntry(w).claim, CurrentEntry(w).attempts + 1)
  <2>1. CurrentEntry(w) \in Entry /\ worker[w].todo # {}
    BY <1>6, HeldEntry DEF Retry
  <2>2. /\ CurrentEntry(w).claim \in Claims
        /\ CurrentEntry(w).attempts + 1 \in 1..MAX_ATTEMPTS
    BY <1>6, <2>1, QueueAssumption DEF Retry, is_last_attempt, Entry
  <2>3. e \in Entry /\ ~e.acked /\ e.claim = CurrentEntry(w).claim
    BY <2>2, FreshEntryIsEntry
  <2>4. /\ worker' \in [Workers -> Worker]
        /\ worker'[w].pc = "release" /\ worker'[w].todo = worker[w].todo
        /\ \A v \in Workers : v # w => worker'[v] = worker[v]
    BY <1>6, GotoMoves DEF Retry, PC, IInv
  <2>5. /\ XADD(e) /\ worker[w].pc = "sweep"
        /\ UNCHANGED <<delivered, dead, letters, settled, replies, faults>>
    BY <1>6 DEF Retry
  <2> HIDE DEF e
  <2>6. \A v \in Workers :
          /\ worker'[v].todo = worker[v].todo
          /\ worker'[v].pc \in {"poll", "fetch", "down"}
             <=> worker[v].pc \in {"poll", "fetch", "down"}
          /\ worker'[v].pc = "release" =>
               worker[v].pc = "release" \/ (worker[v].todo # {} /\ CurrentEntry(v).claim = e.claim)
    BY <2>1, <2>3, <2>4, <2>5
  <2> QED BY <2>3, <2>4, <2>5, <2>6, AppendingStep
<1>7. ASSUME NEW w \in Workers, Consume(w) PROVE IInv'
  <2> DEFINE S == FirstOf(DEFAULT_BATCH_SIZE, Unread)
             T == {i \in S : stream[i].claim \notin Undecodable}
  <2>1. S \in SUBSET Ids /\ T \in SUBSET Ids
    BY DEF FirstOf, Unread
  <2>2. Deliver(S) /\ Loop(w, "turn", T)
    BY <1>7 DEF Consume
  <2>3. UNCHANGED <<trimmed, dead, letters, settled, replies, faults>>
    BY <1>7 DEF Consume
  <2>4. delivered' = IF S = {} THEN delivered ELSE CHOOSE i \in S : \A j \in S : j <= i
    BY <1>7 DEF Consume
  <2> HIDE DEF S, T
  <2>5. delivered' \in 0..Len(stream)
    <3>1. CASE S = {}
      BY <1>t, <2>4, <3>1
    <3>2. CASE S # {}
      <4>1. \E i \in S : \A j \in S : j <= i
        <5>1. Len(stream) \in Nat /\ S \in SUBSET (1..Len(stream))
          BY <1>t, <2>1 DEF Ids
        <5> QED BY <3>2, <5>1, MaxExists
      <4>2. delivered' \in S
        BY <2>4, <3>2, <4>1
      <4> QED BY <1>t, <2>1, <4>2 DEF Ids
    <3> QED BY <3>1, <3>2
  <2>6. SameEntries
    BY <2>2, DeliverKeepsEntries DEF IInv
  <2> QED BY <1>t, <2>1, <2>2, <2>3, <2>5, <2>6, LoopStep
<1>8. ASSUME NEW w \in Workers, RateLimited(w) \/ Commit(w) PROVE IInv'
  <2>1. CurrentEntry(w).claim \in Claims
    BY <1>8, HeldEntry DEF RateLimited, Commit, Entry
  <2> QED BY <1>8, <1>t, <2>1, GotoStep DEF RateLimited, Commit, PC
<1>9. ASSUME NEW w \in Workers, NotConfigured(w) PROVE IInv'
  BY <1>9, <1>t, GotoStep DEF NotConfigured, PC
<1>10. ASSUME NEW w \in Workers, SendReply(w) PROVE IInv'
  <2> DEFINE r == [worker[w] EXCEPT !.pc = "sent"]
  <2>1. worker[w] \in Worker /\ worker[w].pc = "turn"
    BY <1>10, <1>t DEF SendReply
  <2>2. r \in Worker /\ r.pc = "sent" /\ r.todo = worker[w].todo
    BY <2>1 DEF Worker, PC
  <2>3. worker' = [worker EXCEPT ![w] = r]
    BY <1>10 DEF SendReply
  <2> HIDE DEF r
  <2>4. /\ worker' \in [Workers -> Worker] /\ worker'[w] = r
        /\ \A v \in Workers : v # w => worker'[v] = worker[v]
    BY <1>t, <2>2, <2>3
  <2>5. worker[w].todo # {} /\ worker[w].todo \subseteq Ids
    BY <2>1, HeldEntry DEF IInv, HoldsEntries
  <2>6. faults' \in 0..MaxFaults /\ replies' \in [Claims -> Nat]
    <3>1. PICK lost \in 0..MaxFaults : Post(w, 1, lost)
      BY <1>10 DEF SendReply
    <3> QED BY <2>1, <3>1, PostTypes
  <2>7. SameEntries
    BY <1>10, StreamUnchanged DEF SendReply
  <2>8. UNCHANGED <<delivered, trimmed, dead, letters, settled>>
    BY <1>10 DEF SendReply
  <2> QED BY <1>t, <2>2, <2>4, <2>5, <2>6, <2>7, <2>8, KeepingStep
<1>11. ASSUME NEW w \in Workers, FailTurn(w) \/ TurnBreaks(w) PROVE IInv'
  <2>1. faults' \in 0..MaxFaults /\ replies' \in [Claims -> Nat]
    <3>1. CASE FailTurn(w)
      <4>1. worker[w].pc = "turn" /\ \E lost \in 0..MaxFaults : Post(w, 0, lost)
        BY <3>1 DEF FailTurn
      <4> QED BY <4>1, PostTypes
    <3>2. CASE TurnBreaks(w)
      BY <3>2, <1>t, QueueAssumption DEF TurnBreaks
    <3> QED BY <1>11, <3>1, <3>2
  <2> QED BY <1>11, <2>1, FailureStep DEF FailTurn, TurnBreaks
<1>12. ASSUME NEW w \in Workers, Bury(w) PROVE IInv'
  <2>1. CurrentEntry(w).claim \in Claims
    BY <1>12, HeldEntry DEF Bury, Entry
  <2>2. dead' = dead \cup {CurrentEntry(w).claim} /\ letters' \in Seq(Claims)
    BY <1>12, <1>t, <2>1, LetterAdded DEF Bury
  <2>3. /\ worker[w].pc = "bury" /\ Goto(w, "release")
        /\ UNCHANGED <<stream, delivered, trimmed, settled, replies, faults>>
    BY <1>12 DEF Bury
  <2> QED BY <1>t, <2>1, <2>2, <2>3, GotoStep DEF PC
<1>13. ASSUME NEW w \in Workers, Release(w) PROVE IInv'
  <2>1. worker[w].todo # {} /\ worker[w].mode \in {"sweep", "turn"}
    BY <1>13, <1>t, HeldEntry DEF Release, Worker
  <2> QED BY <1>13, <2>1, AcknowledgingStep DEF Release
<1>14. ASSUME NEW w \in Workers, PassFailed(w) \/ Crash(w) \/ Restart(w) PROVE IInv'
  <2>1. PICK r \in {[Idle EXCEPT !.pass = NextPass(w)], Down, Idle} :
          worker' = [worker EXCEPT ![w] = r]
    BY <1>14 DEF PassFailed, Crash, Restart
  <2>2. NextPass(w) \in 0..(RECLAIM_EVERY_PASSES - 1) /\ 0 \in 0..(RECLAIM_EVERY_PASSES - 1)
    BY NextPassInRange, QueueAssumption DEF IInv
  <2>3. r \in Worker /\ r.todo = {} /\ r.pc \in {"poll", "fetch", "down"}
    BY <2>1, <2>2 DEF Idle, Down, Worker, PC
  <2>4. faults' \in 0..MaxFaults
    BY <1>14, <1>t, QueueAssumption DEF PassFailed, Crash, Restart
  <2> QED BY <1>14, <2>1, <2>3, <2>4, DropStep DEF PassFailed, Crash, Restart
<1>15. ASSUME Tick PROVE IInv'
  BY <1>15, TickStep
<1>16. CASE UNCHANGED vars
  BY <1>16 DEF vars, IInv, TypeOK, HoldsEntries, TrimCeiling, Covered, ReleaseJustified,
               Closed, CurrentEntry, Current, Ids
<1> QED
  BY <1>1, <1>2, <1>3, <1>4, <1>5, <1>6, <1>7, <1>8, <1>9, <1>10, <1>11, <1>12,
     <1>13, <1>14, <1>15, <1>16 DEF Next, WorkerStep, Fault

-----------------------------------------------------------------------------
(* The queue's variables always have their types: in particular no entry   *)
(* ever carries more than MAX_ATTEMPTS attempts.                           *)
THEOREM TypeCorrect == Spec => []TypeOK
<1>1. IInv => TypeOK
  BY DEF IInv
<1> QED BY <1>1, InitIInv, NextIInv, PTL DEF Spec

(* A dead letter stays on its stream until that is at its ceiling.         *)
LettersKept == \A c \in dead : LetterKept(c)

LEMMA LetterStep ==
  ASSUME IInv, LettersKept, NEW c \in Claims, AddLetter(c)
  PROVE  LettersKept'
<1> DEFINE n == Len(letters) + 1
<1>1. letters \in Seq(Claims) /\ Len(letters) \in Nat
  BY DEF IInv, TypeOK
<1>2. /\ dead' = dead \cup {c}
      /\ letters' = Append(letters, c) \/ Len(letters') >= MAX_STREAM_LENGTH
  BY <1>1, LetterAdded
<1>3. CASE Len(letters') >= MAX_STREAM_LENGTH
  BY <1>3 DEF LettersKept, LetterKept
<1>4. CASE letters' = Append(letters, c)
  <2>1. /\ Len(letters') = n /\ letters'[n] = c
        /\ \A i \in 1..Len(letters) : letters'[i] = letters[i]
        /\ 1..Len(letters) \subseteq 1..n /\ n \in 1..n
    BY <1>1, <1>4
  <2>2. MAX_STREAM_LENGTH \in Nat
    BY QueueAssumption
  <2>3. ASSUME NEW d \in dead PROVE LetterKept(d)'
    <3>1. CASE \E i \in 1..Len(letters) : letters[i] = d
      BY <2>1, <3>1 DEF LetterKept
    <3>2. CASE Len(letters) >= MAX_STREAM_LENGTH
      <4>1. Len(letters') >= MAX_STREAM_LENGTH
        BY <1>1, <2>1, <2>2, <3>2
      <4> QED BY <4>1 DEF LetterKept
    <3> QED BY <3>1, <3>2 DEF LettersKept, LetterKept
  <2>4. LetterKept(c)'
    BY <2>1 DEF LetterKept
  <2> QED BY <1>2, <2>3, <2>4 DEF LettersKept
<1> QED BY <1>2, <1>3, <1>4

LEMMA NextLetters ==
  ASSUME IInv, LettersKept, [Next]_vars
  PROVE  LettersKept'
<1>1. CASE UNCHANGED <<dead, letters>>
  BY <1>1 DEF LettersKept, LetterKept
<1>2. ASSUME NEW w \in Workers, Bury(w) PROVE LettersKept'
  <2>1. CurrentEntry(w).claim \in Claims
    BY <1>2, HeldEntry DEF Bury, Entry
  <2> QED BY <1>2, <2>1, LetterStep DEF Bury
<1> QED
  BY <1>1, <1>2 DEF Next, vars, WorkerStep, Fault, Enqueue, Sweep, SkipSweep, DiscardMalformed,
     GiveUp, Retry, Consume, RateLimited, NotConfigured, SendReply, Commit, FailTurn, Release,
     TurnBreaks, PassFailed, Crash, Restart, Tick

(* No queued message is silently dropped: in every reachable state it is   *)
(* settled, unparsable, dead with its letter to be found unless that       *)
(* stream is at its ceiling, or some unacknowledged entry of it is left,   *)
(* readable unless the stream outgrew its ceiling after it.                *)
THEOREM NothingLostHolds == Spec => []NothingLost
<1>1. IInv /\ LettersKept => NothingLost
  <2> SUFFICES ASSUME IInv, LettersKept, NEW c \in Claims, EntriesOf(c) # {}, ~Closed(c)
               PROVE  \E i \in EntriesOf(c) :
                        /\ ~stream[i].acked
                        /\ i <= trimmed => Len(stream) - i >= MAX_STREAM_LENGTH
    BY DEF NothingLost, Closed, LettersKept
  <2>1. PICK k \in Ids : stream[k].claim = c
    BY DEF EntriesOf
  <2>2. PICK j \in Ids : stream[j].claim = c /\ ~stream[j].acked
    BY <2>1 DEF IInv, Covered
  <2>3. Len(stream) \in Nat /\ trimmed \in 0..Len(stream) /\ j \in 1..Len(stream)
    BY <2>2 DEF IInv, TypeOK, Ids
  <2>4. j <= trimmed => Len(stream) - j >= MAX_STREAM_LENGTH
    BY <2>3, QueueAssumption DEF IInv, TrimCeiling
  <2> QED BY <2>2, <2>4 DEF EntriesOf
<1>2. Init => IInv /\ LettersKept
  BY InitIInv DEF Init, LettersKept
<1>3. IInv /\ LettersKept /\ [Next]_vars => (IInv /\ LettersKept)'
  BY NextIInv, NextLetters
<1> QED BY <1>1, <1>2, <1>3, PTL DEF Spec

-----------------------------------------------------------------------------
(* Every entry about to be released leaves its message closed, or a        *)
(* younger entry to take over: no XACK loses a message.                    *)
THEOREM ReleasesJustified == Spec => []ReleaseJustified
<1>1. IInv => ReleaseJustified
  BY DEF IInv
<1> QED BY <1>1, InitIInv, NextIInv, PTL DEF Spec

(* A step that keeps the claim and the number of every entry, appends only *)
(* entries numbered after ones that are there, sends a worker to the       *)
(* dead-letter call for a reason, and buries only from there, keeps the    *)
(* account of attempts.                                                    *)
LEMMA EarnedKept ==
  ASSUME IInv, Earned, Ids \subseteq Ids',
         \A i \in Ids : /\ stream'[i].claim = stream[i].claim
                        /\ stream'[i].attempts = stream[i].attempts,
         \A i \in Ids' : i \notin Ids => \A k \in 1..stream'[i].attempts :
           \E j \in Ids' : /\ stream'[j].claim = stream'[i].claim
                           /\ stream'[j].attempts = k,
         \A v \in Workers : worker'[v].pc = "bury" =>
           /\ worker'[v].todo = worker[v].todo
           /\ worker[v].pc \notin {"poll", "fetch", "down"}
           /\ \/ worker[v].pc = "bury"
              \/ CurrentEntry(v).claim \in Misconfigured
              \/ is_last_attempt(CurrentEntry(v)),
         \A c \in dead' : c \in dead \/ \E v \in Workers :
           worker[v].pc = "bury" /\ c = CurrentEntry(v).claim
  PROVE  Earned'
<1>1. ASSUME NEW i \in Ids', NEW k \in 1..stream'[i].attempts
      PROVE  \E j \in Ids' : stream'[j].claim = stream'[i].claim /\ stream'[j].attempts = k
  <2>1. CASE i \in Ids
    <3>1. PICK j \in Ids : stream[j].claim = stream[i].claim /\ stream[j].attempts = k
      BY <2>1 DEF Earned, AttemptsCounted
    <3> QED BY <2>1, <3>1
  <2> QED BY <2>1
<1>2. AttemptsCounted'
  BY <1>1 DEF AttemptsCounted
<1>3. ASSUME NEW v \in Workers, worker'[v].pc = "bury"
      PROVE  CurrentEntry(v)'.claim \in Misconfigured \/ is_last_attempt(CurrentEntry(v))'
  <2>1. Current(v)' = Current(v)
    BY <1>3 DEF Current
  <2>2. Current(v) \in Ids
    BY <1>3, HeldEntry
  <2>3. /\ CurrentEntry(v)'.claim = CurrentEntry(v).claim
        /\ CurrentEntry(v)'.attempts = CurrentEntry(v).attempts
    BY <2>1, <2>2 DEF CurrentEntry
  <2> QED BY <1>3, <2>3 DEF Earned, BuryJustified, is_last_attempt
<1>4. BuryJustified'
  BY <1>3 DEF BuryJustified
<1>5. ASSUME NEW c \in dead' \ Misconfigured
      PROVE  \E i \in Ids' : stream'[i].claim = c /\ is_last_attempt(stream'[i])
  <2>1. \E i \in Ids : stream[i].claim = c /\ is_last_attempt(stream[i])
    <3>1. CASE c \in dead
      BY <1>5, <3>1 DEF Earned, DeadJustified
    <3>2. ASSUME NEW v \in Workers, worker[v].pc = "bury", c = CurrentEntry(v).claim
          PROVE  \E i \in Ids : stream[i].claim = c /\ is_last_attempt(stream[i])
      <4>1. is_last_attempt(CurrentEntry(v))
        BY <1>5, <3>2 DEF Earned, BuryJustified
      <4>2. Current(v) \in Ids
        BY <3>2, HeldEntry
      <4> QED BY <3>2, <4>1, <4>2 DEF CurrentEntry
    <3> QED BY <1>5, <3>1, <3>2
  <2>2. PICK i \in Ids : stream[i].claim = c /\ is_last_attempt(stream[i])
    BY <2>1
  <2> QED BY <2>2 DEF is_last_attempt
<1>6. DeadJustified'
  BY <1>5 DEF DeadJustified
<1> QED BY <1>2, <1>4, <1>6 DEF Earned

(* ... in particular a step that touches no claim, no number and no dead   *)
(* letter, and sends only worker w anywhere.                               *)
LEMMA EarnedSame ==
  ASSUME IInv, Earned, SameClaims, NEW w \in Workers,
         \A v \in Workers : v # w => worker'[v] = worker[v],
         worker'[w].pc = "bury" =>
           /\ worker'[w].todo = worker[w].todo
           /\ worker[w].pc \notin {"poll", "fetch", "down"}
           /\ \/ CurrentEntry(w).claim \in Misconfigured
              \/ is_last_attempt(CurrentEntry(w)),
         \A c \in dead' : c \in dead \/ (worker[w].pc = "bury" /\ c = CurrentEntry(w).claim)
  PROVE  Earned'
<1>1. Ids' = Ids
  BY DEF SameClaims, Ids
<1>2. \A i \in Ids : /\ stream'[i].claim = stream[i].claim
                     /\ stream'[i].attempts = stream[i].attempts
  BY DEF SameClaims
<1>3. ASSUME NEW v \in Workers, worker'[v].pc = "bury"
      PROVE  /\ worker'[v].todo = worker[v].todo
             /\ worker[v].pc \notin {"poll", "fetch", "down"}
             /\ \/ worker[v].pc = "bury"
                \/ CurrentEntry(v).claim \in Misconfigured
                \/ is_last_attempt(CurrentEntry(v))
  <2>1. CASE v = w
    BY <1>3, <2>1
  <2>2. CASE v # w
    BY <1>3, <2>2
  <2> QED BY <2>1, <2>2
<1> QED BY <1>1, <1>2, <1>3, EarnedKept

(* An appended entry numbered 1, or one after an entry of its message.     *)
LEMMA EarnedAppend ==
  ASSUME IInv, Earned, NEW e \in Entry, XADD(e),
         e.attempts = 1 \/ \E i \in Ids : /\ stream[i].claim = e.claim
                                          /\ stream[i].attempts + 1 = e.attempts,
         \A v \in Workers : worker'[v] = worker[v] \/ worker'[v].pc = "release",
         dead' = dead
  PROVE  Earned'
<1> DEFINE n == Len(stream) + 1
<1>1. /\ stream' \in Seq(Entry) /\ Len(stream') = n
      /\ \A i \in Ids : stream'[i] = stream[i]
      /\ stream'[n] = e
  BY XADDAppends DEF IInv
<1>2. stream \in Seq(Entry) /\ Len(stream) \in Nat /\ n \in Nat
  BY DEF IInv, TypeOK
<1>3. Ids' = Ids \cup {n}
  BY <1>1, <1>2 DEF Ids
<1> HIDE DEF n
<1>4. ASSUME NEW k \in 1..e.attempts
      PROVE  \E j \in Ids' : stream'[j].claim = e.claim /\ stream'[j].attempts = k
  <2>1. k \in Nat /\ e.attempts \in Nat /\ k <= e.attempts
    BY QueueAssumption DEF Entry
  <2>2. CASE k = e.attempts
    BY <1>1, <1>3, <2>2
  <2>3. CASE k # e.attempts
    <3>1. PICK i \in Ids : stream[i].claim = e.claim /\ stream[i].attempts + 1 = e.attempts
      BY <2>1, <2>3
    <3>2. stream[i].attempts \in Nat
      <4>1. stream[i] \in Entry
        BY <1>2 DEF Ids
      <4> QED BY <4>1, QueueAssumption DEF Entry
    <3>3. k \in 1..stream[i].attempts
      BY <2>1, <2>3, <3>1, <3>2
    <3>4. PICK j \in Ids : stream[j].claim = stream[i].claim /\ stream[j].attempts = k
      BY <3>3 DEF Earned, AttemptsCounted
    <3> QED BY <1>1, <1>3, <3>1, <3>4
  <2> QED BY <2>2, <2>3
<1>5. \A v \in Workers : worker'[v].pc = "bury" =>
        worker'[v] = worker[v] /\ worker[v].pc = "bury"
  OBVIOUS
<1>6. \A i \in Ids' : i \notin Ids => \A k \in 1..stream'[i].attempts :
        \E j \in Ids' : stream'[j].claim = stream'[i].claim /\ stream'[j].attempts = k
  BY <1>1, <1>3, <1>4
<1> QED BY <1>1, <1>3, <1>5, <1>6, EarnedKept

LEMMA InitEarned == Init => Earned
BY DEF Init, Earned, AttemptsCounted, BuryJustified, DeadJustified, Ids, Idle

(* Every step of the queue keeps the account of attempts.                  *)
LEMMA NextEarned == IInv /\ Earned /\ [Next]_vars => Earned'
<1> SUFFICES ASSUME IInv, Earned, [Next]_vars PROVE Earned'
  OBVIOUS
<1>t. TypeOK
  BY DEF IInv
<1>s. stream' = stream => SameClaims
  BY StreamUnchanged DEF SameEntries
<1>1. ASSUME NEW c \in Claims, Enqueue(c) PROVE Earned'
  <2> DEFINE e == FreshEntry(c, 1)
  <2>1. e \in Entry /\ e.attempts = 1
    BY FreshEntryIsEntry, QueueAssumption DEF FreshEntry
  <2>2. XADD(e) /\ worker' = worker /\ dead' = dead
    BY <1>1 DEF Enqueue
  <2> HIDE DEF e
  <2> QED BY <2>1, <2>2, EarnedAppend
<1>2. ASSUME NEW w \in Workers, Retry(w) PROVE Earned'
  <2> DEFINE e == FreshEntry(CurrentEntry(w).claim, CurrentEntry(w).attempts + 1)
  <2>1. /\ CurrentEntry(w) \in Entry /\ Current(w) \in Ids
        /\ CurrentEntry(w) = stream[Current(w)]
    BY <1>2, HeldEntry DEF Retry, CurrentEntry
  <2>2. CurrentEntry(w).claim \in Claims /\ CurrentEntry(w).attempts + 1 \in 1..MAX_ATTEMPTS
    BY <1>2, <2>1, QueueAssumption DEF Retry, is_last_attempt, Entry
  <2>3. e \in Entry /\ e.claim = CurrentEntry(w).claim
        /\ CurrentEntry(w).attempts + 1 = e.attempts
    BY <2>2, FreshEntryIsEntry DEF FreshEntry
  <2>4. XADD(e) /\ dead' = dead
    BY <1>2 DEF Retry
  <2>5. worker'[w].pc = "release" /\ \A v \in Workers : v # w => worker'[v] = worker[v]
    BY <1>2, <1>t, GotoMoves DEF Retry, PC
  <2> HIDE DEF e
  <2> QED BY <2>1, <2>3, <2>4, <2>5, EarnedAppend
<1>3. ASSUME NEW w \in Workers, NEW pc \in PC, Goto(w, pc), SameClaims, 
             dead' = dead \/ (worker[w].pc = "bury" /\ dead' = dead \cup {CurrentEntry(w).claim}),
             pc = "bury" =>
               /\ worker[w].pc \notin {"poll", "fetch", "down"}
               /\ \/ CurrentEntry(w).claim \in Misconfigured
                  \/ is_last_attempt(CurrentEntry(w))
      PROVE  Earned'
  BY <1>3, <1>t, GotoMoves, EarnedSame
<1>4. ASSUME NEW w \in Workers, NEW mode \in {"sweep", "turn"}, NEW todo \in SUBSET Nat,
             Loop(w, mode, todo), SameClaims, dead' = dead
      PROVE  Earned'
  <2>1. /\ worker'[w].pc # "bury"
        /\ \A v \in Workers : v # w => worker'[v] = worker[v]
    BY <1>4, <1>t, LoopMoves
  <2> QED BY <1>4, <2>1, EarnedSame
<1>5. ASSUME NEW w \in Workers, Advance(w), SameClaims, dead' = dead PROVE Earned'
  <2>1. worker[w].mode \in {"sweep", "turn"} /\ worker[w].todo \ {Current(w)} \in SUBSET Nat
    BY <1>t DEF TypeOK, Worker
  <2> QED BY <1>4, <1>5, <2>1 DEF Advance
<1>6. ASSUME NEW w \in Workers, Sweep(w) PROVE Earned'
  <2> DEFINE S == FirstOf(DEFAULT_BATCH_SIZE, Stale)
  <2>1. S \in SUBSET Nat
    BY DEF FirstOf, Stale, Pending, Ids
  <2>2. Deliver(S) /\ Loop(w, "sweep", S) /\ dead' = dead
    BY <1>6 DEF Sweep
  <2> HIDE DEF S
  <2>3. SameClaims
    BY <1>t, <2>2, DeliverKeepsEntries DEF SameEntries
  <2> QED BY <1>4, <2>1, <2>2, <2>3
<1>7. ASSUME NEW w \in Workers, Consume(w) PROVE Earned'
  <2> DEFINE S == FirstOf(DEFAULT_BATCH_SIZE, Unread)
             T == {i \in S : stream[i].claim \notin Undecodable}
  <2>1. T \in SUBSET Nat
    BY DEF FirstOf, Unread, Ids
  <2>2. Deliver(S) /\ Loop(w, "turn", T) /\ dead' = dead
    BY <1>7 DEF Consume
  <2> HIDE DEF S, T
  <2>3. SameClaims
    BY <1>t, <2>2, DeliverKeepsEntries DEF SameEntries
  <2> QED BY <1>4, <2>1, <2>2, <2>3
<1>8. ASSUME NEW w \in Workers, Release(w) \/ DiscardMalformed(w) PROVE Earned'
  <2>1. Current(w) \in Ids
    BY <1>8, HeldEntry DEF Release, DiscardMalformed
  <2>2. XACK(Current(w)) /\ Advance(w) /\ dead' = dead
    BY <1>8 DEF Release, DiscardMalformed
  <2>3. SameClaims
    BY <1>t, <2>1, <2>2, XACKMarks
  <2> QED BY <1>5, <2>2, <2>3
<1>9. ASSUME NEW w \in Workers,
             SkipSweep(w) \/ GiveUp(w) \/ RateLimited(w) \/ NotConfigured(w) \/ Commit(w)
      PROVE  Earned'
  BY <1>3, <1>9, <1>s DEF SkipSweep, GiveUp, RateLimited, NotConfigured, Commit, PC
<1>10. ASSUME NEW w \in Workers, Bury(w) PROVE Earned'
  BY <1>3, <1>10, <1>s DEF Bury, AddLetter, PC
<1>11. ASSUME NEW w \in Workers, SendReply(w) PROVE Earned'
  <2>1. /\ worker'[w].pc = "sent" /\ dead' = dead /\ SameClaims
        /\ \A v \in Workers : v # w => worker'[v] = worker[v]
    BY <1>11, <1>t, <1>s DEF SendReply, TypeOK, Worker
  <2> QED BY <2>1, EarnedSame
<1>12. ASSUME NEW w \in Workers, FailTurn(w) \/ TurnBreaks(w) PROVE Earned'
  <2>1. /\ AfterFailure(w) /\ dead' = dead /\ SameClaims
        /\ worker[w].pc \notin {"poll", "fetch", "down"}
    BY <1>12, <1>s DEF FailTurn, TurnBreaks
  <2>2. CASE is_last_attempt(CurrentEntry(w))
    BY <1>3, <2>1, <2>2 DEF AfterFailure, PC
  <2>3. CASE ~is_last_attempt(CurrentEntry(w))
    BY <1>5, <2>1, <2>3 DEF AfterFailure
  <2> QED BY <2>2, <2>3
<1>13. ASSUME NEW w \in Workers, PassFailed(w) \/ Crash(w) \/ Restart(w) PROVE Earned'
  <2>1. PICK r \in {[Idle EXCEPT !.pass = NextPass(w)], Down, Idle} :
          worker' = [worker EXCEPT ![w] = r]
    BY <1>13 DEF PassFailed, Crash, Restart
  <2>2. r.pc # "bury"
    BY DEF Idle, Down
  <2>3. dead' = dead /\ SameClaims
    BY <1>13, <1>s DEF PassFailed, Crash, Restart
  <2>4. worker'[w] = r /\ \A v \in Workers : v # w => worker'[v] = worker[v]
    BY <1>t, <2>1 DEF TypeOK
  <2> QED BY <2>2, <2>3, <2>4, EarnedSame
<1>14. ASSUME Tick PROVE Earned'
  <2>1. SameClaims /\ dead' = dead
    BY <1>14, <1>t, TickKeepsEntries DEF SameEntries, Tick
  <2>2. ASSUME NEW v \in Workers
        PROVE  worker'[v].pc = worker[v].pc /\ worker'[v].todo = worker[v].todo
    BY <1>14, <1>t DEF Tick, TypeOK, Worker
  <2>3. /\ Ids' = Ids
        /\ \A i \in Ids : /\ stream'[i].claim = stream[i].claim
                          /\ stream'[i].attempts = stream[i].attempts
    BY <2>1 DEF SameClaims, Ids
  <2> QED BY <2>1, <2>2, <2>3, EarnedKept
<1>15. CASE UNCHANGED vars
  <2>1. UNCHANGED <<stream, dead, worker>>
    BY <1>15 DEF vars
  <2>2. AttemptsCounted'
    BY <2>1 DEF Earned, AttemptsCounted, Ids
  <2>3. BuryJustified' /\ DeadJustified'
    BY <2>1 DEF Earned, BuryJustified, DeadJustified, CurrentEntry, Current, Ids, is_last_attempt
  <2> QED BY <2>2, <2>3 DEF Earned
<1> QED
  BY <1>1, <1>2, <1>6, <1>7, <1>8, <1>9, <1>10, <1>11, <1>12, <1>13, <1>14, <1>15
     DEF Next, WorkerStep, Fault

(* Dead letters are earned: a message of a configured agent on the         *)
(* dead-letter stream was queued at least MAX_ATTEMPTS times, because the  *)
(* entries of it carry every number from 1 to MAX_ATTEMPTS.                *)
THEOREM DeadLettersEarned == Spec => []DeadLetterEarned
<1>1. ASSUME IInv, Earned PROVE DeadLetterEarned
  <2> SUFFICES ASSUME NEW c \in dead \ Misconfigured
               PROVE  Cardinality(EntriesOf(c)) >= MAX_ATTEMPTS
    BY DEF DeadLetterEarned
  <2> DEFINE f == [i \in EntriesOf(c) |-> stream[i].attempts]
  <2>1. stream \in Seq(Entry) /\ Len(stream) \in Nat /\ MAX_ATTEMPTS \in Nat
    BY <1>1, QueueAssumption DEF IInv, TypeOK
  <2>2. ASSUME NEW i \in EntriesOf(c) PROVE stream[i].attempts \in 1..MAX_ATTEMPTS
    <3>1. stream[i] \in Entry
      BY <2>1 DEF EntriesOf, Ids
    <3> QED BY <3>1 DEF Entry
  <2>3. PICK m \in Ids : stream[m].claim = c /\ stream[m].attempts = MAX_ATTEMPTS
    <3>1. PICK m \in Ids : stream[m].claim = c /\ is_last_attempt(stream[m])
      BY <1>1 DEF Earned, DeadJustified
    <3> QED BY <2>1, <2>2, <3>1 DEF EntriesOf, is_last_attempt
  <2>4. \A k \in 1..MAX_ATTEMPTS : \E j \in EntriesOf(c) : f[j] = k
    BY <1>1, <2>3 DEF Earned, AttemptsCounted, EntriesOf
  <2>5. f \in Surjection(EntriesOf(c), 1..MAX_ATTEMPTS)
    BY <2>2, <2>4 DEF Surjection
  <2>6. IsFiniteSet(EntriesOf(c)) /\ Cardinality(EntriesOf(c)) \in Nat
    <3>1. IsFiniteSet(Ids)
      BY <2>1, FS_Interval DEF Ids
    <3>2. EntriesOf(c) \in SUBSET Ids
      BY DEF EntriesOf
    <3>3. IsFiniteSet(EntriesOf(c))
      BY <3>1, <3>2, FS_Subset
    <3> QED BY <3>3, FS_CardinalityType
  <2>7. Cardinality(1..MAX_ATTEMPTS) = MAX_ATTEMPTS
    BY <2>1, FS_Interval
  <2> HIDE DEF f
  <2>8. Cardinality(1..MAX_ATTEMPTS) <= Cardinality(EntriesOf(c))
    BY <2>5, <2>6, FS_Surjection
  <2> QED BY <2>1, <2>6, <2>7, <2>8
<1> QED BY <1>1, InitIInv, NextIInv, InitEarned, NextEarned, PTL DEF Spec

-----------------------------------------------------------------------------
(* For the inbox, a step that keeps every entry accepts nothing and        *)
(* retires nothing.                                                        *)
LEMMA KeepingMaps ==
  ASSUME IInv, SameEntries
  PROVE  Accepted' = Accepted /\ Waiting' = Waiting
<1>1. Ids' = Ids
  BY DEF SameEntries, SameClaims, Ids
<1> QED BY <1>1 DEF SameEntries, SameClaims, Accepted, Waiting

(* For the inbox, an appended entry accepts its message or queues it       *)
(* again.                                                                  *)
LEMMA AppendingMaps ==
  ASSUME IInv, NEW e \in Entry, XADD(e), ~e.acked
  PROVE  /\ Accepted' = Accepted \cup {e.claim}
         /\ Waiting' = Waiting \cup {e.claim}
<1> DEFINE n == Len(stream) + 1
<1>1. /\ Len(stream') = n
      /\ \A i \in Ids : stream'[i] = stream[i]
      /\ stream'[n] = e
  BY XADDAppends DEF IInv
<1>2. Len(stream) \in Nat
  BY DEF IInv, TypeOK
<1>3. Ids' = Ids \cup {n}
  BY <1>1, <1>2 DEF Ids
<1> HIDE DEF n
<1> QED BY <1>1, <1>3 DEF Accepted, Waiting

(* For the inbox, an acknowledgement retires its message or, if another    *)
(* entry of it is left, changes nothing.                                   *)
LEMMA AcknowledgingMaps ==
  ASSUME IInv, NEW i \in Ids, XACK(i)
  PROVE  /\ Accepted' = Accepted
         /\ Waiting' = Waiting \/ (/\ stream[i].claim \in Waiting
                                   /\ Waiting' = Waiting \ {stream[i].claim})
<1>1. /\ SameClaims
      /\ stream'[i].acked = TRUE
      /\ \A j \in Ids : j # i => stream'[j].acked = stream[j].acked
  BY XACKMarks DEF IInv
<1>2. Ids' = Ids
  BY <1>1 DEF SameClaims, Ids
<1>3. Accepted' = Accepted
  BY <1>1, <1>2 DEF SameClaims, Accepted
<1>4. \A c : c \in Waiting' <=> \E j \in Ids : j # i /\ ~stream[j].acked /\ stream[j].claim = c
  BY <1>1, <1>2 DEF SameClaims, Waiting
<1>5. \A c : c \in Waiting <=> \E j \in Ids : ~stream[j].acked /\ stream[j].claim = c
  BY DEF Waiting
<1>6. \A c : c # stream[i].claim => (c \in Waiting' <=> c \in Waiting)
  BY <1>4, <1>5
<1>7. \A c : c \in Waiting' => c \in Waiting
  BY <1>4, <1>5
<1>8. CASE stream[i].claim \in Waiting'
  BY <1>3, <1>6, <1>7, <1>8
<1>9. CASE stream[i].claim \notin Waiting'
  <2>1. Waiting' = Waiting \ {stream[i].claim}
    BY <1>6, <1>7, <1>9
  <2> QED BY <1>3, <2>1
<1> QED BY <1>8, <1>9

(* Every step of the queue is a step of the inbox, or changes nothing the  *)
(* inbox shows.                                                            *)
LEMMA StepMaps ==
  ASSUME IInv, [Next]_vars
  PROVE  [Inbox!InboxNext]_<<Accepted, Waiting, settled, dead>>
<1> DEFINE Stutter == /\ Accepted' = Accepted /\ Waiting' = Waiting
                      /\ settled' = settled /\ dead' = dead
<1>s. Stutter => [Inbox!InboxNext]_<<Accepted, Waiting, settled, dead>>
  OBVIOUS
<1>a. \A i \in Ids : stream[i].claim \in Accepted
  BY DEF Accepted
<1>b. stream' = stream => Accepted' = Accepted /\ Waiting' = Waiting
  BY DEF Accepted, Waiting, Ids
<1>1. ASSUME NEW c \in Claims, Enqueue(c) PROVE Inbox!Accept(c)
  <2> DEFINE e == FreshEntry(c, 1)
  <2>1. e \in Entry /\ ~e.acked /\ e.claim = c
    BY FreshEntryIsEntry, QueueAssumption
  <2>2. XADD(e) /\ UNCHANGED <<settled, dead>>
    BY <1>1 DEF Enqueue
  <2>3. c \notin Accepted
    BY <1>1 DEF Enqueue, Accepted
  <2> HIDE DEF e
  <2>4. Accepted' = Accepted \cup {c} /\ Waiting' = Waiting \cup {c}
    BY <2>1, <2>2, AppendingMaps
  <2> QED BY <2>2, <2>3, <2>4 DEF Inbox!Accept
<1>2. ASSUME NEW w \in Workers, Retry(w)
      PROVE  \E c \in Claims : Inbox!Requeue(c)
  <2> DEFINE c == CurrentEntry(w).claim
             e == FreshEntry(c, CurrentEntry(w).attempts + 1)
  <2>1. CurrentEntry(w) \in Entry /\ c \in Accepted
    BY <1>2, <1>a, HeldEntry DEF Retry, CurrentEntry
  <2>2. c \in Claims /\ CurrentEntry(w).attempts + 1 \in 1..MAX_ATTEMPTS
    BY <1>2, <2>1, QueueAssumption DEF Retry, is_last_attempt, Entry
  <2>3. e \in Entry /\ ~e.acked /\ e.claim = c
    BY <2>2, FreshEntryIsEntry
  <2>4. XADD(e) /\ UNCHANGED <<settled, dead>>
    BY <1>2 DEF Retry
  <2> HIDE DEF c, e
  <2>5. Accepted' = Accepted \cup {c} /\ Waiting' = Waiting \cup {c}
    BY <2>3, <2>4, AppendingMaps
  <2>6. Accepted' = Accepted
    BY <2>1, <2>5
  <2> QED BY <2>1, <2>2, <2>4, <2>5, <2>6 DEF Inbox!Requeue
<1>3. ASSUME NEW w \in Workers, Release(w) \/ DiscardMalformed(w)
      PROVE  Stutter \/ \E c \in Claims : Inbox!Retire(c)
  <2> DEFINE i == Current(w)
  <2>1. /\ i \in Ids /\ CurrentEntry(w) = stream[i] /\ stream[i] \in Entry
    BY <1>3, HeldEntry DEF Release, DiscardMalformed, CurrentEntry
  <2>2. XACK(i) /\ UNCHANGED <<settled, dead>>
    BY <1>3 DEF Release, DiscardMalformed
  <2> DEFINE c == stream[i].claim
  <2>3. c \in Claims
    BY <2>1 DEF Entry
  <2> HIDE DEF i
  <2>4. /\ Accepted' = Accepted
        /\ Waiting' = Waiting \/ (c \in Waiting /\ Waiting' = Waiting \ {c})
    BY <2>1, <2>2, AcknowledgingMaps
  <2>5. CASE Waiting' = Waiting
    BY <2>2, <2>4, <2>5
  <2>6. CASE c \in Waiting /\ Waiting' = Waiting \ {c} /\ Waiting' # Waiting
    <3>1. IInv'
      BY NextIInv
    <3>2. Ids' = Ids /\ stream'[i].claim = c
      BY <2>1, <2>2, XACKMarks DEF IInv, SameClaims, Ids
    <3>3. c \notin Waiting'
      BY <2>6
    <3>4. ~(\E j \in Ids' : stream'[j].claim = c /\ ~stream'[j].acked)
      BY <3>3 DEF Waiting
    <3>5. c \in settled' \cup dead' \cup Undecodable
      <4>1. \A k \in Ids' : \/ stream'[k].claim \in settled' \cup dead' \cup Undecodable
                            \/ \E j \in Ids' : /\ stream'[j].claim = stream'[k].claim
                                               /\ ~stream'[j].acked
        BY <3>1 DEF IInv, Covered, Closed
      <4> QED BY <2>1, <3>2, <3>4, <4>1
    <3>6. Inbox!Done(c)
      BY <2>2, <3>5 DEF Inbox!Done
    <3> HIDE DEF c
    <3> QED BY <2>2, <2>3, <2>4, <2>6, <3>6 DEF Inbox!Retire
  <2> QED BY <2>4, <2>5, <2>6
<1>4. ASSUME NEW w \in Workers, RateLimited(w) \/ Commit(w)
      PROVE  \E c \in Claims : Inbox!Settle(c)
  <2> DEFINE c == CurrentEntry(w).claim
  <2>1. c \in Accepted /\ c \in Claims
    BY <1>4, <1>a, HeldEntry DEF RateLimited, Commit, CurrentEntry, Entry
  <2>2. /\ settled' = settled \cup {c} /\ dead' = dead
        /\ Accepted' = Accepted /\ Waiting' = Waiting
    BY <1>4, <1>b DEF RateLimited, Commit
  <2> HIDE DEF c
  <2> QED BY <2>1, <2>2 DEF Inbox!Settle
<1>5. ASSUME NEW w \in Workers, Bury(w)
      PROVE  \E c \in Claims : Inbox!DeadLetter(c)
  <2> DEFINE c == CurrentEntry(w).claim
  <2>1. c \in Accepted /\ c \in Claims
    BY <1>5, <1>a, HeldEntry DEF Bury, CurrentEntry, Entry
  <2>2. /\ dead' = dead \cup {c} /\ settled' = settled
        /\ Accepted' = Accepted /\ Waiting' = Waiting
    BY <1>5, <1>b DEF Bury, AddLetter
  <2> HIDE DEF c
  <2> QED BY <2>1, <2>2 DEF Inbox!DeadLetter
<1>6. ASSUME NEW w \in Workers, Sweep(w) \/ Consume(w) PROVE Stutter
  <2>1. SameEntries /\ UNCHANGED <<settled, dead>>
    BY <1>6, DeliverKeepsEntries DEF Sweep, Consume, IInv
  <2> QED BY <2>1, KeepingMaps
<1>7. ASSUME Tick PROVE Stutter
  <2>1. SameEntries /\ UNCHANGED <<settled, dead>>
    BY <1>7, TickKeepsEntries DEF Tick, IInv
  <2> QED BY <2>1, KeepingMaps
<1>8. ASSUME NEW w \in Workers,
             \/ SkipSweep(w) \/ GiveUp(w) \/ NotConfigured(w) \/ SendReply(w)
             \/ FailTurn(w) \/ TurnBreaks(w) \/ PassFailed(w) \/ Crash(w) \/ Restart(w)
      PROVE  Stutter
  BY <1>8, <1>b DEF SkipSweep, GiveUp, NotConfigured, SendReply, FailTurn, TurnBreaks,
                    PassFailed, Crash, Restart
<1>9. CASE UNCHANGED vars
  BY <1>9, <1>b DEF vars
<1> HIDE DEF Stutter
<1>10. ASSUME Next
       PROVE  Stutter \/ Inbox!InboxNext
  BY <1>10, <1>1, <1>2, <1>3, <1>4, <1>5, <1>6, <1>7, <1>8
     DEF Next, WorkerStep, Fault, Inbox!InboxNext
<1> QED BY <1>s, <1>9, <1>10

(* The queue implements the durable inbox: an accepted message stops       *)
(* waiting only when it is settled, dead or unparsable.                    *)
THEOREM ImplementsInbox == Spec => InboxSafety
<1>1. Init => Inbox!InboxInit
  BY DEF Init, Inbox!InboxInit, Accepted, Waiting, Ids
<1>2. IInv /\ [Next]_vars => [Inbox!InboxNext]_<<Accepted, Waiting, settled, dead>>
  BY StepMaps
<1>3. Inbox!inboxVars = <<Accepted, Waiting, settled, dead>>
  BY DEF Inbox!inboxVars
<1> QED
  BY <1>1, <1>2, InitIInv, NextIInv, PTL
     DEF Spec, InboxSafety, Inbox!InboxSafety, Inbox!inboxVars

-----------------------------------------------------------------------------
(* Two workers never hold one entry at a time, if no entry grows stale     *)
(* before the worker that holds it is done with its whole batch. The code  *)
(* asks for less (config.py: inbound_retry_after_seconds must exceed one   *)
(* slow turn, not a batch of them), hence the hypothesis of the theorems   *)
(* below, ReclaimOutlastsBatch.                                            *)

(* The longest a worker takes over one entry of a loop: its turn, or the   *)
(* look at a swept entry, then the two calls that end the entry's life.    *)
FirstMax == IF TurnMax > CallMax THEN TurnMax ELSE CallMax
EntryMax == FirstMax + 2 * CallMax

ReclaimOutlastsBatch == DEFAULT_BATCH_SIZE * EntryMax < MIN_IDLE

(* How much of EntryMax a worker has used on the entry it is at, and how   *)
(* old that lets the entries of its batch be.                              *)
Used(w) ==
  worker[w].spent + (IF worker[w].pc = "bury" THEN FirstMax
                     ELSE IF worker[w].pc = "release" THEN FirstMax + CallMax ELSE 0)

Allowed(w) == (DEFAULT_BATCH_SIZE - Cardinality(worker[w].todo)) * EntryMax + Used(w)

OutOfLoop == {"poll", "fetch", "down"}

(* Where a worker can be: a loop's first step belongs to that loop, and    *)
(* no step takes longer than its bound.                                    *)
Placed(w) ==
  /\ worker[w].pc \in OutOfLoop => worker[w].todo = {}
  /\ worker[w].pc = "sweep" => worker[w].mode = "sweep"
  /\ InTurn(w) => worker[w].mode = "turn"
  /\ worker[w].pc \notin OutOfLoop => worker[w].spent <= StepMax(w)

(* A worker holds pending entries, at most a batch of them, none older     *)
(* than the time it may have spent on the batch so far.                    *)
InTime(w) ==
  /\ Placed(w)
  /\ worker[w].todo \subseteq Pending
  /\ Cardinality(worker[w].todo) <= DEFAULT_BATCH_SIZE
  /\ \A i \in worker[w].todo : stream[i].idle <= Allowed(w)

Apart == \A v, w \in Workers : v # w => worker[v].todo \cap worker[w].todo = {}

Held == Apart /\ \A w \in Workers : InTime(w)

LEMMA Durations ==
  /\ TurnMax \in Nat /\ CallMax \in Nat /\ FirstMax \in Nat /\ EntryMax \in Nat
  /\ TurnMax <= FirstMax /\ CallMax <= FirstMax /\ EntryMax = FirstMax + 2 * CallMax
BY QueueAssumption DEF FirstMax, EntryMax

LEMMA Products ==
  ASSUME NEW a \in Nat, NEW b \in Nat, NEW s \in Nat, a <= b
  PROVE  a * s \in Nat /\ (a + 1) * s = a * s + s /\ a * s <= b * s
<1>1. a * s \in Nat /\ (a + 1) * s = a * s + s
  OBVIOUS
<1>2. PICK d \in Nat : b = a + d
  <2>1. b - a \in Nat /\ b = a + (b - a)
    OBVIOUS
  <2> QED BY <2>1
<1>3. b * s = a * s + d * s /\ d * s \in Nat
  BY <1>2
<1> QED BY <1>1, <1>3

(* Sets of entry ids are finite.                                           *)
LEMMA IdsFinite ==
  ASSUME NEW n \in Nat, NEW S \in SUBSET (1..n)
  PROVE  IsFiniteSet(S) /\ Cardinality(S) \in Nat
<1>1. 1 \in Int /\ n \in Int
  OBVIOUS
<1>2. IsFiniteSet(1..n)
  BY <1>1, FS_Interval
<1> QED BY <1>2, FS_Subset, FS_CardinalityType

(* What Redis returns is a batch, taken from the front.                    *)
LEMMA FirstOfBatch ==
  ASSUME NEW n \in Nat, NEW m \in Nat, NEW S \in SUBSET (1..m)
  PROVE  /\ FirstOf(n, S) \subseteq S
         /\ IsFiniteSet(FirstOf(n, S)) /\ Cardinality(FirstOf(n, S)) <= n
         /\ \A i \in FirstOf(n, S), j \in S : j <= i => j \in FirstOf(n, S)
<1> DEFINE Upto(i) == {j \in S : j <= i}
<1>1. IsFiniteSet(S)
  BY IdsFinite
<1>2. \A i : IsFiniteSet(Upto(i)) /\ Cardinality(Upto(i)) \in Nat
  BY <1>1, FS_Subset, FS_CardinalityType
<1>3. FirstOf(n, S) = {i \in S : Cardinality(Upto(i)) <= n}
  BY DEF FirstOf
<1> DEFINE F == FirstOf(n, S)
<1>4. F \subseteq S /\ IsFiniteSet(F) /\ Cardinality(F) \in Nat
  BY <1>1, <1>3, FS_Subset, FS_CardinalityType
<1>5. Cardinality(F) <= n
  <2>1. CASE F = {}
    BY <2>1, FS_EmptySet
  <2>2. CASE F # {}
    <3>1. F \in SUBSET (1..m)
      BY <1>4
    <3> HIDE DEF F
    <3>2. PICK i \in F : \A j \in F : j <= i
      BY <2>2, <3>1, MaxExists
    <3>3. F \subseteq Upto(i)
      BY <1>4, <3>2
    <3>4. Cardinality(Upto(i)) <= n
      BY <1>3, <3>2 DEF F
    <3>5. Cardinality(F) <= Cardinality(Upto(i))
      BY <1>2, <3>3, FS_Subset
    <3> HIDE DEF Upto
    <3> QED BY <1>2, <1>4, <3>4, <3>5
  <2> QED BY <2>1, <2>2
<1>6. ASSUME NEW i \in F, NEW j \in S, j <= i PROVE j \in F
  <2>1. i \in S
    BY <1>4
  <2>a. \A k \in S : k \in Nat
    OBVIOUS
  <2>2. Upto(j) \subseteq Upto(i)
    <3> SUFFICES ASSUME NEW k \in S, k <= j PROVE k <= i
      OBVIOUS
    <3>1. k \in Nat /\ j \in Nat /\ i \in Nat
      BY <2>1, <2>a
    <3> QED BY <1>6, <3>1
  <2>3. Cardinality(Upto(j)) <= Cardinality(Upto(i)) /\ Cardinality(Upto(i)) <= n
    BY <1>2, <1>3, <2>2, FS_Subset
  <2> HIDE DEF Upto
  <2>4. Cardinality(Upto(j)) <= n
    BY <1>2, <2>3
  <2> QED BY <1>3, <2>4
<1> QED BY <1>4, <1>5, <1>6

(* What a worker holds is finite.                                          *)
LEMMA HeldFinite ==
  ASSUME TypeOK, NEW w \in Workers, worker[w].todo \subseteq Ids
  PROVE  /\ worker[w] \in Worker /\ worker[w].spent \in Nat
         /\ IsFiniteSet(worker[w].todo) /\ Cardinality(worker[w].todo) \in Nat
         /\ worker[w].todo # {} => Cardinality(worker[w].todo) >= 1
         /\ Used(w) \in Nat
<1>1. worker[w] \in Worker /\ worker[w].spent \in Nat
  BY DEF TypeOK, Worker
<1>2. IsFiniteSet(worker[w].todo)
  <2>1. Len(stream) \in Nat
    BY DEF TypeOK
  <2> QED BY <2>1, IdsFinite DEF Ids
<1>3. Cardinality(worker[w].todo) \in Nat
  BY <1>2, FS_CardinalityType
<1>4. worker[w].todo # {} => Cardinality(worker[w].todo) # 0
  BY <1>2, FS_EmptySet
<1>5. Used(w) \in Nat
  BY <1>1, Durations DEF Used
<1> QED BY <1>1, <1>2, <1>3, <1>4, <1>5

(* A worker in a loop is within EntryMax on the entry it is at.            *)
LEMMA UsedBounded ==
  ASSUME IInv, NEW w \in Workers, Placed(w), worker[w].todo # {}
  PROVE  Used(w) <= EntryMax
<1>1. worker[w].spent \in Nat
  BY DEF IInv, TypeOK, Worker
<1>2. worker[w].pc \notin OutOfLoop /\ worker[w].spent <= StepMax(w)
  BY DEF Placed
<1>3. StepMax(w) <= FirstMax /\ StepMax(w) \in Nat
      /\ (worker[w].pc \notin {"turn", "sent"} => StepMax(w) = CallMax)
  BY Durations DEF StepMax
<1> QED BY <1>1, <1>2, <1>3, Durations DEF Used

(* No other sweep takes back an entry a worker holds.                      *)
LEMMA NotStaleYet ==
  ASSUME IInv, ReclaimOutlastsBatch, NEW w \in Workers, InTime(w), NEW i \in worker[w].todo
  PROVE  i \notin Stale
<1> DEFINE n == Cardinality(worker[w].todo)
           B == DEFAULT_BATCH_SIZE
<1>1. worker[w].todo \subseteq Ids
  BY DEF InTime, Pending
<1>2. n \in Nat /\ n >= 1 /\ Used(w) \in Nat /\ n <= B /\ B \in Nat
  BY <1>1, HeldFinite, QueueAssumption DEF IInv, InTime
<1>3. Used(w) <= EntryMax
  BY UsedBounded DEF InTime
<1>4. (B - n) * EntryMax + EntryMax <= B * EntryMax /\ (B - n) * EntryMax \in Nat
      /\ B * EntryMax \in Nat
  <2>1. B - n \in Nat /\ (B - n) + 1 \in Nat /\ (B - n) + 1 <= B
    BY <1>2
  <2> DEFINE d == B - n
  <2> HIDE DEF d, B
  <2>2. d * EntryMax \in Nat /\ (d + 1) * EntryMax = d * EntryMax + EntryMax
    BY <2>1, Durations, Products DEF d
  <2>3. (d + 1) * EntryMax <= B * EntryMax /\ B * EntryMax \in Nat
    BY <1>2, <2>1, Durations, Products DEF d
  <2> QED BY <2>2, <2>3 DEF d
<1>5. stream[i].idle <= (B - n) * EntryMax + Used(w)
  BY DEF InTime, Allowed
<1>6. stream[i].idle \in Nat
  <2>1. stream[i] \in Entry
    BY <1>1 DEF IInv, TypeOK, Ids
  <2> QED BY <2>1, QueueAssumption DEF Entry
<1> HIDE DEF n, B
<1>7. stream[i].idle <= B * EntryMax
  BY <1>2, <1>3, <1>4, <1>5, <1>6, Durations
<1>8. B * EntryMax < MIN_IDLE
  BY DEF ReclaimOutlastsBatch, B
<1>9. MIN_IDLE \in Nat
  BY QueueAssumption
<1>10. stream[i].idle # MIN_IDLE
  BY <1>4, <1>6, <1>7, <1>8, <1>9
<1> QED BY <1>10 DEF Stale

-----------------------------------------------------------------------------
(* What a step does to the worker that takes it: it goes on to the next    *)
(* call about the entry it is at, it moves on to the next entry, or it     *)
(* holds nothing any more.                                                 *)
Others(w) == \A v \in Workers : v # w => worker'[v] = worker[v]

Answered == {"sent", "bury", "release"}

GoesOn(w) ==
  /\ Others(w)
  /\ worker[w].pc \in {"sweep", "turn", "sent", "bury"} /\ worker'[w].pc \in Answered
  /\ worker[w].pc = "bury" => worker'[w].pc = "release"
  /\ worker'[w].pc = "sent" => worker[w].pc = "turn" /\ worker'[w].spent = worker[w].spent
  /\ worker'[w].pc # "sent" => worker'[w].spent = 0
  /\ worker'[w].todo = worker[w].todo /\ worker'[w].mode = worker[w].mode

Enters(w, mode, todo) ==
  /\ Others(w)
  /\ worker'[w].todo = todo /\ worker'[w].mode = mode /\ worker'[w].spent = 0
  /\ worker'[w].pc \in OutOfLoop => todo = {}
  /\ worker'[w].pc \notin OutOfLoop => worker'[w].pc = mode

MovesOn(w) ==
  /\ worker[w].pc \notin OutOfLoop
  /\ Enters(w, worker[w].mode, worker[w].todo \ {Current(w)})

LetsGo(w) == Others(w) /\ worker'[w].todo = {} /\ worker'[w].pc \in OutOfLoop

LEMMA LoopEnters ==
  ASSUME IInv, NEW w \in Workers, NEW mode \in {"sweep", "turn"}, NEW todo \in SUBSET Nat,
         Loop(w, mode, todo)
  PROVE  Enters(w, mode, todo)
BY LoopMoves DEF IInv, Enters, Others, OutOfLoop

LEMMA AdvanceMovesOn ==
  ASSUME IInv, NEW w \in Workers, worker[w].pc \notin OutOfLoop, Advance(w)
  PROVE  MovesOn(w)
<1>1. worker[w].mode \in {"sweep", "turn"} /\ worker[w].todo \ {Current(w)} \in SUBSET Nat
  BY DEF IInv, TypeOK, Worker
<1> QED BY <1>1, LoopEnters DEF Advance, MovesOn

LEMMA GotoGoesOn ==
  ASSUME IInv, NEW w \in Workers, NEW pc \in {"bury", "release"}, Goto(w, pc),
         worker[w].pc \in {"sweep", "turn", "sent", "bury"},
         worker[w].pc = "bury" => pc = "release"
  PROVE  GoesOn(w)
<1>1. pc \in PC
  BY DEF PC
<1> QED BY <1>1, GotoMoves DEF IInv, GoesOn, Others, Answered

LEMMA SendGoesOn ==
  ASSUME IInv, NEW w \in Workers, SendReply(w)
  PROVE  GoesOn(w) /\ worker'[w].pc = "sent"
<1>1. worker \in [Workers -> Worker] /\ worker[w] \in Worker /\ worker[w].pc = "turn"
      /\ worker' = [worker EXCEPT ![w].pc = "sent"]
  BY DEF IInv, TypeOK, SendReply
<1>2. Others(w) /\ worker'[w] = [worker[w] EXCEPT !.pc = "sent"]
  BY <1>1 DEF Others
<1> QED BY <1>1, <1>2 DEF GoesOn, Answered, Worker

LEMMA FailureMoves ==
  ASSUME IInv, NEW w \in Workers, InTurn(w), AfterFailure(w)
  PROVE  (GoesOn(w) /\ worker'[w].pc = "bury") \/ MovesOn(w)
<1>1. CASE is_last_attempt(CurrentEntry(w))
  <2>1. Goto(w, "bury")
    BY <1>1 DEF AfterFailure
  <2>2. worker'[w].pc = "bury"
    BY <2>1, GotoMoves DEF IInv, PC
  <2> QED BY <2>1, <2>2, GotoGoesOn DEF InTurn
<1>2. CASE ~is_last_attempt(CurrentEntry(w))
  BY <1>2, AdvanceMovesOn DEF AfterFailure, InTurn, OutOfLoop
<1> QED BY <1>1, <1>2

LEMMA Kinds ==
  ASSUME IInv, NEW w \in Workers
  PROVE  /\ (SkipSweep(w) /\ Placed(w)) \/ PassFailed(w) \/ Crash(w) \/ Restart(w) => LetsGo(w)
         /\ GiveUp(w) \/ Retry(w) \/ RateLimited(w) \/ NotConfigured(w) \/ Commit(w) \/ Bury(w)
              => GoesOn(w) /\ worker'[w].pc \in {"bury", "release"}
         /\ DiscardMalformed(w) \/ Release(w) => MovesOn(w)
<1>1. ASSUME SkipSweep(w), Placed(w) PROVE LetsGo(w)
  <2>1. worker[w].todo = {} /\ Goto(w, "fetch")
    BY <1>1 DEF SkipSweep, Placed, OutOfLoop
  <2> QED BY <2>1, GotoMoves DEF IInv, LetsGo, Others, OutOfLoop, PC
<1>2. ASSUME PassFailed(w) \/ Crash(w) \/ Restart(w) PROVE LetsGo(w)
  <2>1. PICK r \in {[Idle EXCEPT !.pass = NextPass(w)], Down, Idle} :
          worker' = [worker EXCEPT ![w] = r]
    BY <1>2 DEF PassFailed, Crash, Restart
  <2>2. r.todo = {} /\ r.pc \in OutOfLoop
    BY <2>1 DEF Idle, Down, OutOfLoop
  <2>3. worker'[w] = r /\ Others(w)
    BY <2>1 DEF IInv, TypeOK, Others
  <2> QED BY <2>2, <2>3 DEF LetsGo
<1>3. ASSUME NEW pc \in {"bury", "release"}, Goto(w, pc),
             worker[w].pc \in {"sweep", "turn", "sent", "bury"},
             worker[w].pc = "bury" => pc = "release"
      PROVE  GoesOn(w) /\ worker'[w].pc \in {"bury", "release"}
  <2>1. worker'[w].pc = pc
    BY <1>3, GotoMoves DEF IInv, PC
  <2> QED BY <1>3, <2>1, GotoGoesOn
<1>4. ASSUME GiveUp(w) \/ Retry(w) \/ RateLimited(w) \/ NotConfigured(w) \/ Commit(w) \/ Bury(w)
      PROVE  GoesOn(w) /\ worker'[w].pc \in {"bury", "release"}
  BY <1>3, <1>4 DEF GiveUp, Retry, RateLimited, NotConfigured, Commit, Bury
<1>5. ASSUME DiscardMalformed(w) \/ Release(w) PROVE MovesOn(w)
  BY <1>5, AdvanceMovesOn DEF DiscardMalformed, Release, OutOfLoop
<1> QED BY <1>1, <1>2, <1>4, <1>5

-----------------------------------------------------------------------------
(* A worker that keeps to its time, d ticks later.                         *)
LEMMA InTimeStep ==
  ASSUME IInv, IInv', NEW w \in Workers, InTime(w), Placed(w)', NEW d \in Nat,
         worker'[w].todo \subseteq worker[w].todo, worker'[w].todo \subseteq Pending',
         \A i \in worker'[w].todo : stream'[i].idle <= stream[i].idle + d,
         Allowed(w) + d <= Allowed(w)'
  PROVE  InTime(w)'
<1>1. worker[w].todo \subseteq Ids /\ worker'[w].todo \subseteq Ids'
  BY DEF InTime, Pending
<1>2. /\ IsFiniteSet(worker[w].todo) /\ Cardinality(worker[w].todo) \in Nat
      /\ Cardinality(worker'[w].todo) \in Nat /\ Used(w) \in Nat /\ Used(w)' \in Nat
  <2>1. IsFiniteSet(worker[w].todo) /\ Cardinality(worker[w].todo) \in Nat /\ Used(w) \in Nat
    BY <1>1, HeldFinite DEF IInv
  <2>2. Used(w)' \in Nat
    <3>1. worker'[w].spent \in Nat
      BY DEF IInv, TypeOK, Worker
    <3> QED BY <3>1, Durations DEF Used
  <2> QED BY <2>1, <2>2, FS_Subset, FS_CardinalityType
<1>3. Cardinality(worker'[w].todo) <= Cardinality(worker[w].todo)
  BY <1>2, FS_Subset
<1>4. Cardinality(worker'[w].todo) <= DEFAULT_BATCH_SIZE
  BY <1>2, <1>3, QueueAssumption DEF InTime
<1>5. \A n \in Nat : n <= DEFAULT_BATCH_SIZE => (DEFAULT_BATCH_SIZE - n) * EntryMax \in Nat
  <2> SUFFICES ASSUME NEW n \in Nat, n <= DEFAULT_BATCH_SIZE
               PROVE  (DEFAULT_BATCH_SIZE - n) * EntryMax \in Nat
    OBVIOUS
  <2>1. DEFAULT_BATCH_SIZE - n \in Nat
    BY QueueAssumption
  <2> QED BY <2>1, Durations, Products
<1>6. Allowed(w) \in Nat /\ Allowed(w)' \in Nat
  <2>1. (DEFAULT_BATCH_SIZE - Cardinality(worker[w].todo)) * EntryMax \in Nat
    BY <1>2, <1>5 DEF InTime
  <2>2. (DEFAULT_BATCH_SIZE - Cardinality(worker'[w].todo)) * EntryMax \in Nat
    BY <1>2, <1>4, <1>5
  <2> QED BY <1>2, <2>1, <2>2 DEF Allowed
<1>7. ASSUME NEW i \in worker'[w].todo PROVE stream'[i].idle <= Allowed(w)'
  <2>1. stream[i] \in Entry /\ stream'[i] \in Entry
    BY <1>1 DEF IInv, TypeOK, Ids
  <2>2. stream[i].idle \in Nat /\ stream'[i].idle \in Nat
    BY <2>1, QueueAssumption DEF Entry
  <2>3. stream[i].idle <= Allowed(w)
    BY DEF InTime
  <2> QED BY <1>6, <2>2, <2>3
<1> QED BY <1>4, <1>7 DEF InTime

(* What may happen to the entries while workers hold some: nobody makes    *)
(* them older, and only those of X are acknowledged.                       *)
Undisturbed(X) ==
  /\ Ids \subseteq Ids' /\ Pending \subseteq {i \in Ids : i <= delivered'}
  /\ \A i \in Ids : /\ stream'[i].idle <= stream[i].idle
                    /\ stream'[i].acked => stream[i].acked \/ i \in X

LEMMA StillPending ==
  ASSUME NEW X, Undisturbed(X), NEW i \in Pending, i \notin X
  PROVE  i \in Pending' /\ stream'[i].idle <= stream[i].idle
BY DEF Undisturbed, Pending

LEMMA InTimeKept ==
  ASSUME IInv, IInv', NEW v \in Workers, InTime(v), worker'[v] = worker[v],
         NEW X, Undisturbed(X), worker[v].todo \cap X = {}
  PROVE  InTime(v)'
<1>1. worker[v].todo \subseteq Pending
  BY DEF InTime
<1>2. \A i \in worker[v].todo : i \notin X /\ i \in Pending
  BY <1>1
<1>3. \A i \in worker[v].todo : i \in Pending' /\ stream'[i].idle <= stream[i].idle
  BY <1>2, StillPending
<1>4. Placed(v)' /\ Allowed(v)' = Allowed(v)
  BY <1>1 DEF InTime, Placed, InTurn, StepMax, Allowed, Used
<1>5. \A i \in worker'[v].todo : stream'[i].idle <= stream[i].idle + 0
  <2> SUFFICES ASSUME NEW i \in worker[v].todo PROVE stream'[i].idle <= stream[i].idle + 0
    BY <1>1
  <2>1. stream[i] \in Entry
    BY <1>2 DEF IInv, TypeOK, Ids, Pending
  <2>2. stream[i].idle \in Nat
    BY <2>1, QueueAssumption DEF Entry
  <2> QED BY <1>3, <2>2
<1>6. Allowed(v) \in Int
  <2>1. Cardinality(worker[v].todo) \in Nat /\ Used(v) \in Nat
    BY <1>1, HeldFinite DEF IInv, Pending
  <2>2. DEFAULT_BATCH_SIZE - Cardinality(worker[v].todo) \in Nat
    BY <1>1, <2>1, QueueAssumption DEF InTime
  <2>3. (DEFAULT_BATCH_SIZE - Cardinality(worker[v].todo)) * EntryMax \in Nat
    BY <2>2, Durations, Products
  <2> QED BY <2>1, <2>3 DEF Allowed
<1>7. Allowed(v) + 0 <= Allowed(v)'
  BY <1>4, <1>6
<1>8. worker'[v].todo \subseteq worker[v].todo /\ worker'[v].todo \subseteq Pending'
  BY <1>1, <1>3
<1> QED BY <1>1, <1>4, <1>5, <1>7, <1>8, InTimeStep

LEMMA HeldStep ==
  ASSUME IInv, IInv', Held, NEW w \in Workers, Others(w), InTime(w)', NEW X, Undisturbed(X),
         \A v \in Workers : v # w => worker[v].todo \cap (X \cup worker'[w].todo) = {}
  PROVE  Held'
<1>1. ASSUME NEW v \in Workers, v # w PROVE InTime(v)'
  BY <1>1, InTimeKept DEF Others, Held
<1>2. Apart'
  <2> SUFFICES ASSUME NEW u \in Workers, NEW v \in Workers, u # v
               PROVE  worker'[u].todo \cap worker'[v].todo = {}
    BY DEF Apart
  <2>1. CASE u # w /\ v # w
    BY <2>1 DEF Others, Held, Apart
  <2>2. CASE u = w
    BY <2>2 DEF Others
  <2>3. CASE v = w
    BY <2>3 DEF Others
  <2> QED BY <2>1, <2>2, <2>3
<1> QED BY <1>1, <1>2 DEF Held

LEMMA HeldGoesOn ==
  ASSUME IInv, IInv', Held, NEW w \in Workers, GoesOn(w), Undisturbed({})
  PROVE  Held'
<1>1. InTime(w) /\ Placed(w) /\ worker[w].spent \in Nat
  BY DEF Held, InTime, IInv, TypeOK, Worker
<1>2. \A i \in worker[w].todo : i \in Pending' /\ stream'[i].idle <= stream[i].idle
  BY <1>1, StillPending DEF InTime
<1>3. Placed(w)'
  BY <1>1, Durations DEF GoesOn, Placed, OutOfLoop, Answered, InTurn, StepMax
<1>4. Used(w) <= Used(w)' /\ Used(w) \in Nat /\ Used(w)' \in Nat
  <2>1. worker[w].pc = "bury" => worker[w].spent <= CallMax
    BY <1>1 DEF Placed, OutOfLoop, StepMax
  <2>2. worker[w].pc \notin {"bury", "release"} => worker[w].spent <= FirstMax
    <3>1. StepMax(w) <= FirstMax /\ StepMax(w) \in Nat
      BY Durations DEF StepMax
    <3>2. worker[w].pc \notin OutOfLoop
      BY DEF GoesOn, OutOfLoop
    <3> QED BY <1>1, <3>1, <3>2, Durations DEF Placed
  <2>3. worker'[w].spent \in Nat
    BY DEF IInv, TypeOK, Worker
  <2>4. CASE worker[w].pc = "bury"
    <3>1. Used(w) = worker[w].spent + FirstMax
          /\ Used(w)' = worker'[w].spent + (FirstMax + CallMax)
      BY <2>4 DEF GoesOn, Used
    <3> QED BY <1>1, <2>1, <2>3, <2>4, <3>1, Durations
  <2>5. CASE worker[w].pc # "bury"
    <3>1. Used(w) = worker[w].spent + 0 /\ worker[w].spent <= FirstMax
      BY <2>2, <2>5 DEF GoesOn, Used
    <3>2. CASE worker'[w].pc = "sent"
      BY <1>1, <3>1, <3>2 DEF GoesOn, Used
    <3>3. CASE worker'[w].pc # "sent"
      <4>1. \/ Used(w)' = worker'[w].spent + FirstMax
            \/ Used(w)' = worker'[w].spent + (FirstMax + CallMax)
        BY <3>3 DEF GoesOn, Used, Answered
      <4> QED BY <1>1, <2>3, <3>1, <4>1, Durations
    <3> QED BY <3>2, <3>3
  <2> QED BY <2>4, <2>5
<1>5. InTime(w)'
  <2>1. worker'[w].todo = worker[w].todo
    BY DEF GoesOn
  <2>2. \A i \in worker'[w].todo : i \in Pending' /\ stream'[i].idle <= stream[i].idle + 0
    <3> SUFFICES ASSUME NEW i \in worker[w].todo
                 PROVE  i \in Pending' /\ stream'[i].idle <= stream[i].idle + 0
      BY <2>1
    <3>1. stream[i] \in Entry
      BY <1>1 DEF InTime, IInv, TypeOK, Ids, Pending
    <3>2. stream[i].idle \in Nat
      BY <3>1, QueueAssumption DEF Entry
    <3> QED BY <1>2, <3>2
  <2>3. Allowed(w) + 0 <= Allowed(w)'
    <3> DEFINE n == DEFAULT_BATCH_SIZE - Cardinality(worker[w].todo)
    <3>1. n \in Nat
      <4>1. Cardinality(worker[w].todo) \in Nat
        BY <1>1, HeldFinite DEF IInv, InTime, Pending
      <4> QED BY <1>1, <4>1, QueueAssumption DEF InTime
    <3>2. n * EntryMax \in Nat
      BY <3>1, Durations, Products
    <3>3. Allowed(w) = n * EntryMax + Used(w) /\ Allowed(w)' = n * EntryMax + Used(w)'
      BY <2>1 DEF Allowed
    <3> HIDE DEF n
    <3> QED BY <1>4, <3>2, <3>3
  <2> QED BY <1>1, <1>3, <2>1, <2>2, <2>3, InTimeStep
<1>6. \A v \in Workers : v # w => worker[v].todo \cap ({} \cup worker'[w].todo) = {}
  BY DEF Held, Apart, GoesOn
<1> QED BY <1>5, <1>6, HeldStep DEF GoesOn

LEMMA HeldMovesOn ==
  ASSUME IInv, IInv', Held, NEW w \in Workers, MovesOn(w),
         NEW X \in SUBSET {Current(w)}, Undisturbed(X)
  PROVE  Held'
<1> DEFINE i0 == Current(w)
           todo == worker[w].todo
<1>1. InTime(w) /\ Placed(w)
  BY DEF Held, InTime
<1>2. i0 \in todo /\ todo # {}
  BY HeldEntry DEF MovesOn, OutOfLoop
<1>3. worker'[w].todo = todo \ {i0} /\ worker'[w].spent = 0 /\ worker'[w].mode = worker[w].mode
      /\ Others(w)
  BY DEF MovesOn, Enters
<1>4. \A i \in todo \ {i0} : i \in Pending' /\ stream'[i].idle <= stream[i].idle
  BY <1>1, StillPending DEF InTime
<1>5. worker[w].mode \in {"sweep", "turn"}
  BY DEF IInv, TypeOK, Worker
<1>6. Placed(w)'
  <2>1. 0 <= StepMax(w)'
    BY Durations DEF StepMax
  <2> QED BY <1>3, <1>5, <2>1 DEF MovesOn, Enters, Placed, OutOfLoop, InTurn
<1>7. Used(w)' = 0
  BY <1>3, <1>5 DEF MovesOn, Enters, OutOfLoop, Used
<1>8. Allowed(w) + 0 <= Allowed(w)'
  <2> DEFINE n == Cardinality(todo)
             d == DEFAULT_BATCH_SIZE - n
  <2>1. n \in Nat /\ n >= 1 /\ Used(w) \in Nat /\ IsFiniteSet(todo)
    BY <1>1, <1>2, HeldFinite DEF IInv, InTime, Pending
  <2>2. Cardinality(worker'[w].todo) = n - 1
    <3> HIDE DEF todo, i0
    <3>1. Cardinality(todo \ {i0}) = Cardinality(todo) - 1
      BY <1>2, <2>1, FS_RemoveElement
    <3> QED BY <1>3, <3>1
  <2>3. d \in Nat
    BY <1>1, <2>1, QueueAssumption DEF InTime
  <2>4. DEFAULT_BATCH_SIZE - (n - 1) = d + 1
    BY <2>1, QueueAssumption
  <2> HIDE DEF d
  <2>5. (d + 1) * EntryMax = d * EntryMax + EntryMax /\ d * EntryMax \in Nat
    BY <2>3, Durations, Products
  <2>6. Allowed(w)' = d * EntryMax + EntryMax
    BY <1>7, <2>2, <2>4, <2>5, Durations DEF Allowed
  <2>7. Allowed(w) = d * EntryMax + Used(w)
    BY DEF Allowed, d
  <2>8. Used(w) <= EntryMax
    BY <1>1, <1>2, UsedBounded
  <2> HIDE DEF n
  <2> QED BY <2>1, <2>5, <2>6, <2>7, <2>8, Durations
<1>9. \A i \in todo \ {i0} : stream'[i].idle <= stream[i].idle + 0
  <2> SUFFICES ASSUME NEW i \in todo \ {i0} PROVE stream'[i].idle <= stream[i].idle + 0
    OBVIOUS
  <2>1. stream[i] \in Entry
    BY <1>1 DEF InTime, IInv, TypeOK, Ids, Pending
  <2>2. stream[i].idle \in Nat
    BY <2>1, QueueAssumption DEF Entry
  <2> QED BY <1>4, <2>2
<1>10. InTime(w)'
  BY <1>1, <1>3, <1>4, <1>6, <1>8, <1>9, InTimeStep
<1>11. \A v \in Workers : v # w => worker[v].todo \cap (X \cup worker'[w].todo) = {}
  BY <1>2, <1>3 DEF Held, Apart
<1> QED BY <1>3, <1>10, <1>11, HeldStep

LEMMA HeldEnters ==
  ASSUME IInv, IInv', Held, NEW w \in Workers, NEW mode \in {"sweep", "turn"},
         NEW todo \in SUBSET Pending', Enters(w, mode, todo), Undisturbed({}),
         Cardinality(todo) <= DEFAULT_BATCH_SIZE, \A i \in todo : stream'[i].idle = 0,
         \A v \in Workers : v # w => worker[v].todo \cap todo = {}
  PROVE  Held'
<1>1. worker'[w].todo = todo /\ worker'[w].spent = 0 /\ worker'[w].mode = mode /\ Others(w)
  BY DEF Enters
<1>2. Placed(w)'
  <2>1. 0 <= StepMax(w)'
    BY Durations DEF StepMax
  <2> QED BY <1>1, <2>1 DEF Enters, Placed, OutOfLoop, InTurn
<1>3. Used(w)' = 0
  BY <1>1 DEF Enters, OutOfLoop, Used
<1>4. 0 <= Allowed(w)'
  <2> DEFINE d == DEFAULT_BATCH_SIZE - Cardinality(todo)
  <2>1. Cardinality(todo) \in Nat
    <3>1. Len(stream') \in Nat /\ todo \in SUBSET (1..Len(stream'))
      BY DEF IInv, TypeOK, Pending, Ids
    <3> QED BY <3>1, IdsFinite
  <2>2. d \in Nat
    BY <2>1, QueueAssumption
  <2> HIDE DEF d
  <2>3. d * EntryMax \in Nat
    BY <2>2, Durations, Products
  <2>4. Allowed(w)' = d * EntryMax + 0
    BY <1>1, <1>3 DEF Allowed, d
  <2> QED BY <2>3, <2>4
<1>5. InTime(w)'
  BY <1>1, <1>2, <1>4 DEF InTime
<1>6. \A v \in Workers : v # w => worker[v].todo \cap ({} \cup worker'[w].todo) = {}
  BY <1>1
<1> QED BY <1>1, <1>5, <1>6, HeldStep

LEMMA HeldLetsGo ==
  ASSUME IInv, IInv', Held, NEW w \in Workers, LetsGo(w), Undisturbed({})
  PROVE  Held'
<1>1. worker'[w].todo = {} /\ worker'[w].pc \in OutOfLoop /\ Others(w)
  BY DEF LetsGo
<1>2. Cardinality(worker'[w].todo) <= DEFAULT_BATCH_SIZE
  BY <1>1, FS_EmptySet, QueueAssumption
<1>3. InTime(w)'
  BY <1>1, <1>2 DEF InTime, Placed, OutOfLoop, InTurn
<1> QED BY <1>1, <1>3, HeldStep

-----------------------------------------------------------------------------
(* An entry nobody has read is not acknowledged.                           *)
Fresh == \A i \in Ids : i > delivered => ~stream[i].acked

LEMMA FreshStep ==
  ASSUME IInv, IInv', Fresh, NEW X \in SUBSET Pending, Undisturbed(X), delivered <= delivered',
         \A i \in Ids' : i \notin Ids => ~stream'[i].acked
  PROVE  Fresh'
<1> SUFFICES ASSUME NEW i \in Ids', i > delivered', stream'[i].acked PROVE FALSE
  BY DEF Fresh
<1>1. i \in Ids /\ i \in Nat /\ delivered \in Nat /\ delivered' \in Nat
  BY DEF IInv, TypeOK, Ids
<1>2. i > delivered
  BY <1>1
<1>3. ~stream[i].acked
  BY <1>1, <1>2 DEF Fresh
<1>4. i \in X
  BY <1>1, <1>3 DEF Undisturbed
<1>5. i <= delivered
  BY <1>4 DEF Pending
<1> QED BY <1>1, <1>2, <1>5

(* The ways the stream changes are of that kind.                           *)
LEMMA SameUndisturbed ==
  ASSUME IInv, stream' = stream, delivered' = delivered
  PROVE  Undisturbed({}) /\ Ids' = Ids
<1>1. \A i \in Ids : stream[i].idle \in Nat
  <2> SUFFICES ASSUME NEW i \in Ids PROVE stream[i].idle \in Nat
    OBVIOUS
  <2>1. stream[i] \in Entry
    BY DEF IInv, TypeOK, Ids
  <2> QED BY <2>1, QueueAssumption DEF Entry
<1>2. \A i \in Ids : stream'[i].idle <= stream[i].idle
  BY <1>1
<1> QED BY <1>2 DEF Undisturbed, Ids, Pending

LEMMA AckUndisturbed ==
  ASSUME IInv, NEW k \in Ids, XACK(k), delivered' = delivered
  PROVE  Undisturbed({k}) /\ Ids' = Ids
<1>1. stream \in Seq(Entry) /\ Len(stream) \in Nat
  BY DEF IInv, TypeOK
<1>2. Ids' = Ids /\ \A i \in Ids : i # k => stream'[i].acked = stream[i].acked
  BY XACKMarks DEF IInv, SameClaims, Ids
<1>3. \A i \in Ids : stream'[i].idle = stream[i].idle /\ stream[i].idle \in Nat
  <2> SUFFICES ASSUME NEW i \in Ids PROVE stream'[i].idle = stream[i].idle /\ stream[i].idle \in Nat
    OBVIOUS
  <2>1. stream[i] \in Entry
    BY <1>1 DEF Ids
  <2>2. stream[i].idle \in Nat
    BY <2>1, QueueAssumption DEF Entry
  <2> DEFINE e == [stream[k] EXCEPT !.acked = TRUE]
  <2>3. stream'[i] = stream[i] \/ (i = k /\ stream'[i] = e)
    <3>1. stream' = [stream EXCEPT ![k] = e]
      BY DEF XACK
    <3> HIDE DEF e
    <3> QED BY <1>1, <3>1 DEF Ids
  <2>4. i = k => e.idle = stream[i].idle
    BY <2>1 DEF Entry
  <2> QED BY <2>2, <2>3, <2>4
<1> QED BY <1>2, <1>3 DEF Undisturbed, Pending

LEMMA AddUndisturbed ==
  ASSUME IInv, NEW e \in Entry, XADD(e), delivered' = delivered
  PROVE  /\ Undisturbed({}) /\ Ids' = Ids \cup {Len(stream) + 1} /\ Len(stream) + 1 \notin Ids
         /\ stream'[Len(stream) + 1] = e
<1>1. stream \in Seq(Entry) /\ Len(stream) \in Nat
  BY DEF IInv, TypeOK
<1>2. /\ Len(stream') = Len(stream) + 1
      /\ \A i \in Ids : stream'[i] = stream[i]
      /\ stream'[Len(stream) + 1] = e
  BY XADDAppends DEF IInv
<1>3. Ids' = Ids \cup {Len(stream) + 1} /\ Len(stream) + 1 \notin Ids
  BY <1>1, <1>2 DEF Ids
<1>4. \A i \in Ids : stream[i].idle \in Nat
  <2> SUFFICES ASSUME NEW i \in Ids PROVE stream[i].idle \in Nat
    OBVIOUS
  <2>1. stream[i] \in Entry
    BY <1>1 DEF Ids
  <2> QED BY <2>1, QueueAssumption DEF Entry
<1> QED BY <1>2, <1>3, <1>4 DEF Undisturbed, Pending

LEMMA DeliverUndisturbed ==
  ASSUME IInv, NEW S \in SUBSET Ids, Deliver(S), delivered' \in Nat, delivered <= delivered'
  PROVE  /\ Undisturbed({}) /\ Ids' = Ids
         /\ \A i \in S : stream'[i].idle = 0
         /\ \A i \in Ids : stream'[i].acked = stream[i].acked
<1>1. stream \in Seq(Entry) /\ Len(stream) \in Nat /\ delivered \in Nat
  BY DEF IInv, TypeOK
<1>2. Ids' = Ids /\ \A i \in Ids : stream'[i].acked = stream[i].acked
  BY DeliverKeepsEntries DEF IInv, SameEntries, SameClaims, Ids
<1>3. \A i \in Ids : /\ stream'[i].idle <= stream[i].idle
                     /\ i \in S => stream'[i].idle = 0
  <2> SUFFICES ASSUME NEW i \in Ids
               PROVE  /\ stream'[i].idle <= stream[i].idle
                      /\ i \in S => stream'[i].idle = 0
    OBVIOUS
  <2>1. stream[i] \in Entry
    BY <1>1 DEF Ids
  <2>2. stream[i].idle \in Nat
    BY <2>1, QueueAssumption DEF Entry
  <2>3. stream'[i] = IF i \in S THEN [stream[i] EXCEPT !.idle = 0] ELSE stream[i]
    BY DEF Deliver
  <2>4. i \in S => stream'[i].idle = 0
    BY <2>1, <2>3 DEF Entry
  <2> QED BY <2>2, <2>3, <2>4
<1>4. Pending \subseteq {i \in Ids : i <= delivered'}
  BY <1>1 DEF Pending, Ids
<1> QED BY <1>2, <1>3, <1>4 DEF Undisturbed

(* A tick makes what is pending one tick older, and so every batch.        *)
LEMMA HeldTick ==
  ASSUME IInv, IInv', Held, Tick
  PROVE  Held'
<1>1. stream \in Seq(Entry) /\ Len(stream) \in Nat
  BY DEF IInv, TypeOK
<1>2. SameEntries /\ Ids' = Ids /\ Pending' = Pending
  <2>1. SameEntries
    BY TickKeepsEntries DEF IInv
  <2>2. Ids' = Ids
    BY <2>1 DEF SameEntries, SameClaims, Ids
  <2>3. Pending' = Pending
    BY <2>1, <2>2 DEF SameEntries, Pending, Tick
  <2> QED BY <2>1, <2>2, <2>3
<1>3. \A i \in Ids : stream'[i].idle <= stream[i].idle + 1
  <2> SUFFICES ASSUME NEW i \in Ids PROVE stream'[i].idle <= stream[i].idle + 1
    OBVIOUS
  <2>1. stream[i] \in Entry
    BY <1>1 DEF Ids
  <2>2. stream[i].idle \in Nat
    BY <2>1, QueueAssumption DEF Entry
  <2>3. \/ stream'[i] = [stream[i] EXCEPT !.idle = @ + 1]
        \/ stream'[i] = stream[i]
    BY DEF Tick
  <2>4. stream'[i].idle \in {stream[i].idle, stream[i].idle + 1}
    BY <2>1, <2>3 DEF Entry
  <2> QED BY <2>2, <2>4
<1>4. ASSUME NEW w \in Workers PROVE InTime(w)' /\ worker'[w].todo = worker[w].todo
  <2>1. worker[w] \in Worker /\ worker[w].spent \in Nat /\ InTime(w) /\ Placed(w)
        /\ worker[w].todo \subseteq Pending
    BY DEF IInv, TypeOK, Worker, Held, InTime
  <2>2. worker'[w] = IF Busy(w) THEN [worker[w] EXCEPT !.spent = @ + 1] ELSE worker[w]
    BY DEF Tick
  <2>3. /\ worker'[w].pc = worker[w].pc /\ worker'[w].todo = worker[w].todo
        /\ worker'[w].mode = worker[w].mode
        /\ Busy(w) => worker'[w].spent = worker[w].spent + 1
        /\ Busy(w) => worker[w].spent < StepMax(w)
    BY <2>1, <2>2 DEF Worker, Tick
  <2>4. worker[w].pc \notin OutOfLoop => Busy(w)
    BY DEF Busy, OutOfLoop
  <2>5. StepMax(w)' = StepMax(w) /\ StepMax(w) \in Nat
    BY <2>3, Durations DEF StepMax
  <2>6. Placed(w)'
    BY <2>1, <2>3, <2>4, <2>5 DEF Placed, InTurn
  <2>7. CASE worker[w].todo = {}
    <3>1. worker'[w].todo = {} /\ Cardinality(worker'[w].todo) <= DEFAULT_BATCH_SIZE
      BY <2>1, <2>3, <2>7 DEF InTime
    <3> QED BY <2>3, <2>6, <3>1 DEF InTime
  <2>8. CASE worker[w].todo # {}
    <3>1. worker[w].pc \notin OutOfLoop
      BY <2>1, <2>8 DEF Placed
    <3>2. worker'[w].spent = worker[w].spent + 1
      BY <2>3, <2>4, <3>1
    <3>3. Used(w)' = Used(w) + 1 /\ Used(w) \in Nat
      <4> DEFINE k == IF worker[w].pc = "bury" THEN FirstMax
                      ELSE IF worker[w].pc = "release" THEN FirstMax + CallMax ELSE 0
      <4>1. k \in Nat
        BY Durations
      <4>2. Used(w) = worker[w].spent + k /\ Used(w)' = (worker[w].spent + 1) + k
        BY <2>3, <3>2 DEF Used
      <4> HIDE DEF k
      <4> QED BY <2>1, <4>1, <4>2
    <3>4. Allowed(w) + 1 <= Allowed(w)'
      <4> DEFINE n == DEFAULT_BATCH_SIZE - Cardinality(worker[w].todo)
      <4>1. n \in Nat
        <5>1. Cardinality(worker[w].todo) \in Nat
          BY <2>1, HeldFinite DEF IInv, Pending
        <5> QED BY <2>1, <5>1, QueueAssumption DEF InTime
      <4>2. n * EntryMax \in Nat
        BY <4>1, Durations, Products
      <4>3. Allowed(w) = n * EntryMax + Used(w) /\ Allowed(w)' = n * EntryMax + Used(w)'
        BY <2>3 DEF Allowed
      <4> HIDE DEF n
      <4> QED BY <3>3, <4>2, <4>3
    <3>5. worker'[w].todo \subseteq worker[w].todo /\ worker'[w].todo \subseteq Pending'
      BY <1>2, <2>1, <2>3
    <3>6. \A i \in worker'[w].todo : stream'[i].idle <= stream[i].idle + 1
      BY <1>3, <2>1, <2>3 DEF Pending
    <3> QED BY <2>1, <2>3, <2>6, <3>4, <3>5, <3>6, InTimeStep
  <2> QED BY <2>3, <2>7, <2>8
<1>5. Apart'
  BY <1>4 DEF Held, Apart
<1> QED BY <1>4, <1>5 DEF Held

-----------------------------------------------------------------------------
(* Every step keeps workers apart and in time.                             *)
LEMMA InitHeld == Init => Held /\ Fresh
<1> SUFFICES ASSUME Init PROVE Held /\ Fresh
  OBVIOUS
<1>1. \A w \in Workers : worker[w] = Idle
  BY DEF Init
<1>2. Idle.pc = "poll" /\ Idle.todo = {}
  BY DEF Idle
<1>3. Cardinality({}) <= DEFAULT_BATCH_SIZE
  BY FS_EmptySet, QueueAssumption
<1>4. Held
  BY <1>1, <1>2, <1>3 DEF Held, Apart, InTime, Placed, OutOfLoop, InTurn
<1>5. Ids = {}
  BY DEF Init, Ids
<1> QED BY <1>4, <1>5 DEF Fresh

LEMMA NextHeld ==
  ASSUME ReclaimOutlastsBatch, IInv, Held, Fresh, [Next]_vars
  PROVE  Held' /\ Fresh'
<1>i. IInv'
  BY NextIInv
<1>t. /\ stream \in Seq(Entry) /\ Len(stream) \in Nat /\ delivered \in Nat
      /\ \A w \in Workers : InTime(w) /\ Placed(w)
  BY DEF IInv, TypeOK, Held, InTime
<1>0. ASSUME NEW w \in Workers, stream' = stream, delivered' = delivered,
             GoesOn(w) \/ MovesOn(w) \/ LetsGo(w)
      PROVE  Held' /\ Fresh'
  <2>1. Undisturbed({}) /\ Ids' = Ids
    BY <1>0, SameUndisturbed
  <2>2. Held'
    BY <1>i, <1>0, <2>1, HeldGoesOn, HeldMovesOn, HeldLetsGo
  <2> QED BY <1>i, <1>t, <1>0, <2>1, <2>2, FreshStep
<1>1. ASSUME NEW c \in Claims, Enqueue(c) PROVE Held' /\ Fresh'
  <2> DEFINE e == FreshEntry(c, 1)
  <2>1. e \in Entry /\ ~e.acked
    BY FreshEntryIsEntry, QueueAssumption
  <2>2. XADD(e) /\ worker' = worker /\ delivered' = delivered
    BY <1>1 DEF Enqueue
  <2> HIDE DEF e
  <2>3. /\ Undisturbed({}) /\ Ids' = Ids \cup {Len(stream) + 1}
        /\ stream'[Len(stream) + 1] = e
    BY <2>1, <2>2, AddUndisturbed
  <2>4. \A w \in Workers : InTime(w)'
    BY <1>i, <1>t, <2>2, <2>3, InTimeKept
  <2>5. Held'
    BY <2>2, <2>4 DEF Held, Apart
  <2> QED BY <1>i, <1>t, <2>1, <2>2, <2>3, <2>5, FreshStep
<1>2. ASSUME NEW w \in Workers, Sweep(w) PROVE Held' /\ Fresh'
  <2> DEFINE S == FirstOf(DEFAULT_BATCH_SIZE, Stale)
  <2>1. S \subseteq Stale /\ Cardinality(S) <= DEFAULT_BATCH_SIZE
    <3>1. Stale \in SUBSET (1..Len(stream)) /\ DEFAULT_BATCH_SIZE \in Nat
      BY QueueAssumption DEF Stale, Pending, Ids
    <3> QED BY <1>t, <3>1, FirstOfBatch
  <2>2. Deliver(S) /\ Loop(w, "sweep", S) /\ delivered' = delivered
    BY <1>2 DEF Sweep
  <2> HIDE DEF S
  <2>3. S \in SUBSET Ids /\ S \in SUBSET Nat /\ S \subseteq Pending
    BY <2>1 DEF Stale, Pending, Ids
  <2>a. delivered' \in Nat /\ delivered <= delivered'
    BY <1>t, <2>2
  <2>4. /\ Undisturbed({}) /\ Ids' = Ids
        /\ \A i \in S : stream'[i].idle = 0
        /\ \A i \in Ids : stream'[i].acked = stream[i].acked
    BY <2>2, <2>3, <2>a, DeliverUndisturbed
  <2>5. Enters(w, "sweep", S)
    BY <2>2, <2>3, LoopEnters
  <2>6. S \in SUBSET Pending'
    BY <2>2, <2>3, <2>4 DEF Pending
  <2>7. \A v \in Workers : v # w => worker[v].todo \cap S = {}
    BY <1>t, <2>1, NotStaleYet
  <2>8. Held'
    BY <1>i, <2>1, <2>4, <2>5, <2>6, <2>7, HeldEnters
  <2> QED BY <1>i, <1>t, <2>2, <2>4, <2>8, FreshStep
<1>3. ASSUME NEW w \in Workers, Consume(w) PROVE Held' /\ Fresh'
  <2> DEFINE S == FirstOf(DEFAULT_BATCH_SIZE, Unread)
             T == {i \in S : stream[i].claim \notin Undecodable}
  <2>1. S \subseteq Unread /\ Cardinality(T) <= DEFAULT_BATCH_SIZE
    <3>1. Unread \in SUBSET (1..Len(stream)) /\ DEFAULT_BATCH_SIZE \in Nat
      BY QueueAssumption DEF Unread, Ids
    <3>2. S \subseteq Unread /\ IsFiniteSet(S) /\ Cardinality(S) <= DEFAULT_BATCH_SIZE
      BY <1>t, <3>1, FirstOfBatch
    <3>3. T \subseteq S
      OBVIOUS
    <3> HIDE DEF S, T
    <3>4. Cardinality(T) <= Cardinality(S) /\ Cardinality(T) \in Nat /\ Cardinality(S) \in Nat
      BY <3>2, <3>3, FS_Subset, FS_CardinalityType
    <3> QED BY <3>1, <3>2, <3>4
  <2>2. /\ Deliver(S) /\ Loop(w, "turn", T)
        /\ delivered' = IF S = {} THEN delivered ELSE CHOOSE i \in S : \A j \in S : j <= i
    BY <1>3 DEF Consume
  <2>3. T \subseteq S
    OBVIOUS
  <2> HIDE DEF S, T
  <2>4. S \in SUBSET Ids /\ T \in SUBSET Nat
    BY <2>1, <2>3 DEF Unread, Ids
  <2>5. delivered' \in Nat /\ delivered <= delivered' /\ \A i \in S : i <= delivered'
    <3>1. CASE S = {}
      BY <1>t, <2>2, <3>1
    <3>2. CASE S # {}
      <4>1. \E i \in S : \A j \in S : j <= i
        <5>1. S \in SUBSET (1..Len(stream))
          BY <2>4 DEF Ids
        <5> QED BY <1>t, <3>2, <5>1, MaxExists
      <4>2. delivered' \in S /\ \A j \in S : j <= delivered'
        BY <2>2, <3>2, <4>1
      <4>3. delivered' \in Nat /\ delivered' > delivered
        BY <2>1, <4>2 DEF Unread, Ids
      <4> QED BY <1>t, <4>2, <4>3
    <3> QED BY <3>1, <3>2
  <2>6. /\ Undisturbed({}) /\ Ids' = Ids
        /\ \A i \in S : stream'[i].idle = 0
        /\ \A i \in Ids : stream'[i].acked = stream[i].acked
    BY <2>2, <2>4, <2>5, DeliverUndisturbed
  <2>7. Enters(w, "turn", T)
    BY <2>2, <2>4, LoopEnters
  <2>8. T \in SUBSET Pending'
    BY <2>1, <2>3, <2>4, <2>5, <2>6 DEF Pending, Unread, Fresh
  <2>9. \A v \in Workers : v # w => worker[v].todo \cap T = {}
    <3> SUFFICES ASSUME NEW v \in Workers, NEW i \in worker[v].todo, i \in T PROVE FALSE
      OBVIOUS
    <3>1. i <= delivered
      BY <1>t DEF InTime, Pending
    <3>2. i > delivered /\ i \in Nat
      BY <2>1, <2>3 DEF Unread, Ids
    <3> QED BY <1>t, <3>1, <3>2
  <2>10. Held'
    BY <1>i, <2>1, <2>3, <2>6, <2>7, <2>8, <2>9, HeldEnters
  <2> QED BY <1>i, <2>5, <2>6, <2>10, FreshStep
<1>4. ASSUME NEW w \in Workers, DiscardMalformed(w) \/ Release(w) PROVE Held' /\ Fresh'
  <2>1. XACK(Current(w)) /\ delivered' = delivered /\ worker[w].pc \in {"sweep", "release"}
    BY <1>4 DEF DiscardMalformed, Release
  <2>2. Current(w) \in Ids /\ Current(w) \in Pending
    BY <1>t, <2>1, HeldEntry DEF InTime
  <2>3. Undisturbed({Current(w)}) /\ Ids' = Ids
    BY <2>1, <2>2, AckUndisturbed
  <2>4. Held'
    BY <1>i, <1>4, <2>3, Kinds, HeldMovesOn
  <2> QED BY <1>i, <1>t, <2>1, <2>2, <2>3, <2>4, FreshStep
<1>5. ASSUME NEW w \in Workers, Retry(w) PROVE Held' /\ Fresh'
  <2> DEFINE e == FreshEntry(CurrentEntry(w).claim, CurrentEntry(w).attempts + 1)
  <2>1. CurrentEntry(w) \in Entry
    BY <1>5, HeldEntry DEF Retry
  <2>2. /\ CurrentEntry(w).claim \in Claims
        /\ CurrentEntry(w).attempts + 1 \in 1..MAX_ATTEMPTS
    BY <1>5, <2>1, QueueAssumption DEF Retry, is_last_attempt, Entry
  <2>3. e \in Entry /\ ~e.acked
    BY <2>2, FreshEntryIsEntry
  <2>4. XADD(e) /\ delivered' = delivered
    BY <1>5 DEF Retry
  <2> HIDE DEF e
  <2>5. /\ Undisturbed({}) /\ Ids' = Ids \cup {Len(stream) + 1}
        /\ stream'[Len(stream) + 1] = e
    BY <2>3, <2>4, AddUndisturbed
  <2>6. Held'
    BY <1>i, <1>5, <2>5, Kinds, HeldGoesOn
  <2> QED BY <1>i, <1>t, <2>3, <2>4, <2>5, <2>6, FreshStep
<1>6. ASSUME NEW w \in Workers,
             \/ GiveUp(w) \/ RateLimited(w) \/ NotConfigured(w) \/ Commit(w) \/ Bury(w)
             \/ SkipSweep(w) \/ PassFailed(w) \/ Crash(w) \/ Restart(w)
      PROVE  Held' /\ Fresh'
  <2>1. stream' = stream /\ delivered' = delivered
    BY <1>6 DEF GiveUp, RateLimited, NotConfigured, Commit, Bury, SkipSweep, PassFailed,
                Crash, Restart
  <2>2. GoesOn(w) \/ LetsGo(w)
    BY <1>t, <1>6, Kinds
  <2> QED BY <1>0, <2>1, <2>2
<1>7. ASSUME NEW w \in Workers, SendReply(w) PROVE Held' /\ Fresh'
  BY <1>0, <1>7, SendGoesOn DEF SendReply
<1>8. ASSUME NEW w \in Workers, FailTurn(w) \/ TurnBreaks(w) PROVE Held' /\ Fresh'
  <2>1. stream' = stream /\ delivered' = delivered /\ AfterFailure(w) /\ InTurn(w)
    BY <1>8 DEF FailTurn, TurnBreaks, InTurn
  <2> QED BY <1>0, <2>1, FailureMoves
<1>9. ASSUME Tick PROVE Held' /\ Fresh'
  <2>1. SameEntries /\ delivered' = delivered
    BY <1>9, TickKeepsEntries DEF IInv, Tick
  <2>2. Fresh'
    BY <2>1 DEF SameEntries, SameClaims, Fresh, Ids
  <2> QED BY <1>i, <1>9, <2>2, HeldTick
<1>10. CASE UNCHANGED vars
  BY <1>10 DEF vars, Held, Fresh, Apart, InTime, Placed, Allowed, Used, StepMax, InTurn,
               Pending, Ids
<1> QED BY <1>1, <1>2, <1>3, <1>4, <1>5, <1>6, <1>7, <1>8, <1>9, <1>10
        DEF Next, WorkerStep, Fault

-----------------------------------------------------------------------------
(* The entries of a message somebody still has to deal with: all that are  *)
(* unacknowledged, but for those a worker at one of the positions at is    *)
(* about to be done with.                                                  *)
Open(at, c) ==
  {i \in EntriesOf(c) : ~stream[i].acked /\
     \A w \in Workers : worker[w].pc \in at => Current(w) # i}

Ending == {"release"}

LEMMA OpenFinite ==
  ASSUME TypeOK, NEW at, NEW c
  PROVE  /\ Open(at, c) \subseteq EntriesOf(c) /\ EntriesOf(c) \subseteq Ids
         /\ IsFiniteSet(Open(at, c)) /\ Cardinality(Open(at, c)) \in Nat
         /\ IsFiniteSet(EntriesOf(c)) /\ Cardinality(EntriesOf(c)) \in Nat
         /\ IsFiniteSet(Ids)
<1>1. Len(stream) \in Nat
  BY DEF TypeOK
<1>2. /\ Open(at, c) \in SUBSET (1..Len(stream)) /\ EntriesOf(c) \in SUBSET (1..Len(stream))
      /\ Open(at, c) \subseteq EntriesOf(c) /\ Ids \in SUBSET (1..Len(stream))
      /\ EntriesOf(c) \subseteq Ids
  BY DEF Open, EntriesOf, Ids
<1> QED BY <1>1, <1>2, IdsFinite

(* A set that grew by one element at most has one more at most.            *)
LEMMA OneMore ==
  ASSUME NEW S, IsFiniteSet(S), NEW x, NEW T \in SUBSET (S \cup {x})
  PROVE  /\ Cardinality(S) \in Nat /\ IsFiniteSet(T) /\ Cardinality(T) \in Nat
         /\ Cardinality(T) <= Cardinality(S) + 1
<1>1. IsFiniteSet(S \cup {x}) /\ Cardinality(S) \in Nat
      /\ Cardinality(S \cup {x}) \in {Cardinality(S), Cardinality(S) + 1}
  BY FS_AddElement, FS_CardinalityType
<1>2. IsFiniteSet(T) /\ Cardinality(T) <= Cardinality(S \cup {x}) /\ Cardinality(T) \in Nat
  BY <1>1, FS_Subset, FS_CardinalityType
<1> QED BY <1>1, <1>2

(* ... and one that lost an element and gained one at most has no more.    *)
LEMMA OneForOne ==
  ASSUME NEW S, IsFiniteSet(S), NEW y \in S, NEW x, NEW T \in SUBSET ((S \ {y}) \cup {x})
  PROVE  /\ Cardinality(S) \in Nat /\ Cardinality(T) \in Nat /\ Cardinality(T) <= Cardinality(S)
<1>1. /\ IsFiniteSet(S \ {y}) /\ Cardinality(S \ {y}) = Cardinality(S) - 1
      /\ Cardinality(S) \in Nat
  BY FS_RemoveElement, FS_CardinalityType
<1>2. Cardinality(T) \in Nat /\ Cardinality(T) <= Cardinality(S \ {y}) + 1
  BY <1>1, OneMore
<1> QED BY <1>1, <1>2

(* What a step can add to the open entries: new ones, and those it takes   *)
(* a worker away from.                                                     *)
LEMMA OpenStep ==
  ASSUME IInv, NEW at \in SUBSET Answered, NEW c, NEW X, Ids \subseteq Ids',
         \A i \in Ids : /\ stream'[i].claim = stream[i].claim
                        /\ stream[i].acked => stream'[i].acked,
         \A i \in Ids' : i \notin Ids /\ stream'[i].claim = c => i \in X,
         \A v \in Workers : worker[v].pc \in at =>
           \/ worker'[v].pc \in at /\ worker'[v].todo = worker[v].todo
           \/ stream'[Current(v)].acked
           \/ Current(v) \in X
  PROVE  Open(at, c)' \subseteq Open(at, c) \cup X
<1> SUFFICES ASSUME NEW i \in Open(at, c)', i \notin X PROVE i \in Open(at, c)
  OBVIOUS
<1>1. i \in Ids' /\ stream'[i].claim = c /\ ~stream'[i].acked
  BY DEF Open, EntriesOf
<1>2. i \in Ids /\ stream[i].claim = c /\ ~stream[i].acked
  BY <1>1
<1>3. ASSUME NEW v \in Workers, worker[v].pc \in at, Current(v) = i PROVE FALSE
  <2>1. worker'[v].pc \in at /\ worker'[v].todo = worker[v].todo
    BY <1>1, <1>3
  <2>2. Current(v)' = i
    BY <1>3, <2>1 DEF Current
  <2> QED BY <2>1, <2>2 DEF Open
<1> QED BY <1>2, <1>3 DEF Open, EntriesOf

(* An entry a worker is at is open to anybody who asks at other positions, *)
(* since no other worker is at it.                                         *)
LEMMA CurrentOpen ==
  ASSUME IInv, Held, NEW at \in SUBSET Answered, NEW w \in Workers,
         worker[w].pc \notin OutOfLoop, worker[w].pc \notin at
  PROVE  Current(w) \in Open(at, CurrentEntry(w).claim)
<1>1. Current(w) \in worker[w].todo /\ Current(w) \in Ids /\ Current(w) \in Pending
  BY HeldEntry DEF OutOfLoop, Held, InTime
<1>2. ASSUME NEW v \in Workers, worker[v].pc \in at PROVE Current(v) # Current(w)
  <2>1. Current(v) \in worker[v].todo
    BY <1>2, HeldEntry DEF Answered
  <2> QED BY <1>1, <1>2, <2>1 DEF Held, Apart
<1> QED BY <1>1, <1>2 DEF Open, EntriesOf, Pending, CurrentEntry

Steady(at) == \A c \in Claims : Open(at, c)' \subseteq Open(at, c)

Undone(at) ==
  /\ faults' = faults + 1
  /\ \E x \in Ids : \A c \in Claims : Open(at, c)' \subseteq Open(at, c) \cup {x}

LEMMA SteadyElsewhere ==
  ASSUME IInv, NEW at \in SUBSET Answered, NEW w \in Workers, Others(w), worker[w].pc \notin at,
         stream' = stream
  PROVE  Steady(at)
<1>1. Ids' = Ids
  BY DEF Ids
<1>2. ASSUME NEW c \in Claims PROVE Open(at, c)' \subseteq Open(at, c) \cup {}
  <2>1. \A v \in Workers : worker[v].pc \in at =>
          \/ worker'[v].pc \in at /\ worker'[v].todo = worker[v].todo
          \/ stream'[Current(v)].acked
          \/ Current(v) \in {}
    BY DEF Others
  <2>2. \A i \in Ids' : i \notin Ids /\ stream'[i].claim = c => i \in {}
    BY <1>1
  <2>3. Ids \subseteq Ids'
    BY <1>1
  <2>4. \A i \in Ids : /\ stream'[i].claim = stream[i].claim
                       /\ stream[i].acked => stream'[i].acked
    OBVIOUS
  <2> QED BY <2>1, <2>2, <2>3, <2>4, OpenStep
<1> QED BY <1>2 DEF Steady

(* Only a fault opens an entry again, and then one.                        *)
LEMMA OpenNext ==
  ASSUME IInv, Held, NEW at \in {Ending, Answered},
         \/ \E w \in Workers : (WorkerStep(w) /\ ~Retry(w)) \/ Fault(w) \/ Restart(w)
         \/ Tick \/ UNCHANGED vars
  PROVE  SameClaims /\ ((Steady(at) /\ faults' >= faults) \/ Undone(at))
<1>t. /\ at \in SUBSET Answered /\ Ending \subseteq at /\ faults \in Nat
      /\ \A w \in Workers : Placed(w)
      /\ \A w \in Workers : worker[w].pc \notin OutOfLoop => Current(w) \in Ids
  BY HeldEntry DEF Ending, Answered, IInv, TypeOK, Held, InTime, OutOfLoop
<1>o. at \cap OutOfLoop = {}
  BY DEF Ending, Answered, OutOfLoop
<1>0. ASSUME SameEntries,
             \A v \in Workers : worker[v].pc \in at =>
               worker'[v].pc \in at /\ worker'[v].todo = worker[v].todo
      PROVE  Steady(at) /\ SameClaims
  <2>1. Ids' = Ids /\ SameClaims
        /\ \A i \in Ids : /\ stream'[i].claim = stream[i].claim
                          /\ stream[i].acked => stream'[i].acked
    BY <1>0 DEF SameEntries, SameClaims, Ids
  <2>2. ASSUME NEW c \in Claims PROVE Open(at, c)' \subseteq Open(at, c) \cup {}
    <3>1. \A i \in Ids' : i \notin Ids /\ stream'[i].claim = c => i \in {}
      BY <2>1
    <3>2. \A v \in Workers : worker[v].pc \in at =>
            \/ worker'[v].pc \in at /\ worker'[v].todo = worker[v].todo
            \/ stream'[Current(v)].acked
            \/ Current(v) \in {}
      BY <1>0
    <3>3. Ids \subseteq Ids'
      BY <2>1
    <3> QED BY <1>t, <2>1, <3>1, <3>2, <3>3, OpenStep
  <2> QED BY <2>1, <2>2 DEF Steady
<1>1. ASSUME NEW w \in Workers, Others(w), stream' = stream, faults' = faults + 1,
             worker[w].pc \notin OutOfLoop
      PROVE  SameClaims /\ Undone(at)
  <2>1. Ids' = Ids /\ SameClaims
    BY <1>1, StreamUnchanged DEF SameEntries, Ids
  <2>2. ASSUME NEW c \in Claims PROVE Open(at, c)' \subseteq Open(at, c) \cup {Current(w)}
    <3>1. \A i \in Ids' : i \notin Ids /\ stream'[i].claim = c => i \in {Current(w)}
      BY <2>1
    <3>2. \A v \in Workers : worker[v].pc \in at =>
            \/ worker'[v].pc \in at /\ worker'[v].todo = worker[v].todo
            \/ stream'[Current(v)].acked
            \/ Current(v) \in {Current(w)}
      BY <1>1 DEF Others
    <3>3. Ids \subseteq Ids'
      BY <2>1
    <3> QED BY <1>t, <1>1, <3>1, <3>2, <3>3, OpenStep
  <2> QED BY <1>t, <1>1, <2>1, <2>2 DEF Undone
<1>2. ASSUME NEW w \in Workers, Others(w), worker[w].pc \notin at, SameEntries
      PROVE  SameClaims /\ Steady(at)
  BY <1>0, <1>2 DEF Others
<1>3. ASSUME NEW w \in Workers, GoesOn(w), stream' = stream PROVE SameClaims /\ Steady(at)
  <2>1. worker[w].pc \in at => worker'[w].pc \in at /\ worker'[w].todo = worker[w].todo
    BY <1>3 DEF GoesOn, Ending, Answered
  <2> QED BY <1>0, <1>3, <2>1, StreamUnchanged DEF GoesOn, Others
<1>4. ASSUME NEW w \in Workers, DiscardMalformed(w) \/ Release(w)
      PROVE  SameClaims /\ Steady(at) /\ faults' >= faults
  <2>1. XACK(Current(w)) /\ Current(w) \in Ids /\ faults' = faults
    BY <1>4, <1>t DEF DiscardMalformed, Release, OutOfLoop
  <2>2. SameClaims /\ Ids' = Ids /\ stream'[Current(w)].acked = TRUE
        /\ \A i \in Ids : i # Current(w) => stream'[i].acked = stream[i].acked
    BY <2>1, XACKMarks DEF IInv, SameClaims, Ids
  <2>3. Others(w)
    BY <1>4, Kinds DEF MovesOn, Enters
  <2>4. \A i \in Ids : /\ stream'[i].claim = stream[i].claim
                       /\ stream[i].acked => stream'[i].acked
    BY <2>2 DEF SameClaims
  <2>5. ASSUME NEW c \in Claims PROVE Open(at, c)' \subseteq Open(at, c) \cup {}
    <3>1. \A i \in Ids' : i \notin Ids /\ stream'[i].claim = c => i \in {}
      BY <2>2
    <3>2. \A v \in Workers : worker[v].pc \in at =>
            \/ worker'[v].pc \in at /\ worker'[v].todo = worker[v].todo
            \/ stream'[Current(v)].acked
            \/ Current(v) \in {}
      BY <2>2, <2>3 DEF Others
    <3>3. Ids \subseteq Ids'
      BY <2>2
    <3> QED BY <1>t, <2>4, <3>1, <3>2, <3>3, OpenStep
  <2> QED BY <1>t, <2>1, <2>2, <2>5 DEF Steady
<1>5. ASSUME NEW w \in Workers, Sweep(w) \/ Consume(w)
      PROVE  SameClaims /\ Steady(at) /\ faults' >= faults
  <2>1. worker[w].pc \notin at /\ faults' = faults /\ \E S : Deliver(S)
    BY <1>5, <1>o DEF Sweep, Consume, OutOfLoop
  <2>2. SameEntries
    BY <2>1, DeliverKeepsEntries DEF IInv
  <2>3. Others(w)
    <3>1. PICK S \in SUBSET Nat, mode \in {"sweep", "turn"} : Loop(w, mode, S)
      <4>1. CASE Sweep(w)
        <5> DEFINE S == FirstOf(DEFAULT_BATCH_SIZE, Stale)
        <5>1. S \in SUBSET Nat /\ Loop(w, "sweep", S)
          BY <4>1 DEF Sweep, FirstOf, Stale, Pending, Ids
        <5> QED BY <5>1
      <4>2. CASE Consume(w)
        <5> DEFINE T == {i \in FirstOf(DEFAULT_BATCH_SIZE, Unread) : stream[i].claim \notin Undecodable}
        <5>1. T \in SUBSET Nat /\ Loop(w, "turn", T)
          BY <4>2 DEF Consume, FirstOf, Unread, Ids
        <5> QED BY <5>1
      <4> QED BY <1>5, <4>1, <4>2
    <3> QED BY <3>1, LoopEnters DEF Enters
  <2> QED BY <1>t, <1>2, <2>1, <2>2, <2>3
<1>6. ASSUME NEW w \in Workers,
             GiveUp(w) \/ RateLimited(w) \/ NotConfigured(w) \/ Commit(w) \/ Bury(w) \/ SendReply(w)
      PROVE  SameClaims /\ Steady(at) /\ faults' >= faults
  <2>1. stream' = stream /\ GoesOn(w)
    BY <1>6, Kinds, SendGoesOn DEF GiveUp, RateLimited, NotConfigured, Commit, Bury, SendReply
  <2>2. faults' >= faults
    BY <1>6, <1>t DEF GiveUp, RateLimited, NotConfigured, Commit, Bury, SendReply, Post
  <2> QED BY <1>3, <2>1, <2>2
<1>7. ASSUME NEW w \in Workers, SkipSweep(w) \/ Restart(w)
      PROVE  SameClaims /\ Steady(at) /\ faults' >= faults
  <2>1. stream' = stream /\ faults' = faults /\ worker[w].pc \notin at
    BY <1>7, <1>o DEF SkipSweep, Restart, OutOfLoop
  <2>2. Others(w)
    BY <1>t, <1>7, Kinds DEF LetsGo
  <2> QED BY <1>t, <1>2, <2>1, <2>2, StreamUnchanged
<1>8. ASSUME NEW w \in Workers, FailTurn(w)
      PROVE  SameClaims /\ Steady(at) /\ faults' >= faults
  <2>1. stream' = stream /\ worker[w].pc = "turn" /\ AfterFailure(w) /\ InTurn(w)
    BY <1>8 DEF FailTurn, InTurn
  <2>2. Others(w) /\ worker[w].pc \notin at
    BY <2>1, FailureMoves DEF GoesOn, MovesOn, Enters, Ending, Answered
  <2>3. faults' >= faults
    BY <1>8, <1>t DEF FailTurn, Post
  <2> QED BY <1>2, <2>1, <2>2, <2>3, StreamUnchanged
<1>9. ASSUME NEW w \in Workers, Fault(w)
      PROVE  SameClaims /\ ((Steady(at) /\ faults' >= faults) \/ Undone(at))
  <2>1. stream' = stream /\ faults' = faults + 1
    BY <1>9 DEF Fault, TurnBreaks, PassFailed, Crash
  <2>2. Others(w)
    <3>1. CASE TurnBreaks(w)
      BY <3>1, FailureMoves DEF TurnBreaks, InTurn, GoesOn, MovesOn, Enters
    <3>2. CASE PassFailed(w) \/ Crash(w)
      BY <3>2, Kinds DEF LetsGo
    <3> QED BY <1>9, <3>1, <3>2 DEF Fault
  <2>3. CASE worker[w].pc \in OutOfLoop
    <3>1. worker[w].pc \notin at
      BY <1>o, <2>3
    <3>2. faults' >= faults
      BY <1>t, <2>1
    <3> QED BY <1>2, <2>1, <2>2, <3>1, <3>2, StreamUnchanged
  <2>4. CASE worker[w].pc \notin OutOfLoop
    BY <1>1, <2>1, <2>2, <2>4
  <2> QED BY <2>3, <2>4
<1>10. ASSUME Tick PROVE SameClaims /\ Steady(at) /\ faults' >= faults
  <2>1. \A v \in Workers : worker'[v].pc = worker[v].pc /\ worker'[v].todo = worker[v].todo
    BY <1>10 DEF Tick, IInv, TypeOK, Worker
  <2>2. SameEntries /\ faults' = faults
    BY <1>10, TickKeepsEntries DEF IInv, Tick
  <2> QED BY <1>t, <1>0, <2>1, <2>2
<1>11. ASSUME UNCHANGED vars PROVE SameClaims /\ Steady(at) /\ faults' >= faults
  <2>1. stream' = stream /\ worker' = worker /\ faults' = faults
    BY <1>11 DEF vars
  <2> QED BY <1>t, <1>0, <2>1, StreamUnchanged
<1> QED BY <1>4, <1>5, <1>6, <1>7, <1>8, <1>9, <1>10, <1>11 DEF WorkerStep

-----------------------------------------------------------------------------
(* The two steps that append: the webhook's opens the first entry of a     *)
(* message, a retry opens one for the one it is done with.                 *)
LEMMA Appended ==
  ASSUME IInv, NEW e \in Entry, XADD(e)
  PROVE  LET n == Len(stream) + 1
         IN  /\ Ids' = Ids \cup {n} /\ n \notin Ids /\ stream'[n] = e
             /\ \A i \in Ids : stream'[i] = stream[i]
             /\ \A c : EntriesOf(c)' = IF c = e.claim THEN EntriesOf(c) \cup {n}
                                                     ELSE EntriesOf(c)
<1> DEFINE n == Len(stream) + 1
<1>1. Len(stream) \in Nat
  BY DEF IInv, TypeOK
<1>2. /\ Len(stream') = n /\ \A i \in Ids : stream'[i] = stream[i]
      /\ stream'[n] = e
  BY XADDAppends DEF IInv
<1>3. Ids' = Ids \cup {n} /\ n \notin Ids
  BY <1>1, <1>2 DEF Ids
<1> HIDE DEF n
<1>4. ASSUME NEW c
      PROVE  EntriesOf(c)' = IF c = e.claim THEN EntriesOf(c) \cup {n} ELSE EntriesOf(c)
  BY <1>2, <1>3 DEF EntriesOf
<1> QED BY <1>2, <1>3, <1>4 DEF n

LEMMA EnqueueOpens ==
  ASSUME IInv, NEW at \in SUBSET Answered, NEW k \in Claims, Enqueue(k)
  PROVE  LET n == Len(stream) + 1
         IN  /\ EntriesOf(k) = {} /\ EntriesOf(k)' = {n} /\ Open(at, k)' \subseteq {n}
             /\ n \in Ids' /\ stream'[n].attempts = 1
             /\ \A i \in Ids : stream'[i].attempts = stream[i].attempts
             /\ \A c : c # k => EntriesOf(c)' = EntriesOf(c) /\ Open(at, c)' \subseteq Open(at, c)
             /\ faults' = faults /\ replies' = replies
<1> DEFINE n == Len(stream) + 1
           e == FreshEntry(k, 1)
<1>1. e \in Entry /\ e.claim = k /\ e.attempts = 1
  BY FreshEntryIsEntry, QueueAssumption DEF FreshEntry
<1>2. XADD(e) /\ worker' = worker /\ EntriesOf(k) = {} /\ faults' = faults /\ replies' = replies
  BY DEF Enqueue, EntriesOf
<1> HIDE DEF e
<1>3. /\ Ids' = Ids \cup {n} /\ n \notin Ids /\ stream'[n] = e
      /\ \A i \in Ids : stream'[i] = stream[i]
      /\ \A c : EntriesOf(c)' = IF c = k THEN EntriesOf(c) \cup {n} ELSE EntriesOf(c)
  BY <1>1, <1>2, Appended
<1> HIDE DEF n
<1>4. Open(at, k)' \subseteq {n}
  BY <1>2, <1>3 DEF Open
<1>5. ASSUME NEW c, c # k PROVE Open(at, c)' \subseteq Open(at, c) \cup {}
  <2>0. Ids \subseteq Ids'
    BY <1>3
  <2>1. \A i \in Ids : /\ stream'[i].claim = stream[i].claim
                       /\ stream[i].acked => stream'[i].acked
    BY <1>3
  <2>2. \A i \in Ids' : i \notin Ids /\ stream'[i].claim = c => i \in {}
    BY <1>1, <1>3, <1>5
  <2>3. \A v \in Workers : worker[v].pc \in at =>
          \/ worker'[v].pc \in at /\ worker'[v].todo = worker[v].todo
          \/ stream'[Current(v)].acked
          \/ Current(v) \in {}
    BY <1>2
  <2> QED BY <2>0, <2>1, <2>2, <2>3, OpenStep
<1>6. \A c : c # k => Open(at, c)' \subseteq Open(at, c)
  BY <1>5
<1> QED BY <1>1, <1>2, <1>3, <1>4, <1>6 DEF n

LEMMA RetryOpens ==
  ASSUME IInv, Held, NEW at \in {Ending, Answered}, NEW w \in Workers, Retry(w),
         NEW k, k = CurrentEntry(w).claim
  PROVE  LET n == Len(stream) + 1
         IN  /\ k \in Claims /\ n \in Ids' /\ n \notin Ids /\ Current(w) \in Open(at, k)
             /\ EntriesOf(k)' = EntriesOf(k) \cup {n}
             /\ Open(at, k)' \subseteq (Open(at, k) \ {Current(w)}) \cup {n}
             /\ stream'[n].attempts = stream[Current(w)].attempts + 1
             /\ \A i \in Ids : stream'[i].attempts = stream[i].attempts
             /\ \A c : c # k => EntriesOf(c)' = EntriesOf(c) /\ Open(at, c)' \subseteq Open(at, c)
             /\ faults' = faults /\ replies' = replies
<1> DEFINE n == Len(stream) + 1
           e == FreshEntry(CurrentEntry(w).claim, CurrentEntry(w).attempts + 1)
<1>t. at \in SUBSET Answered /\ worker[w].pc = "sweep" /\ worker[w].pc \notin at
      /\ worker[w].pc \notin OutOfLoop /\ "release" \in at
  BY DEF Ending, Answered, Retry, OutOfLoop
<1>1. /\ e \in Entry /\ e.claim = k /\ k \in Claims
      /\ e.attempts = stream[Current(w)].attempts + 1
  <2>1. CurrentEntry(w) \in Entry
    BY <1>t, HeldEntry DEF OutOfLoop
  <2>2. k \in Claims /\ CurrentEntry(w).attempts + 1 \in 1..MAX_ATTEMPTS
    BY <2>1, QueueAssumption DEF Retry, is_last_attempt, Entry
  <2> QED BY <2>2, FreshEntryIsEntry DEF FreshEntry, CurrentEntry
<1>2. XADD(e) /\ faults' = faults /\ replies' = replies /\ GoesOn(w)
      /\ worker'[w].pc = "release"
  BY Kinds, GotoMoves DEF Retry, IInv, PC
<1>o. Current(w) \in Open(at, k)
  BY <1>t, CurrentOpen
<1> HIDE DEF e
<1>3. /\ Ids' = Ids \cup {n} /\ n \notin Ids /\ stream'[n] = e
      /\ \A i \in Ids : stream'[i] = stream[i]
      /\ \A c : EntriesOf(c)' = IF c = k THEN EntriesOf(c) \cup {n} ELSE EntriesOf(c)
  BY <1>1, <1>2, Appended
<1> HIDE DEF n
<1>0. Ids \subseteq Ids'
  BY <1>3
<1>4. \A i \in Ids : /\ stream'[i].claim = stream[i].claim
                     /\ stream[i].acked => stream'[i].acked
  BY <1>3
<1>5. \A v \in Workers : worker[v].pc \in at =>
        worker'[v].pc \in at /\ worker'[v].todo = worker[v].todo
  BY <1>t, <1>2 DEF GoesOn, Others
<1>6. Open(at, k)' \subseteq Open(at, k) \cup {n}
  <2>1. \A i \in Ids' : i \notin Ids /\ stream'[i].claim = k => i \in {n}
    BY <1>3
  <2>2. \A v \in Workers : worker[v].pc \in at =>
          \/ worker'[v].pc \in at /\ worker'[v].todo = worker[v].todo
          \/ stream'[Current(v)].acked
          \/ Current(v) \in {n}
    BY <1>5
  <2> QED BY <1>0, <1>t, <1>4, <2>1, <2>2, OpenStep
<1>7. Current(w) \notin Open(at, k)'
  <2>1. Current(w)' = Current(w)
    BY <1>2 DEF GoesOn, Current
  <2> QED BY <1>t, <1>2, <2>1 DEF Open
<1>8. ASSUME NEW c, c # k PROVE Open(at, c)' \subseteq Open(at, c) \cup {}
  <2>1. \A i \in Ids' : i \notin Ids /\ stream'[i].claim = c => i \in {}
    BY <1>1, <1>3, <1>8
  <2>2. \A v \in Workers : worker[v].pc \in at =>
          \/ worker'[v].pc \in at /\ worker'[v].todo = worker[v].todo
          \/ stream'[Current(v)].acked
          \/ Current(v) \in {}
    BY <1>5
  <2> QED BY <1>0, <1>t, <1>4, <2>1, <2>2, OpenStep
<1>9. Open(at, k)' \subseteq (Open(at, k) \ {Current(w)}) \cup {n}
  BY <1>6, <1>7
<1>10. \A c : c # k => Open(at, c)' \subseteq Open(at, c)
  BY <1>8
<1> QED BY <1>1, <1>2, <1>3, <1>9, <1>10, <1>o DEF n

-----------------------------------------------------------------------------
(* Two workers never run the turn of one message. A message has one open   *)
(* entry, and one more for every fault: a worker that died after it        *)
(* appended the next entry left the old one to be swept again.             *)
OneOpen == \A c \in Claims : Cardinality(Open(Ending, c)) <= 1 + faults

LEMMA InitOneOpen == Init => OneOpen
<1> SUFFICES ASSUME Init PROVE OneOpen
  OBVIOUS
<1>1. \A c : Open(Ending, c) = {}
  BY DEF Init, Open, EntriesOf, Ids
<1>2. faults = 0 /\ Cardinality({}) = 0
  BY FS_EmptySet DEF Init
<1> QED BY <1>1, <1>2 DEF OneOpen

LEMMA NextOneOpen ==
  ASSUME IInv, Held, OneOpen, [Next]_vars
  PROVE  OneOpen'
<1>t. TypeOK /\ faults \in Nat /\ Ending \in SUBSET Answered
  BY DEF IInv, TypeOK, Ending, Answered
<1> SUFFICES ASSUME NEW c \in Claims PROVE Cardinality(Open(Ending, c)') <= 1 + faults'
  BY DEF OneOpen
<1>f. /\ IsFiniteSet(Open(Ending, c)) /\ Cardinality(Open(Ending, c)) \in Nat
      /\ Cardinality(Open(Ending, c)) <= 1 + faults
  BY <1>t, OpenFinite DEF OneOpen
<1>s. ASSUME Open(Ending, c)' \subseteq Open(Ending, c), faults' >= faults, faults' \in Nat
      PROVE  Cardinality(Open(Ending, c)') <= 1 + faults'
  <2>1. Cardinality(Open(Ending, c)') <= Cardinality(Open(Ending, c))
        /\ Cardinality(Open(Ending, c)') \in Nat
    BY <1>f, <1>s, FS_Subset, FS_CardinalityType
  <2> QED BY <1>f, <1>t, <1>s, <2>1
<1>1. ASSUME NEW k \in Claims, Enqueue(k) PROVE Cardinality(Open(Ending, c)') <= 1 + faults'
  <2>1. CASE c = k
    <3>1. PICK n : Open(Ending, c)' \subseteq {n} /\ faults' = faults
      BY <1>t, <1>1, <2>1, EnqueueOpens
    <3>2. IsFiniteSet({}) /\ Cardinality({}) = 0
      BY FS_EmptySet
    <3>3. Open(Ending, c)' \in SUBSET ({} \cup {n})
      BY <3>1
    <3>4. Cardinality(Open(Ending, c)') <= Cardinality({}) + 1 /\ Cardinality(Open(Ending, c)') \in Nat
      BY <3>2, <3>3, OneMore
    <3> QED BY <1>t, <3>1, <3>2, <3>4
  <2>2. CASE c # k
    <3>1. Open(Ending, c)' \subseteq Open(Ending, c) /\ faults' = faults
      BY <1>t, <1>1, <2>2, EnqueueOpens
    <3> QED BY <1>t, <1>s, <3>1
  <2> QED BY <2>1, <2>2
<1>2. ASSUME NEW w \in Workers, Retry(w) PROVE Cardinality(Open(Ending, c)') <= 1 + faults'
  <2>1. CASE c = CurrentEntry(w).claim
    <3>1. /\ Current(w) \in Open(Ending, c) /\ faults' = faults
          /\ Open(Ending, c)' \subseteq (Open(Ending, c) \ {Current(w)}) \cup {Len(stream) + 1}
      BY <1>2, <2>1, RetryOpens
    <3>2. Cardinality(Open(Ending, c)') <= Cardinality(Open(Ending, c))
          /\ Cardinality(Open(Ending, c)') \in Nat
      BY <1>f, <3>1, OneForOne
    <3> QED BY <1>f, <1>t, <3>1, <3>2
  <2>2. CASE c # CurrentEntry(w).claim
    <3>1. Open(Ending, c)' \subseteq Open(Ending, c) /\ faults' = faults
      BY <1>2, <2>2, RetryOpens
    <3> QED BY <1>t, <1>s, <3>1
  <2> QED BY <2>1, <2>2
<1>3. ASSUME \/ \E w \in Workers : (WorkerStep(w) /\ ~Retry(w)) \/ Fault(w) \/ Restart(w)
             \/ Tick \/ UNCHANGED vars
      PROVE  Cardinality(Open(Ending, c)') <= 1 + faults'
  <2>1. (Steady(Ending) /\ faults' >= faults) \/ Undone(Ending)
    BY <1>3, OpenNext
  <2>2. CASE Steady(Ending) /\ faults' >= faults
    <3>1. faults' \in Nat
      BY NextIInv DEF IInv, TypeOK
    <3> QED BY <1>s, <2>2, <3>1 DEF Steady
  <2>3. CASE Undone(Ending)
    <3>1. PICK x \in Ids : Open(Ending, c)' \subseteq Open(Ending, c) \cup {x}
      BY <2>3 DEF Undone
    <3>2. Cardinality(Open(Ending, c)') <= Cardinality(Open(Ending, c)) + 1
          /\ Cardinality(Open(Ending, c)') \in Nat
      BY <1>f, <3>1, OneMore
    <3>3. faults' = faults + 1
      BY <2>3 DEF Undone
    <3> QED BY <1>f, <1>t, <3>2, <3>3
  <2> QED BY <2>1, <2>2, <2>3
<1> QED BY <1>1, <1>2, <1>3 DEF Next

(* Without a fault two workers never run turns of one message at a time,   *)
(* however many workers there are (inbound_worker.py: "two workers never   *)
(* process the same message"), if an entry does not grow stale while the   *)
(* batch it came with is worked on.                                        *)
THEOREM OneWorkerEach == ASSUME ReclaimOutlastsBatch PROVE Spec => []OneWorkerPerMessage
<1>1. ASSUME IInv, Held, OneOpen PROVE OneWorkerPerMessage
  <2> SUFFICES ASSUME faults = 0, NEW v \in Workers, NEW w \in Workers, v # w,
                      InTurn(v), InTurn(w), CurrentEntry(v).claim = CurrentEntry(w).claim
               PROVE  FALSE
    BY DEF OneWorkerPerMessage
  <2> DEFINE c == CurrentEntry(v).claim
             S == Open(Ending, c)
  <2>1. /\ Current(v) \in worker[v].todo /\ Current(w) \in worker[w].todo
        /\ CurrentEntry(v) \in Entry
    BY <1>1, HeldEntry DEF InTurn
  <2>2. Current(v) # Current(w) /\ c \in Claims
    BY <1>1, <2>1 DEF IInv, Held, Apart, Entry
  <2>3. Ending \in SUBSET Answered /\ \A u \in {v, w} : worker[u].pc \notin OutOfLoop \cup Ending
    BY DEF InTurn, Ending, Answered, OutOfLoop
  <2>4. Current(v) \in S /\ Current(w) \in S
    BY <1>1, <2>3, CurrentOpen
  <2>5. IsFiniteSet(S) /\ Cardinality(S) \in Nat /\ Cardinality(S) <= 1
    BY <1>1, <2>2, OpenFinite DEF IInv, OneOpen
  <2> HIDE DEF S
  <2>6. IsFiniteSet(S \ {Current(v)}) /\ Cardinality(S \ {Current(v)}) = Cardinality(S) - 1
    BY <2>4, <2>5, FS_RemoveElement
  <2>7. Cardinality(S \ {Current(v)}) = 0
    BY <2>4, <2>5, <2>6, FS_CardinalityType
  <2> QED BY <2>2, <2>4, <2>6, <2>7, FS_EmptySet
<1>2. IInv /\ Held /\ Fresh /\ OneOpen /\ [Next]_vars => (IInv /\ Held /\ Fresh /\ OneOpen)'
  BY NextIInv, NextHeld, NextOneOpen
<1>3. Init => IInv /\ Held /\ Fresh /\ OneOpen
  BY InitIInv, InitHeld, InitOneOpen
<1> QED BY <1>1, <1>2, <1>3, PTL DEF Spec

-----------------------------------------------------------------------------
(* A message gets one reply, and one more for every fault: each of its     *)
(* open entries may still lead to one.                                     *)
RepliesLeft ==
  \A c \in Claims :
    /\ replies[c] > 0 => EntriesOf(c) # {}
    /\ replies[c] + Cardinality(Open(Answered, c)) <= 1 + faults

LEMMA InitReplies == Init => RepliesLeft
<1> SUFFICES ASSUME Init PROVE RepliesLeft
  OBVIOUS
<1>1. \A c : Open(Answered, c) = {}
  BY DEF Init, Open, EntriesOf, Ids
<1>2. faults = 0 /\ Cardinality({}) = 0 /\ \A c \in Claims : replies[c] = 0
  BY FS_EmptySet DEF Init
<1> QED BY <1>1, <1>2 DEF RepliesLeft

(* A step that opens k entries of c more and sends m more replies to it,   *)
(* with as many faults more.                                               *)
LEMMA RepliesStep ==
  ASSUME IInv, IInv', RepliesLeft, NEW c \in Claims, EntriesOf(c)' # {} \/ replies'[c] = 0,
         NEW k \in Int, NEW m \in Int, k + m <= faults' - faults,
         Cardinality(Open(Answered, c)') <= Cardinality(Open(Answered, c)) + k,
         replies'[c] <= replies[c] + m
  PROVE  /\ replies'[c] > 0 => EntriesOf(c)' # {}
         /\ replies'[c] + Cardinality(Open(Answered, c)') <= 1 + faults'
<1>1. /\ Cardinality(Open(Answered, c)) \in Nat /\ Cardinality(Open(Answered, c)') \in Nat
      /\ replies[c] \in Nat /\ replies'[c] \in Nat /\ faults \in Nat /\ faults' \in Nat
  <2>1. Cardinality(Open(Answered, c)) \in Nat
    BY OpenFinite DEF IInv
  <2>2. Cardinality(Open(Answered, c)') \in Nat
    <3>1. TypeOK'
      BY DEF IInv
    <3>2. Len(stream') \in Nat /\ Open(Answered, c)' \in SUBSET (1..Len(stream'))
      BY <3>1 DEF TypeOK, Open, EntriesOf, Ids
    <3> QED BY <3>2, IdsFinite
  <2>3. replies \in [Claims -> Nat] /\ faults \in Nat
    BY DEF IInv, TypeOK
  <2>4. (replies \in [Claims -> Nat] /\ faults \in Nat)'
    BY DEF IInv, TypeOK
  <2> QED BY <2>1, <2>2, <2>3, <2>4
<1>2. replies[c] + Cardinality(Open(Answered, c)) <= 1 + faults
  BY DEF RepliesLeft
<1>3. \A r, r1, o, o1, f, f1 \in Nat :
        /\ r + o <= 1 + f /\ k + m <= f1 - f /\ o1 <= o + k /\ r1 <= r + m
        => r1 + o1 <= 1 + f1
  OBVIOUS
<1>4. replies'[c] + Cardinality(Open(Answered, c)') <= 1 + faults'
  <2> HIDE DEF IInv
  <2> QED BY <1>1, <1>2, <1>3
<1>5. replies'[c] > 0 => EntriesOf(c)' # {}
  BY <1>1
<1> QED BY <1>4, <1>5

LEMMA NextReplies ==
  ASSUME IInv, Held, RepliesLeft, [Next]_vars
  PROVE  RepliesLeft'
<1>i. IInv'
  BY NextIInv
<1>t. /\ TypeOK /\ faults \in Nat /\ faults' \in Nat /\ Answered \in SUBSET Answered
      /\ replies \in [Claims -> Nat] /\ replies' \in [Claims -> Nat]
  BY <1>i DEF IInv, TypeOK
<1> SUFFICES ASSUME NEW c \in Claims
             PROVE  /\ replies'[c] > 0 => EntriesOf(c)' # {}
                    /\ replies'[c] + Cardinality(Open(Answered, c)') <= 1 + faults'
  BY DEF RepliesLeft
<1> DEFINE S == Open(Answered, c)
<1>f. IsFiniteSet(S) /\ Cardinality(S) \in Nat /\ replies[c] \in Nat /\ replies'[c] \in Nat
  BY <1>t, OpenFinite
<1>e. replies[c] > 0 => EntriesOf(c) # {}
  BY DEF RepliesLeft
<1>s. ASSUME NEW T \in SUBSET S
      PROVE  Cardinality(T) <= Cardinality(S) + 0
  <2>1. Cardinality(T) <= Cardinality(S) /\ Cardinality(T) \in Nat
    BY <1>f, FS_Subset, FS_CardinalityType
  <2> QED BY <1>f, <2>1
<1>c. SameClaims => EntriesOf(c)' = EntriesOf(c)
  BY DEF SameClaims, EntriesOf, Ids
<1>0. ASSUME S' \subseteq S, replies' = replies, faults' >= faults,
             EntriesOf(c) \subseteq EntriesOf(c)'
      PROVE  /\ replies'[c] > 0 => EntriesOf(c)' # {}
             /\ replies'[c] + Cardinality(S') <= 1 + faults'
  <2>1. Cardinality(S') <= Cardinality(S) + 0 /\ replies'[c] <= replies[c] + 0
    BY <1>f, <1>s, <1>0
  <2>2. EntriesOf(c)' # {} \/ replies'[c] = 0
    BY <1>e, <1>f, <1>0
  <2>3. 0 + 0 <= faults' - faults
    <3>1. faults' >= faults
      BY <1>0
    <3>2. \A x, y \in Nat : y >= x => 0 + 0 <= y - x
      OBVIOUS
    <3>3. faults \in Nat /\ faults' \in Nat
      BY <1>t
    <3> QED BY <3>1, <3>2, <3>3, Zenon
  <2> HIDE DEF S
  <2> QED BY <1>i, <2>1, <2>2, <2>3, RepliesStep DEF S
<1>1. ASSUME NEW k \in Claims, Enqueue(k)
      PROVE  /\ replies'[c] > 0 => EntriesOf(c)' # {}
             /\ replies'[c] + Cardinality(S') <= 1 + faults'
  <2>1. CASE c = k
    <3>1. PICK n : S' \subseteq {n} /\ faults' = faults /\ replies' = replies /\ EntriesOf(c) = {}
      BY <1>t, <1>1, <2>1, EnqueueOpens
    <3>2. replies'[c] = 0
      BY <1>e, <1>f, <3>1
    <3>3. IsFiniteSet({}) /\ Cardinality({}) = 0 /\ S' \in SUBSET ({} \cup {n})
      BY <3>1, FS_EmptySet
    <3>4. Cardinality(S') <= Cardinality({}) + 1 /\ Cardinality(S') \in Nat
      BY <3>3, OneMore
    <3> HIDE DEF S
    <3> QED BY <1>t, <3>1, <3>2, <3>3, <3>4
  <2>2. CASE c # k
    <3>1. S' \subseteq S /\ faults' = faults /\ replies' = replies /\ EntriesOf(c)' = EntriesOf(c)
      BY <1>t, <1>1, <2>2, EnqueueOpens
    <3> QED BY <1>0, <1>t, <3>1
  <2> QED BY <2>1, <2>2
<1>2. ASSUME NEW w \in Workers, Retry(w)
      PROVE  /\ replies'[c] > 0 => EntriesOf(c)' # {}
             /\ replies'[c] + Cardinality(S') <= 1 + faults'
  <2>1. CASE c = CurrentEntry(w).claim
    <3>1. /\ Current(w) \in S /\ faults' = faults /\ replies' = replies
          /\ S' \subseteq (S \ {Current(w)}) \cup {Len(stream) + 1}
          /\ EntriesOf(c)' # {}
      BY <1>2, <2>1, RetryOpens
    <3>2. Cardinality(S') <= Cardinality(S) /\ Cardinality(S') \in Nat
      BY <1>f, <3>1, OneForOne
    <3>3. Cardinality(S') <= Cardinality(S) + 0 /\ replies'[c] <= replies[c] + 0
          /\ 0 + 0 <= faults' - faults
      BY <1>f, <1>t, <3>1, <3>2
    <3> HIDE DEF S
    <3> QED BY <1>i, <3>1, <3>3, RepliesStep DEF S
  <2>2. CASE c # CurrentEntry(w).claim
    <3>1. S' \subseteq S /\ faults' = faults /\ replies' = replies /\ EntriesOf(c)' = EntriesOf(c)
      <4>1. PICK k : k = CurrentEntry(w).claim
        OBVIOUS
      <4> QED BY <1>2, <2>2, <4>1, RetryOpens
    <3> QED BY <1>0, <1>t, <3>1
  <2> QED BY <2>1, <2>2
<1>3. ASSUME NEW w \in Workers, SendReply(w) \/ FailTurn(w)
      PROVE  /\ replies'[c] > 0 => EntriesOf(c)' # {}
             /\ replies'[c] + Cardinality(S') <= 1 + faults'
  <2>1. /\ worker[w].pc = "turn" /\ stream' = stream /\ worker[w].pc \notin Answered
        /\ worker[w].pc \notin OutOfLoop
    BY <1>3 DEF SendReply, FailTurn, Answered, OutOfLoop
  <2>2. PICK answered \in {0, 1}, lost \in 0..MaxFaults :
          /\ faults' = faults + lost
          /\ replies' = [replies EXCEPT ![CurrentEntry(w).claim] = @ + answered + lost]
          /\ answered = 1 => SendReply(w)
    BY <1>3 DEF SendReply, FailTurn, Post
  <2>3. Others(w)
    <3>1. CASE SendReply(w)
      BY <3>1, SendGoesOn DEF GoesOn
    <3>2. CASE FailTurn(w)
      <4>1. InTurn(w) /\ AfterFailure(w)
        BY <2>1, <3>2 DEF FailTurn, InTurn
      <4> QED BY <4>1, FailureMoves DEF GoesOn, MovesOn, Enters
    <3> QED BY <1>3, <3>1, <3>2
  <2>4. S' \subseteq S
    BY <1>t, <2>1, <2>3, SteadyElsewhere DEF Steady
  <2>5. SameClaims /\ EntriesOf(c)' = EntriesOf(c) /\ lost \in Nat
    BY <1>c, <2>1, StreamUnchanged, QueueAssumption DEF SameEntries
  <2>6. CASE c # CurrentEntry(w).claim
    <3>1. replies'[c] = replies[c]
      BY <1>t, <2>2, <2>6
    <3>2. Cardinality(S') <= Cardinality(S) + 0 /\ replies'[c] <= replies[c] + 0
          /\ 0 + 0 <= faults' - faults
      BY <1>f, <1>s, <1>t, <2>2, <2>4, <2>5, <3>1
    <3>3. EntriesOf(c)' # {} \/ replies'[c] = 0
      BY <1>e, <1>f, <2>5, <3>1
    <3> HIDE DEF S
    <3> QED BY <1>i, <3>2, <3>3, RepliesStep DEF S
  <2>7. CASE c = CurrentEntry(w).claim
    <3>1. replies'[c] = replies[c] + answered + lost
      BY <1>t, <2>2, <2>7
    <3>2. Current(w) \in S
      BY <1>t, <2>1, <2>7, CurrentOpen
    <3>3. EntriesOf(c)' # {}
      BY <2>5, <3>2 DEF Open
    <3>4. Cardinality(S') <= Cardinality(S) + (0 - answered)
      <4>1. CASE answered = 0
        BY <1>f, <1>s, <2>4, <4>1
      <4>2. CASE answered = 1
        <5>1. worker'[w].pc = "sent" /\ worker'[w].todo = worker[w].todo
          BY <2>2, <4>2, SendGoesOn DEF GoesOn
        <5>2. Current(w)' = Current(w)
          BY <5>1 DEF Current
        <5>3. Current(w) \notin S'
          BY <5>1, <5>2 DEF Open, Answered
        <5> HIDE DEF S
        <5>4. S' \in SUBSET (S \ {Current(w)})
          BY <2>4, <5>3
        <5>5. IsFiniteSet(S \ {Current(w)}) /\ Cardinality(S \ {Current(w)}) = Cardinality(S) - 1
          BY <1>f, <3>2, FS_RemoveElement
        <5>6. Cardinality(S') <= Cardinality(S) - 1
          BY <5>4, <5>5, FS_Subset
        <5> QED BY <1>f, <4>2, <5>6
      <4> QED BY <4>1, <4>2
    <3>5. replies'[c] <= replies[c] + (answered + lost) /\ answered \in Int
          /\ (0 - answered) + (answered + lost) <= faults' - faults
          /\ answered + lost \in Int /\ 0 - answered \in Int
      BY <1>f, <1>t, <2>2, <2>5, <3>1
    <3> HIDE DEF S
    <3> QED BY <1>i, <3>3, <3>4, <3>5, RepliesStep DEF S
  <2> QED BY <2>6, <2>7
<1>4. ASSUME \/ \E w \in Workers : \/ WorkerStep(w) /\ ~Retry(w) /\ ~SendReply(w) /\ ~FailTurn(w)
                                   \/ Fault(w) \/ Restart(w)
             \/ Tick \/ UNCHANGED vars
      PROVE  /\ replies'[c] > 0 => EntriesOf(c)' # {}
             /\ replies'[c] + Cardinality(S') <= 1 + faults'
  <2>1. replies' = replies
    BY <1>4 DEF WorkerStep, Sweep, SkipSweep, DiscardMalformed, GiveUp, Consume, RateLimited,
                NotConfigured, Commit, Bury, Release, Fault, TurnBreaks, PassFailed, Crash,
                Restart, Tick, vars
  <2>2. SameClaims /\ ((Steady(Answered) /\ faults' >= faults) \/ Undone(Answered))
    BY <1>4, OpenNext
  <2>3. EntriesOf(c)' = EntriesOf(c)
    BY <1>c, <2>2
  <2>4. CASE Steady(Answered) /\ faults' >= faults
    BY <1>0, <2>1, <2>3, <2>4 DEF Steady
  <2>5. CASE Undone(Answered)
    <3>1. PICK x \in Ids : S' \subseteq S \cup {x}
      BY <2>5 DEF Undone
    <3>2. Cardinality(S') <= Cardinality(S) + 1
      BY <1>f, <3>1, OneMore
    <3>3. faults' = faults + 1 /\ replies'[c] <= replies[c] + 0 /\ 1 + 0 <= faults' - faults
      BY <1>f, <1>t, <2>1, <2>5 DEF Undone
    <3>4. EntriesOf(c)' # {} \/ replies'[c] = 0
      BY <1>e, <1>f, <2>1, <2>3
    <3> HIDE DEF S
    <3> QED BY <1>i, <3>2, <3>3, <3>4, RepliesStep DEF S
  <2> QED BY <2>2, <2>4, <2>5
<1> HIDE DEF S
<1> QED BY <1>1, <1>2, <1>3, <1>4 DEF Next, S

(* However turns are retried, reclaimed or cut short (AfterFailure, Sweep, *)
(* the faults), a lead gets one reply to a message, and one more for each  *)
(* fault at most.                                                          *)
THEOREM OneReplyEach == ASSUME ReclaimOutlastsBatch PROVE Spec => []AtMostOneReply
<1>1. ASSUME IInv, RepliesLeft PROVE AtMostOneReply
  <2> SUFFICES ASSUME NEW c \in Claims PROVE replies[c] <= 1 + faults
    BY DEF AtMostOneReply
  <2>1. Cardinality(Open(Answered, c)) \in Nat /\ replies[c] \in Nat /\ faults \in Nat
    BY <1>1, OpenFinite DEF IInv, TypeOK
  <2>2. replies[c] + Cardinality(Open(Answered, c)) <= 1 + faults
    BY <1>1 DEF RepliesLeft
  <2> QED BY <2>1, <2>2
<1>2. IInv /\ Held /\ Fresh /\ RepliesLeft /\ [Next]_vars => (IInv /\ Held /\ Fresh /\ RepliesLeft)'
  BY NextIInv, NextHeld, NextReplies
<1>3. Init => IInv /\ Held /\ Fresh /\ RepliesLeft
  BY InitIInv, InitHeld, InitReplies
<1> QED BY <1>1, <1>2, <1>3, PTL DEF Spec

-----------------------------------------------------------------------------
(* The attempts a message's open entries may still make: for every open    *)
(* entry the numbers above its own.                                        *)
Above(i, a) == {i} \X ((a + 1)..MAX_ATTEMPTS)

AttemptsLeft(c) ==
  {x \in Ids \X (1..MAX_ATTEMPTS) : x[1] \in Open(Ending, c) /\ stream[x[1]].attempts < x[2]}

(* A message was queued at most MAX_ATTEMPTS times, and as many times more *)
(* for each fault: what was queued and what is left to try stay in budget. *)
BudgetLeft ==
  \A c \in Claims :
    Cardinality(EntriesOf(c)) + Cardinality(AttemptsLeft(c)) <= MAX_ATTEMPTS * (1 + faults)

LEMMA AboveSize ==
  ASSUME NEW i, NEW a \in 0..MAX_ATTEMPTS
  PROVE  IsFiniteSet(Above(i, a)) /\ Cardinality(Above(i, a)) = MAX_ATTEMPTS - a
<1> DEFINE S == {i}
           T == (a + 1)..MAX_ATTEMPTS
<1>1. a \in Int /\ a <= MAX_ATTEMPTS /\ a + 1 \in Int /\ MAX_ATTEMPTS \in Nat
  BY QueueAssumption
<1>2. IsFiniteSet(S) /\ Cardinality(S) = 1
  BY FS_Singleton
<1>3. /\ IsFiniteSet(T)
      /\ Cardinality(T) = IF a + 1 > MAX_ATTEMPTS THEN 0 ELSE MAX_ATTEMPTS - (a + 1) + 1
  BY <1>1, FS_Interval
<1>4. Cardinality(T) = MAX_ATTEMPTS - a
  BY <1>1, <1>3
<1> HIDE DEF S, T
<1>5. IsFiniteSet(S \X T) /\ Cardinality(S \X T) = Cardinality(S) * Cardinality(T)
  BY <1>2, <1>3, FS_Product
<1>6. Cardinality(S \X T) = MAX_ATTEMPTS - a
  BY <1>1, <1>2, <1>4, <1>5
<1> QED BY <1>5, <1>6 DEF Above, S, T

LEMMA LeftFinite ==
  ASSUME TypeOK, NEW c
  PROVE  IsFiniteSet(AttemptsLeft(c)) /\ Cardinality(AttemptsLeft(c)) \in Nat
<1> DEFINE T == 1..MAX_ATTEMPTS
<1>1. IsFiniteSet(Ids)
  BY OpenFinite
<1>2. IsFiniteSet(T)
  <2>1. 1 \in Int /\ MAX_ATTEMPTS \in Int
    BY QueueAssumption
  <2> QED BY <2>1, FS_Interval
<1>3. AttemptsLeft(c) \subseteq Ids \X T
  BY DEF AttemptsLeft
<1> HIDE DEF T
<1>4. IsFiniteSet(Ids \X T)
  BY <1>1, <1>2, FS_Product
<1> QED BY <1>3, <1>4, FS_Subset, FS_CardinalityType

LEMMA InitBudget == Init => BudgetLeft
<1> SUFFICES ASSUME Init, NEW c \in Claims
             PROVE  Cardinality(EntriesOf(c)) + Cardinality(AttemptsLeft(c)) <= MAX_ATTEMPTS * (1 + faults)
  BY DEF BudgetLeft
<1>1. EntriesOf(c) = {} /\ AttemptsLeft(c) = {}
  BY DEF Init, AttemptsLeft, EntriesOf, Ids
<1>2. faults = 0 /\ Cardinality({}) = 0 /\ MAX_ATTEMPTS \in Nat
  BY FS_EmptySet, QueueAssumption DEF Init
<1> QED BY <1>1, <1>2

(* The attempts left after a step that opens the entries of X: those that  *)
(* were left, and those above the entries of X.                            *)
LEMMA LeftAfter ==
  ASSUME IInv, IInv', NEW c, NEW X, Open(Ending, c)' \subseteq Open(Ending, c) \cup X,
         \A i \in Ids : stream'[i].attempts = stream[i].attempts
  PROVE  \A p \in AttemptsLeft(c)' :
           /\ p \in AttemptsLeft(c) \/ \E i \in X : p \in Above(i, stream'[i].attempts)
           /\ p[1] \in Open(Ending, c)'
<1> SUFFICES ASSUME NEW p \in AttemptsLeft(c)', p[1] \notin X PROVE p \in AttemptsLeft(c)
  <2> SUFFICES ASSUME NEW p \in AttemptsLeft(c)', p[1] \in X
               PROVE  p \in Above(p[1], stream'[p[1]].attempts)
    BY DEF AttemptsLeft
  <2>1. /\ p \in Ids' \X (1..MAX_ATTEMPTS) /\ p[1] \in Ids'
        /\ stream'[p[1]].attempts < p[2] /\ p[2] \in 1..MAX_ATTEMPTS
    BY DEF AttemptsLeft
  <2>2. stream'[p[1]].attempts \in Nat
    <3>1. stream'[p[1]] \in Entry
      BY <2>1 DEF IInv, TypeOK, Ids
    <3> QED BY <3>1, QueueAssumption DEF Entry
  <2>3. p[2] \in (stream'[p[1]].attempts + 1)..MAX_ATTEMPTS
    BY <2>1, <2>2, QueueAssumption
  <2>4. p = <<p[1], p[2]>>
    BY <2>1
  <2> QED BY <2>3, <2>4 DEF Above
<1>1. /\ p \in Ids' \X (1..MAX_ATTEMPTS) /\ p[1] \in Open(Ending, c)'
      /\ stream'[p[1]].attempts < p[2] /\ p[2] \in 1..MAX_ATTEMPTS /\ p = <<p[1], p[2]>>
  BY DEF AttemptsLeft
<1>2. p[1] \in Open(Ending, c) /\ p[1] \in Ids
  BY <1>1 DEF Open, EntriesOf
<1>3. p \in Ids \X (1..MAX_ATTEMPTS)
  BY <1>1, <1>2
<1> QED BY <1>1, <1>2, <1>3 DEF AttemptsLeft

(* A step that queues m entries more and leaves k attempts more.           *)
LEMMA BudgetStep ==
  ASSUME IInv, IInv', BudgetLeft, NEW c \in Claims, NEW k \in Int, NEW m \in Int,
         NEW f \in Nat, faults' = faults + f, k + m <= MAX_ATTEMPTS * f,
         Cardinality(AttemptsLeft(c)') <= Cardinality(AttemptsLeft(c)) + k,
         Cardinality(EntriesOf(c)') <= Cardinality(EntriesOf(c)) + m
  PROVE  Cardinality(EntriesOf(c)') + Cardinality(AttemptsLeft(c)') <= MAX_ATTEMPTS * (1 + faults')
<1>1. /\ Cardinality(EntriesOf(c)) \in Nat /\ Cardinality(AttemptsLeft(c)) \in Nat
      /\ faults \in Nat /\ MAX_ATTEMPTS \in Nat
  <2>1. TypeOK /\ MAX_ATTEMPTS \in Nat
    BY QueueAssumption DEF IInv
  <2>2. faults \in Nat
    BY <2>1 DEF TypeOK
  <2> QED BY <2>1, <2>2, OpenFinite, LeftFinite
<1>2. Cardinality(EntriesOf(c)') \in Nat /\ Cardinality(AttemptsLeft(c)') \in Nat
  <2>1. TypeOK'
    BY DEF IInv
  <2>2. Cardinality(EntriesOf(c)') \in Nat
    <3>1. Len(stream') \in Nat /\ EntriesOf(c)' \in SUBSET (1..Len(stream'))
      BY <2>1 DEF TypeOK, EntriesOf, Ids
    <3> QED BY <3>1, IdsFinite
  <2>3. Cardinality(AttemptsLeft(c)') \in Nat
    <3> DEFINE T == 1..MAX_ATTEMPTS
    <3>1. IsFiniteSet(Ids')
      <4>1. Len(stream') \in Nat /\ Ids' \in SUBSET (1..Len(stream'))
        BY <2>1 DEF TypeOK, Ids
      <4> QED BY <4>1, IdsFinite
    <3>2. IsFiniteSet(T)
      <4>1. 1 \in Int /\ MAX_ATTEMPTS \in Int
        BY <1>1
      <4> QED BY <4>1, FS_Interval
    <3>3. AttemptsLeft(c)' \subseteq Ids' \X T
      BY DEF AttemptsLeft
    <3> HIDE DEF T
    <3>4. IsFiniteSet(Ids' \X T)
      BY <3>1, <3>2, FS_Product
    <3> QED BY <3>3, <3>4, FS_Subset, FS_CardinalityType
  <2> QED BY <2>2, <2>3
<1>3. Cardinality(EntriesOf(c)) + Cardinality(AttemptsLeft(c)) <= MAX_ATTEMPTS * (1 + faults)
  BY DEF BudgetLeft
<1>4. MAX_ATTEMPTS * (1 + faults') = MAX_ATTEMPTS * (1 + faults) + MAX_ATTEMPTS * f
      /\ MAX_ATTEMPTS * (1 + faults) \in Nat /\ MAX_ATTEMPTS * f \in Nat
  BY <1>1
<1> QED BY <1>1, <1>2, <1>3, <1>4

LEMMA NextBudget ==
  ASSUME IInv, Held, BudgetLeft, [Next]_vars
  PROVE  BudgetLeft'
<1>i. IInv'
  BY NextIInv
<1>t. TypeOK /\ faults \in Nat /\ faults' \in Nat /\ Ending \in SUBSET Answered
      /\ Ending \in {Ending, Answered} /\ MAX_ATTEMPTS \in Nat /\ MAX_ATTEMPTS >= 1
  BY <1>i, QueueAssumption DEF IInv, TypeOK, Ending, Answered
<1> SUFFICES ASSUME NEW c \in Claims
             PROVE  Cardinality(EntriesOf(c)') + Cardinality(AttemptsLeft(c)')
                      <= MAX_ATTEMPTS * (1 + faults')
  BY DEF BudgetLeft
<1> DEFINE A == AttemptsLeft(c)
           E == EntriesOf(c)
           Goal == Cardinality(E') + Cardinality(A') <= MAX_ATTEMPTS * (1 + faults')
<1>f. /\ IsFiniteSet(A) /\ Cardinality(A) \in Nat
      /\ IsFiniteSet(E) /\ Cardinality(E) \in Nat
  BY <1>t, LeftFinite, OpenFinite
<1>0. ASSUME Open(Ending, c)' \subseteq Open(Ending, c), E' = E, faults' >= faults,
             \A i \in Ids : stream'[i].attempts = stream[i].attempts
      PROVE  Goal
  <2>1. A' \subseteq A
    <3> PICK X : X = {}
      OBVIOUS
    <3>1. Open(Ending, c)' \subseteq Open(Ending, c) \cup X
      BY <1>0
    <3>2. \A i \in Ids : stream'[i].attempts = stream[i].attempts
      BY <1>0
    <3>3. \A p \in A' : /\ p \in A \/ \E i \in X : p \in Above(i, stream'[i].attempts)
                       /\ p[1] \in Open(Ending, c)'
      BY <1>i, <3>1, <3>2, LeftAfter
    <3> QED BY <3>3
  <2>2. Cardinality(A') <= Cardinality(A) + 0 /\ Cardinality(E') <= Cardinality(E) + 0
    <3> HIDE DEF A, E
    <3>1. Cardinality(A') <= Cardinality(A) /\ Cardinality(A') \in Nat
      BY <1>f, <2>1, FS_Subset, FS_CardinalityType
    <3> QED BY <1>f, <1>0, <3>1
  <2>3. PICK f \in Nat : faults' = faults + f
    <3>1. \A x, y \in Nat : y >= x => y - x \in Nat /\ y = x + (y - x)
      OBVIOUS
    <3> QED BY <1>t, <1>0, <3>1, Zenon
  <2>4. 0 + 0 <= MAX_ATTEMPTS * f
    BY <1>t, <2>3
  <2> QED BY <1>i, <2>2, <2>3, <2>4, BudgetStep
<1>1. ASSUME NEW k \in Claims, Enqueue(k) PROVE Goal
  <2>1. CASE c = k
    <3> DEFINE n == Len(stream) + 1
    <3>1. /\ E = {} /\ E' = {n} /\ Open(Ending, c)' \subseteq {n} /\ faults' = faults
          /\ stream'[n].attempts = 1
          /\ \A i \in Ids : stream'[i].attempts = stream[i].attempts
      BY <1>t, <1>1, <2>1, EnqueueOpens
    <3> HIDE DEF n
    <3>2. A' \subseteq Above(n, 1)
      <4>1. Open(Ending, c)' \subseteq Open(Ending, c) \cup {n}
        BY <3>1
      <4>2. Open(Ending, c) = {}
        BY <3>1 DEF Open
      <4>3. A = {}
        BY <4>2 DEF AttemptsLeft
      <4>4. \A p \in A' : p \in A \/ \E i \in {n} : p \in Above(i, stream'[i].attempts)
        BY <1>i, <3>1, <4>1, LeftAfter
      <4> QED BY <3>1, <4>3, <4>4
    <3>3. Cardinality(A') <= MAX_ATTEMPTS - 1 /\ Cardinality(A') \in Nat
      <4>1. 1 \in 0..MAX_ATTEMPTS
        BY <1>t
      <4>2. IsFiniteSet(Above(n, 1)) /\ Cardinality(Above(n, 1)) = MAX_ATTEMPTS - 1
        BY <4>1, AboveSize
      <4> HIDE DEF A
      <4> QED BY <3>2, <4>2, FS_Subset, FS_CardinalityType
    <3>4. Cardinality(E') = 1
      BY <3>1, FS_Singleton
    <3>5. MAX_ATTEMPTS <= MAX_ATTEMPTS * (1 + faults') /\ MAX_ATTEMPTS * (1 + faults') \in Nat
      <4>1. ASSUME NEW x \in Nat, NEW y \in Nat PROVE x <= x * (1 + y) /\ x * (1 + y) \in Nat
        <5>1. x * y \in Nat /\ x * (1 + y) = x + x * y
          OBVIOUS
        <5> QED BY <5>1
      <4>2. MAX_ATTEMPTS \in Nat /\ faults' \in Nat
        BY <1>t
      <4> QED BY <4>1, <4>2, Zenon
    <3> HIDE DEF A, E
    <3>6. Cardinality(E') + Cardinality(A') <= MAX_ATTEMPTS
      BY <1>t, <3>3, <3>4
    <3> QED BY <1>t, <3>3, <3>4, <3>5, <3>6
  <2>2. CASE c # k
    <3>1. /\ Open(Ending, c)' \subseteq Open(Ending, c) /\ E' = E /\ faults' = faults
          /\ \A i \in Ids : stream'[i].attempts = stream[i].attempts
      BY <1>t, <1>1, <2>2, EnqueueOpens
    <3> QED BY <1>0, <1>t, <3>1
  <2> QED BY <2>1, <2>2
<1>2. ASSUME NEW w \in Workers, Retry(w) PROVE Goal
  <2>1. CASE c = CurrentEntry(w).claim
    <3> DEFINE n == Len(stream) + 1
               i0 == Current(w)
               a == stream[i0].attempts
    <3>1. /\ n \notin Ids /\ i0 \in Open(Ending, c) /\ E' = E \cup {n} /\ faults' = faults
          /\ Open(Ending, c)' \subseteq (Open(Ending, c) \ {i0}) \cup {n}
          /\ stream'[n].attempts = a + 1
          /\ \A i \in Ids : stream'[i].attempts = stream[i].attempts
      BY <1>t, <1>2, <2>1, RetryOpens
    <3>2. a \in Nat /\ a + 1 <= MAX_ATTEMPTS /\ i0 \in Ids
      <4>1. CurrentEntry(w) \in Entry /\ i0 \in Ids
        BY <1>2, HeldEntry DEF Retry
      <4> QED BY <1>2, <4>1, QueueAssumption DEF Retry, is_last_attempt, Entry, CurrentEntry
    <3> HIDE DEF n, i0, a
    <3>3. a \in 0..MAX_ATTEMPTS /\ a + 1 \in 0..MAX_ATTEMPTS
      BY <1>t, <3>2
    <3>4. /\ IsFiniteSet(Above(i0, a)) /\ Cardinality(Above(i0, a)) = MAX_ATTEMPTS - a
          /\ IsFiniteSet(Above(n, a + 1)) /\ Cardinality(Above(n, a + 1)) = MAX_ATTEMPTS - (a + 1)
      BY <3>3, AboveSize
    <3>5. Above(i0, a) \subseteq A
      <4> SUFFICES ASSUME NEW p \in Above(i0, a) PROVE p \in A
        OBVIOUS
      <4>1. p[1] = i0 /\ p[2] \in (a + 1)..MAX_ATTEMPTS /\ p = <<p[1], p[2]>>
        BY DEF Above
      <4>2. p[2] \in 1..MAX_ATTEMPTS /\ a < p[2]
        BY <3>2, <4>1
      <4>3. p \in Ids \X (1..MAX_ATTEMPTS)
        BY <3>2, <4>1, <4>2
      <4> QED BY <3>1, <4>1, <4>2, <4>3 DEF AttemptsLeft, a
    <3>6. A' \subseteq (A \ Above(i0, a)) \cup Above(n, a + 1)
      <4>1. Open(Ending, c)' \subseteq Open(Ending, c) \cup {n}
        BY <3>1
      <4>2. \A p \in A' : (p \in A \/ p \in Above(n, a + 1)) /\ p[1] \in Open(Ending, c)'
        <5>1. \A p \in A' : /\ p \in A \/ \E i \in {n} : p \in Above(i, stream'[i].attempts)
                           /\ p[1] \in Open(Ending, c)'
          BY <1>i, <3>1, <4>1, LeftAfter
        <5> QED BY <3>1, <5>1
      <4>3. \A p \in Above(i0, a) : p[1] = i0
        BY DEF Above
      <4>4. i0 \notin Open(Ending, c)'
        BY <3>1, <3>2
      <4> QED BY <4>2, <4>3, <4>4
    <3>7. Cardinality(A') <= Cardinality(A) + (0 - 1)
      <4> HIDE DEF A
      <4>1. /\ IsFiniteSet(A \ Above(i0, a))
            /\ Cardinality(A \ Above(i0, a)) = Cardinality(A) - Cardinality(A \cap Above(i0, a))
        BY <1>f, FS_Difference
      <4>2. A \cap Above(i0, a) = Above(i0, a)
        BY <3>5
      <4> DEFINE D == A \ Above(i0, a)
                 U == Above(n, a + 1)
      <4>3. IsFiniteSet(D) /\ Cardinality(D) = Cardinality(A) - (MAX_ATTEMPTS - a)
        BY <3>4, <4>1, <4>2
      <4>4. IsFiniteSet(U) /\ Cardinality(U) = MAX_ATTEMPTS - (a + 1) /\ A' \subseteq D \cup U
        BY <3>4, <3>6
      <4> HIDE DEF D, U
      <4>5. /\ IsFiniteSet(D \cup U)
            /\ Cardinality(D \cup U) = Cardinality(D) + Cardinality(U) - Cardinality(D \cap U)
        BY <4>3, <4>4, FS_Union
      <4>6. IsFiniteSet(D \cap U) /\ Cardinality(D \cap U) \in Nat
        BY <4>3, FS_Subset, FS_CardinalityType
      <4>7. Cardinality(A') <= Cardinality(D \cup U) /\ Cardinality(A') \in Nat
        BY <4>4, <4>5, FS_Subset, FS_CardinalityType
      <4> QED BY <1>f, <1>t, <3>2, <4>3, <4>4, <4>5, <4>6, <4>7
    <3>8. Cardinality(E') <= Cardinality(E) + 1
      <4> HIDE DEF E
      <4>1. E' \in SUBSET (E \cup {n})
        BY <3>1
      <4> QED BY <1>f, <4>1, OneMore
    <3>9. (0 - 1) + 1 <= MAX_ATTEMPTS * 0 /\ faults' = faults + 0 /\ 0 - 1 \in Int
      BY <1>t, <3>1
    <3> QED BY <1>i, <3>7, <3>8, <3>9, BudgetStep
  <2>2. CASE c # CurrentEntry(w).claim
    <3>1. /\ Open(Ending, c)' \subseteq Open(Ending, c) /\ E' = E /\ faults' = faults
          /\ \A i \in Ids : stream'[i].attempts = stream[i].attempts
      <4>1. PICK k : k = CurrentEntry(w).claim
        OBVIOUS
      <4> QED BY <1>t, <1>2, <2>2, <4>1, RetryOpens
    <3> QED BY <1>0, <1>t, <3>1
  <2> QED BY <2>1, <2>2
<1>3. ASSUME \/ \E w \in Workers : (WorkerStep(w) /\ ~Retry(w)) \/ Fault(w) \/ Restart(w)
             \/ Tick \/ UNCHANGED vars
      PROVE  Goal
  <2>1. SameClaims /\ ((Steady(Ending) /\ faults' >= faults) \/ Undone(Ending))
    BY <1>3, OpenNext
  <2>2. E' = E /\ \A i \in Ids : stream'[i].attempts = stream[i].attempts
    BY <2>1 DEF SameClaims, EntriesOf, Ids
  <2>3. CASE Steady(Ending) /\ faults' >= faults
    BY <1>0, <2>2, <2>3 DEF Steady
  <2>4. CASE Undone(Ending)
    <3>1. PICK x \in Ids : Open(Ending, c)' \subseteq Open(Ending, c) \cup {x}
      BY <2>4 DEF Undone
    <3> DEFINE a == stream[x].attempts
    <3>2. a \in 0..MAX_ATTEMPTS /\ a \in Nat
      <4>1. stream[x] \in Entry
        BY <1>t DEF TypeOK, Ids
      <4> QED BY <1>t, <4>1 DEF Entry
    <3>3. A' \subseteq A \cup Above(x, a)
      <4>1. \A i \in Ids : stream'[i].attempts = stream[i].attempts
        BY <2>2
      <4>2. \A p \in A' : /\ p \in A \/ \E i \in {x} : p \in Above(i, stream'[i].attempts)
                         /\ p[1] \in Open(Ending, c)'
        BY <1>i, <3>1, <4>1, LeftAfter
      <4> QED BY <4>1, <4>2
    <3> HIDE DEF a
    <3>4. IsFiniteSet(Above(x, a)) /\ Cardinality(Above(x, a)) = MAX_ATTEMPTS - a
      BY <3>2, AboveSize
    <3>5. Cardinality(A') <= Cardinality(A) + MAX_ATTEMPTS
      <4> DEFINE U == Above(x, a)
      <4> HIDE DEF A, U
      <4>1. IsFiniteSet(U) /\ Cardinality(U) = MAX_ATTEMPTS - a /\ A' \subseteq A \cup U
        BY <3>3, <3>4 DEF U
      <4>2. /\ IsFiniteSet(A \cup U)
            /\ Cardinality(A \cup U) = Cardinality(A) + Cardinality(U) - Cardinality(A \cap U)
        BY <1>f, <4>1, FS_Union
      <4>3. IsFiniteSet(A \cap U) /\ Cardinality(A \cap U) \in Nat
        BY <1>f, FS_Subset, FS_CardinalityType
      <4>4. Cardinality(A') <= Cardinality(A \cup U) /\ Cardinality(A') \in Nat
        BY <4>1, <4>2, FS_Subset, FS_CardinalityType
      <4> QED BY <1>f, <1>t, <3>2, <4>1, <4>2, <4>3, <4>4
    <3>6. Cardinality(E') <= Cardinality(E) + 0
      BY <1>f, <2>2
    <3>7. faults' = faults + 1 /\ MAX_ATTEMPTS + 0 <= MAX_ATTEMPTS * 1 /\ MAX_ATTEMPTS \in Int
      BY <1>t, <2>4 DEF Undone
    <3> QED BY <1>i, <3>5, <3>6, <3>7, BudgetStep
  <2> QED BY <2>1, <2>3, <2>4
<1> HIDE DEF Goal
<1>4. Goal
  BY <1>1, <1>2, <1>3 DEF Next
<1> QED BY <1>4 DEF Goal

(* The retry budget of reclaim survives faults, for any numbers of         *)
(* messages, workers and attempts: a crash or an exception makes one entry *)
(* be queued again and costs at most one more round of attempts.           *)
THEOREM BudgetKept == ASSUME ReclaimOutlastsBatch PROVE Spec => []AttemptBudget
<1>1. ASSUME IInv, BudgetLeft PROVE AttemptBudget
  <2> SUFFICES ASSUME NEW c \in Claims
               PROVE  Cardinality(EntriesOf(c)) <= MAX_ATTEMPTS * (1 + faults)
    BY DEF AttemptBudget
  <2>1. TypeOK
    BY <1>1 DEF IInv
  <2>2. /\ Cardinality(EntriesOf(c)) \in Nat /\ Cardinality(AttemptsLeft(c)) \in Nat
        /\ MAX_ATTEMPTS * (1 + faults) \in Nat
    <3>1. faults \in Nat /\ MAX_ATTEMPTS \in Nat
      BY <2>1, QueueAssumption DEF TypeOK
    <3> QED BY <2>1, <3>1, OpenFinite, LeftFinite
  <2> QED BY <1>1, <2>2 DEF BudgetLeft
<1>2. IInv /\ Held /\ Fresh /\ BudgetLeft /\ [Next]_vars => (IInv /\ Held /\ Fresh /\ BudgetLeft)'
  BY NextIInv, NextHeld, NextBudget
<1>3. Init => IInv /\ Held /\ Fresh /\ BudgetLeft
  BY InitIInv, InitHeld, InitBudget
<1> QED BY <1>1, <1>2, <1>3, PTL DEF Spec

-----------------------------------------------------------------------------
(* A message of an agent that cannot send is not queued twice: until it is *)
(* acknowledged, the worker that read its entry has it in hand, and no     *)
(* sweep takes it back.                                                    *)
Hopeless(i) == stream[i].claim \in Misconfigured \ Undecodable

InHand(i) == \E w \in Workers : worker[w].mode = "turn" /\ i \in worker[w].todo

FirstAttempts ==
  faults = 0 =>
    /\ \A i \in Ids : stream[i].claim \in Misconfigured => stream[i].attempts = 1
    /\ \A i \in Pending : i > trimmed /\ Hopeless(i) => InHand(i)
    /\ \A w \in Workers : worker[w].mode = "sweep" => \A i \in worker[w].todo : ~Hopeless(i)

LEMMA InitFirst == Init => FirstAttempts
<1> SUFFICES ASSUME Init PROVE FirstAttempts
  OBVIOUS
<1>1. Ids = {} /\ Pending = {}
  BY DEF Init, Ids, Pending
<1>2. \A w \in Workers : worker[w].todo = {}
  BY DEF Init, Idle
<1> QED BY <1>1, <1>2 DEF FirstAttempts

LEMMA FirstStep ==
  ASSUME IInv, IInv', Held, FirstAttempts, faults = 0, trimmed <= trimmed', Ids \subseteq Ids',
         \A i \in Ids : /\ stream'[i].claim = stream[i].claim
                        /\ stream'[i].attempts = stream[i].attempts,
         \A i \in Ids' : i \notin Ids =>
           (stream'[i].claim \in Misconfigured => stream'[i].attempts = 1),
         \A i \in Pending' : i \in Ids /\ (i \in Pending \/ i <= trimmed' \/ ~Hopeless(i) \/ InHand(i)'),
         \A v \in Workers : \A i \in worker[v].todo : worker[v].mode = "turn" =>
           \/ worker'[v].mode = "turn" /\ i \in worker'[v].todo
           \/ i \notin Pending' \/ ~Hopeless(i),
         \A v \in Workers : worker'[v].mode = "sweep" => \A i \in worker'[v].todo :
           i \in Ids /\ (~Hopeless(i) \/ (worker[v].mode = "sweep" /\ i \in worker[v].todo))
  PROVE  FirstAttempts'
<1>1. \A i \in Ids : Hopeless(i)' <=> Hopeless(i)
  BY DEF Hopeless
<1>2. ASSUME NEW i \in Ids', stream'[i].claim \in Misconfigured PROVE stream'[i].attempts = 1
  BY <1>2 DEF FirstAttempts
<1>3. ASSUME NEW i \in Pending', i > trimmed', Hopeless(i)' PROVE InHand(i)'
  <2>1. i \in Ids /\ Hopeless(i) /\ i \in Nat /\ trimmed \in Nat /\ trimmed' \in Nat
    BY <1>1, <1>3 DEF IInv, TypeOK, Ids
  <2>2. i > trimmed /\ ~(i <= trimmed')
    BY <1>3, <2>1
  <2>3. CASE InHand(i)'
    BY <2>3
  <2>4. CASE i \in Pending
    <3>1. InHand(i)
      BY <2>1, <2>2, <2>4 DEF FirstAttempts
    <3> QED BY <1>3, <2>1, <3>1 DEF InHand
  <2> QED BY <1>3, <2>1, <2>2, <2>3, <2>4
<1>4. ASSUME NEW v \in Workers, worker'[v].mode = "sweep", NEW i \in worker'[v].todo
      PROVE  ~Hopeless(i)'
  BY <1>1, <1>4 DEF FirstAttempts
<1> QED BY <1>2, <1>3, <1>4 DEF FirstAttempts

LEMMA NextFirst ==
  ASSUME ReclaimOutlastsBatch, IInv, Held, Fresh, FirstAttempts, [Next]_vars
  PROVE  FirstAttempts'
<1>i. IInv'
  BY NextIInv
<1>t. /\ TypeOK /\ stream \in Seq(Entry) /\ Len(stream) \in Nat /\ delivered \in Nat
      /\ delivered <= Len(stream) /\ trimmed \in Nat /\ trimmed <= trimmed
      /\ faults \in Nat /\ faults' \in Nat
      /\ \A w \in Workers : InTime(w) /\ Placed(w)
      /\ \A w \in Workers : worker[w].todo \subseteq Ids /\ worker[w].todo \subseteq Pending
      /\ \A w \in Workers : worker[w].mode \in {"sweep", "turn"}
  BY <1>i DEF IInv, TypeOK, Held, InTime, Worker, Pending
<1> SUFFICES ASSUME faults' = 0 PROVE FirstAttempts'
  BY DEF FirstAttempts
(* Steps that bring in no new entry.                                       *)
<1>0. ASSUME faults = 0, SameClaims, trimmed' = trimmed,
             \A i \in Pending' : i \in Pending \/ i <= trimmed' \/ ~Hopeless(i) \/ InHand(i)',
             \A v \in Workers : \A i \in worker[v].todo : worker[v].mode = "turn" =>
               \/ worker'[v].mode = "turn" /\ i \in worker'[v].todo
               \/ i \notin Pending' \/ ~Hopeless(i),
             \A v \in Workers : worker'[v].mode = "sweep" => \A i \in worker'[v].todo :
               ~Hopeless(i) \/ (worker[v].mode = "sweep" /\ i \in worker[v].todo)
      PROVE  FirstAttempts'
  <2>1. Ids' = Ids
    BY <1>0 DEF SameClaims, Ids
  <2>2. Ids \subseteq Ids' /\ \A i \in Ids : /\ stream'[i].claim = stream[i].claim
                                            /\ stream'[i].attempts = stream[i].attempts
    BY <1>0, <2>1 DEF SameClaims
  <2>3. \A i \in Ids' : i \notin Ids =>
          (stream'[i].claim \in Misconfigured => stream'[i].attempts = 1)
    BY <2>1
  <2>4. \A i \in Pending' :
          i \in Ids /\ (i \in Pending \/ i <= trimmed' \/ ~Hopeless(i) \/ InHand(i)')
    BY <1>0, <2>1 DEF Pending
  <2>5. \A v \in Workers : worker'[v].mode = "sweep" => \A i \in worker'[v].todo :
          i \in Ids /\ (~Hopeless(i) \/ (worker[v].mode = "sweep" /\ i \in worker[v].todo))
    BY <1>i, <1>0, <2>1 DEF IInv, HoldsEntries
  <2>6. trimmed <= trimmed'
    BY <1>t, <1>0
  <2> QED BY <1>i, <1>0, <2>2, <2>3, <2>4, <2>5, <2>6, FirstStep
<1>a. ASSUME faults = 0, SameEntries, trimmed' = trimmed, delivered' = delivered,
             \A v \in Workers : /\ worker'[v].mode = worker[v].mode \/ worker'[v].todo = {}
                                /\ worker'[v].todo = worker[v].todo
      PROVE  FirstAttempts'
  <2>1. Pending' = Pending
    BY <1>a DEF SameEntries, SameClaims, Pending, Ids
  <2>2. SameClaims
    BY <1>a DEF SameEntries
  <2> QED BY <1>0, <1>a, <2>1, <2>2
<1>b. ASSUME faults = 0, NEW e \in Entry, XADD(e), delivered' = delivered,
             \A v \in Workers : /\ worker'[v].mode = worker[v].mode
                                /\ worker'[v].todo = worker[v].todo,
             e.claim \in Misconfigured => e.attempts = 1
      PROVE  FirstAttempts'
  <2> DEFINE n == Len(stream) + 1
  <2>1. /\ Ids' = Ids \cup {n} /\ n \notin Ids /\ stream'[n] = e
        /\ \A i \in Ids : stream'[i] = stream[i]
    BY <1>b, Appended
  <2>2. trimmed <= trimmed'
    BY <1>t, <1>b, XADDAppends
  <2>3. ~(n <= delivered)
    BY <1>t
  <2> HIDE DEF n
  <2>4. Pending' \subseteq Pending
    BY <1>b, <2>1, <2>3 DEF Pending
  <2>5. \A i \in Pending' :
          i \in Ids /\ (i \in Pending \/ i <= trimmed' \/ ~Hopeless(i) \/ InHand(i)')
    BY <2>4 DEF Pending
  <2>6. \A i \in Ids' : i \notin Ids =>
          (stream'[i].claim \in Misconfigured => stream'[i].attempts = 1)
    BY <1>b, <2>1
  <2>7. \A v \in Workers : worker'[v].mode = "sweep" => \A i \in worker'[v].todo :
          i \in Ids /\ (~Hopeless(i) \/ (worker[v].mode = "sweep" /\ i \in worker[v].todo))
    BY <1>t, <1>b
  <2>8. \A v \in Workers : \A i \in worker[v].todo : worker[v].mode = "turn" =>
          \/ worker'[v].mode = "turn" /\ i \in worker'[v].todo
          \/ i \notin Pending' \/ ~Hopeless(i)
    BY <1>b
  <2>9. Ids \subseteq Ids' /\ \A i \in Ids : /\ stream'[i].claim = stream[i].claim
                                            /\ stream'[i].attempts = stream[i].attempts
    BY <2>1
  <2> QED BY <1>i, <1>b, <2>2, <2>5, <2>6, <2>7, <2>8, <2>9, FirstStep
<1>1. ASSUME NEW c \in Claims, Enqueue(c) PROVE FirstAttempts'
  <2> DEFINE e == FreshEntry(c, 1)
  <2>1. e \in Entry /\ e.attempts = 1
    BY FreshEntryIsEntry, QueueAssumption DEF FreshEntry
  <2>2. XADD(e) /\ worker' = worker /\ delivered' = delivered /\ faults = 0
    BY <1>1 DEF Enqueue
  <2> HIDE DEF e
  <2> QED BY <1>b, <2>1, <2>2
<1>2. ASSUME NEW w \in Workers, Retry(w) PROVE FirstAttempts'
  <2> DEFINE e == FreshEntry(CurrentEntry(w).claim, CurrentEntry(w).attempts + 1)
  <2>1. CurrentEntry(w) \in Entry /\ Current(w) \in worker[w].todo
    BY <1>2, HeldEntry DEF Retry
  <2>2. /\ CurrentEntry(w).claim \in Claims
        /\ CurrentEntry(w).attempts + 1 \in 1..MAX_ATTEMPTS
    BY <1>2, <2>1, QueueAssumption DEF Retry, is_last_attempt, Entry
  <2>3. e \in Entry /\ e.claim = CurrentEntry(w).claim
    BY <2>2, FreshEntryIsEntry DEF FreshEntry
  <2>4. XADD(e) /\ delivered' = delivered /\ faults = 0
    BY <1>2 DEF Retry
  <2>5. CurrentEntry(w).claim \notin Misconfigured
    <3>1. worker[w].mode = "sweep" /\ CurrentEntry(w).claim \notin Undecodable
      BY <1>t, <1>2 DEF Retry, Placed
    <3> QED BY <2>1, <2>4, <3>1 DEF FirstAttempts, Hopeless, CurrentEntry
  <2> HIDE DEF e
  <2>6. GoesOn(w)
    BY <1>2, Kinds
  <2>7. \A v \in Workers : /\ worker'[v].mode = worker[v].mode
                           /\ worker'[v].todo = worker[v].todo
    BY <2>6 DEF GoesOn, Others
  <2> QED BY <1>b, <2>3, <2>4, <2>5, <2>7
<1>3. ASSUME NEW w \in Workers, Sweep(w) PROVE FirstAttempts'
  <2> DEFINE S == FirstOf(DEFAULT_BATCH_SIZE, Stale)
  <2>1. S \subseteq Stale
    BY DEF FirstOf
  <2>2. /\ Deliver(S) /\ Loop(w, "sweep", S) /\ delivered' = delivered /\ trimmed' = trimmed
        /\ faults = 0 /\ worker[w].pc = "poll"
    BY <1>3 DEF Sweep
  <2> HIDE DEF S
  <2>3. S \in SUBSET Nat /\ S \subseteq Pending
    BY <2>1 DEF Stale, Pending, Ids
  <2>4. SameEntries /\ SameClaims
    BY <1>t, <2>2, DeliverKeepsEntries DEF SameEntries
  <2>5. Pending' = Pending
    BY <2>2, <2>4 DEF SameEntries, SameClaims, Pending, Ids
  <2>6. /\ worker'[w].todo = S /\ worker'[w].mode = "sweep" /\ worker[w].todo = {}
        /\ \A v \in Workers : v # w => worker'[v] = worker[v]
    BY <1>t, <2>2, <2>3, LoopEnters DEF Enters, Others, Placed, OutOfLoop
  <2>7. \A i \in S : ~Hopeless(i)
    <3> SUFFICES ASSUME NEW i \in S, Hopeless(i) PROVE FALSE
      OBVIOUS
    <3>1. i \in Stale /\ i \in Pending /\ i > trimmed
      BY <2>1 DEF Stale
    <3>2. PICK v \in Workers : i \in worker[v].todo
      BY <2>2, <3>1 DEF FirstAttempts, InHand
    <3> QED BY <1>t, <3>1, <3>2, NotStaleYet
  <2>8. \A v \in Workers : \A i \in worker[v].todo : worker[v].mode = "turn" =>
          \/ worker'[v].mode = "turn" /\ i \in worker'[v].todo
          \/ i \notin Pending' \/ ~Hopeless(i)
    BY <2>6
  <2>9. \A v \in Workers : worker'[v].mode = "sweep" => \A i \in worker'[v].todo :
          ~Hopeless(i) \/ (worker[v].mode = "sweep" /\ i \in worker[v].todo)
    BY <2>6, <2>7
  <2> QED BY <1>0, <2>2, <2>4, <2>5, <2>8, <2>9
<1>4. ASSUME NEW w \in Workers, Consume(w) PROVE FirstAttempts'
  <2> DEFINE S == FirstOf(DEFAULT_BATCH_SIZE, Unread)
             T == {i \in S : stream[i].claim \notin Undecodable}
  <2>1. S \subseteq Unread /\ \A i \in S, j \in Unread : j <= i => j \in S
    <3>1. Unread \in SUBSET (1..Len(stream)) /\ DEFAULT_BATCH_SIZE \in Nat
      BY QueueAssumption DEF Unread, Ids
    <3> QED BY <1>t, <3>1, FirstOfBatch
  <2>2. /\ Deliver(S) /\ Loop(w, "turn", T) /\ trimmed' = trimmed
        /\ faults = 0 /\ worker[w].pc = "fetch"
        /\ delivered' = IF S = {} THEN delivered ELSE CHOOSE i \in S : \A j \in S : j <= i
    BY <1>4 DEF Consume
  <2>3. T \subseteq S /\ \A i \in S : i \in T \/ ~Hopeless(i)
    BY DEF Hopeless
  <2> HIDE DEF S, T
  <2>4. S \in SUBSET Ids /\ T \in SUBSET Nat
    BY <2>1, <2>3 DEF Unread, Ids
  <2>5. delivered' = delivered \/ delivered' \in S
    <3>1. CASE S = {}
      BY <2>2, <3>1
    <3>2. CASE S # {}
      <4>1. S \in SUBSET (1..Len(stream))
        BY <2>4 DEF Ids
      <4>2. \E i \in S : \A j \in S : j <= i
        BY <1>t, <3>2, <4>1, MaxExists
      <4> QED BY <2>2, <3>2, <4>2
    <3> QED BY <3>1, <3>2
  <2>6. SameEntries /\ SameClaims /\ Ids' = Ids
    BY <1>t, <2>2, DeliverKeepsEntries DEF SameEntries, SameClaims, Ids
  <2>7. /\ worker'[w].todo = T /\ worker'[w].mode = "turn" /\ worker[w].todo = {}
        /\ \A v \in Workers : v # w => worker'[v] = worker[v]
    BY <1>t, <2>2, <2>4, LoopEnters DEF Enters, Others, Placed, OutOfLoop
  <2>8. ASSUME NEW i \in Pending', i \notin Pending, ~(i <= trimmed'), Hopeless(i)
        PROVE  InHand(i)'
    <3>1. i \in Ids /\ i \in Nat /\ i <= delivered' /\ ~stream[i].acked
      BY <2>6, <2>8 DEF Pending, SameEntries, Ids
    <3>2. ~(i <= delivered)
      BY <2>8, <3>1 DEF Pending
    <3>3. delivered' \in S
      BY <2>5, <3>1, <3>2
    <3>4. i \in Unread
      BY <1>t, <2>2, <2>8, <3>1, <3>2 DEF Unread
    <3>5. i \in T
      BY <2>1, <2>3, <2>8, <3>1, <3>3, <3>4
    <3> QED BY <2>7, <3>5 DEF InHand
  <2>9. \A v \in Workers : \A i \in worker[v].todo : worker[v].mode = "turn" =>
          \/ worker'[v].mode = "turn" /\ i \in worker'[v].todo
          \/ i \notin Pending' \/ ~Hopeless(i)
    BY <2>7
  <2>10. \A v \in Workers : worker'[v].mode = "sweep" => \A i \in worker'[v].todo :
           ~Hopeless(i) \/ (worker[v].mode = "sweep" /\ i \in worker[v].todo)
    BY <2>7
  <2> QED BY <1>0, <2>2, <2>6, <2>8, <2>9, <2>10
<1>5. ASSUME NEW w \in Workers, MovesOn(w), SameClaims, trimmed' = trimmed, faults = 0,
             delivered' = delivered, \A i \in Ids : stream[i].acked => stream'[i].acked,
             stream'[Current(w)].acked \/ ~Hopeless(Current(w))
      PROVE  FirstAttempts'
  <2>1. /\ worker'[w].todo = worker[w].todo \ {Current(w)} /\ worker'[w].mode = worker[w].mode
        /\ \A v \in Workers : v # w => worker'[v] = worker[v]
    BY <1>5 DEF MovesOn, Enters, Others
  <2>2. Pending' \subseteq Pending /\ (Current(w) \notin Pending' \/ ~Hopeless(Current(w)))
    BY <1>5 DEF SameClaims, Pending, Ids
  <2>3. \A v \in Workers : \A i \in worker[v].todo : worker[v].mode = "turn" =>
          \/ worker'[v].mode = "turn" /\ i \in worker'[v].todo
          \/ i \notin Pending' \/ ~Hopeless(i)
    BY <2>1, <2>2
  <2>4. \A v \in Workers : worker'[v].mode = "sweep" => \A i \in worker'[v].todo :
          ~Hopeless(i) \/ (worker[v].mode = "sweep" /\ i \in worker[v].todo)
    BY <2>1
  <2> QED BY <1>0, <1>5, <2>2, <2>3, <2>4
<1>6. ASSUME NEW w \in Workers, DiscardMalformed(w) \/ Release(w) PROVE FirstAttempts'
  <2>1. /\ XACK(Current(w)) /\ delivered' = delivered /\ trimmed' = trimmed /\ faults = 0
        /\ worker[w].pc \in {"sweep", "release"}
    BY <1>6 DEF DiscardMalformed, Release
  <2>2. Current(w) \in Ids
    BY <2>1, HeldEntry
  <2>3. SameClaims /\ stream'[Current(w)].acked = TRUE
        /\ \A i \in Ids : i # Current(w) => stream'[i].acked = stream[i].acked
    BY <1>t, <2>1, <2>2, XACKMarks
  <2> QED BY <1>5, <1>6, <2>1, <2>3, Kinds
<1>7. ASSUME NEW w \in Workers,
             \/ GiveUp(w) \/ RateLimited(w) \/ NotConfigured(w) \/ Commit(w) \/ Bury(w)
             \/ SkipSweep(w) \/ Restart(w) \/ SendReply(w)
      PROVE  FirstAttempts'
  <2>1. stream' = stream /\ delivered' = delivered /\ trimmed' = trimmed
    BY <1>7 DEF GiveUp, RateLimited, NotConfigured, Commit, Bury, SkipSweep, Restart, SendReply
  <2>2. faults = 0
    BY <1>t, <1>7 DEF GiveUp, RateLimited, NotConfigured, Commit, Bury, SkipSweep, Restart,
                      SendReply, Post
  <2>3. \A v \in Workers : /\ worker'[v].mode = worker[v].mode \/ worker'[v].todo = {}
                           /\ worker'[v].todo = worker[v].todo
    <3>1. CASE GoesOn(w)
      BY <3>1 DEF GoesOn, Others
    <3>2. CASE LetsGo(w) /\ worker[w].pc \in OutOfLoop
      BY <1>t, <3>2 DEF LetsGo, Others, Placed
    <3>3. SkipSweep(w) \/ Restart(w) => LetsGo(w) /\ worker[w].pc \in OutOfLoop
      BY <1>t, Kinds DEF SkipSweep, Restart, OutOfLoop
    <3> QED BY <1>7, <3>1, <3>2, <3>3, Kinds, SendGoesOn
  <2> QED BY <1>a, <2>1, <2>2, <2>3, StreamUnchanged
<1>8. ASSUME NEW w \in Workers, FailTurn(w) PROVE FirstAttempts'
  <2>1. /\ stream' = stream /\ delivered' = delivered /\ trimmed' = trimmed
        /\ AfterFailure(w) /\ InTurn(w) /\ ~Hopeless(Current(w))
    BY <1>8 DEF FailTurn, InTurn, Hopeless, CurrentEntry
  <2>2. faults = 0
    BY <1>t, <1>8 DEF FailTurn, Post
  <2>3. SameEntries /\ SameClaims
    BY <2>1, StreamUnchanged DEF SameEntries
  <2>4. CASE GoesOn(w)
    <3>1. \A v \in Workers : /\ worker'[v].mode = worker[v].mode \/ worker'[v].todo = {}
                             /\ worker'[v].todo = worker[v].todo
      BY <2>4 DEF GoesOn, Others
    <3> QED BY <1>a, <2>1, <2>2, <2>3, <3>1
  <2>5. CASE MovesOn(w)
    BY <1>5, <2>1, <2>2, <2>3, <2>5
  <2> QED BY <2>1, <2>4, <2>5, FailureMoves
<1>9. ASSUME NEW w \in Workers, Fault(w) PROVE FALSE
  BY <1>t, <1>9 DEF Fault, TurnBreaks, PassFailed, Crash
<1>10. ASSUME Tick PROVE FirstAttempts'
  <2>1. SameEntries /\ delivered' = delivered /\ trimmed' = trimmed /\ faults = 0
    BY <1>t, <1>10, TickKeepsEntries DEF Tick
  <2>2. \A v \in Workers : /\ worker'[v].mode = worker[v].mode \/ worker'[v].todo = {}
                           /\ worker'[v].todo = worker[v].todo
    BY <1>t, <1>10 DEF Tick, TypeOK, Worker
  <2> QED BY <1>a, <2>1, <2>2
<1>11. CASE UNCHANGED vars
  BY <1>11 DEF vars, FirstAttempts, InHand, Hopeless, Pending, Ids
<1> QED BY <1>1, <1>2, <1>3, <1>4, <1>6, <1>7, <1>8, <1>9, <1>10, <1>11 DEF Next, WorkerStep

(* Without a fault no message whose turn ends NOT_CONFIGURED is ever       *)
(* queued a second time, for any numbers of messages and workers and       *)
(* whichever of them lack an access token (turn.py: a NOT_CONFIGURED turn  *)
(* is terminal; a turn without a token is FAILED, and not meant here).     *)
THEOREM TerminalOnce == ASSUME ReclaimOutlastsBatch PROVE Spec => []TerminalNotRetried
<1>1. FirstAttempts => TerminalNotRetried
  BY DEF FirstAttempts, TerminalNotRetried
<1>2. IInv /\ Held /\ Fresh /\ FirstAttempts /\ [Next]_vars
        => (IInv /\ Held /\ Fresh /\ FirstAttempts)'
  BY NextIInv, NextHeld, NextFirst
<1>3. Init => IInv /\ Held /\ Fresh /\ FirstAttempts
  BY InitIInv, InitHeld, InitFirst
<1> QED BY <1>1, <1>2, <1>3, PTL DEF Spec
=============================================================================
