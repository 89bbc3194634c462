-------------------------- MODULE SubmissionProofs ---------------------------
(***************************************************************************)
(* What the relayer's submission path promises: its nonce authority, for   *)
(* any number of callers, and its HTTP side, for any requests, keys and    *)
(* payloads, under any combination of faults.                              *)
(***************************************************************************)
EXTENDS NonceCoordinator, RelaySubmission, FiniteSetTheorems, SequenceTheorems, TLAPS

(***************************************************************************)
(* NonceCoordinator                                                        *)
(***************************************************************************)
\* While nothing is evicted, what a caller sends, or has sent, follows on.
NoGap ==
    "drop" \notin faults =>
        /\ nonces # Absent => Covered(nonces)
        /\ \A c \in Callers :
              /\ pc[c] = "sending" => Covered(held[c])
              /\ pc[c] = "accepted" => Covered(held[c] + 1)

\* The nonces a caller, or the cache between two callers, may use next.
Unseen(n) == n >= mined /\ n \notin pool

\* While every reply arrives as well, the node's view and the coordinator's agree.
Agreed ==
    faults \subseteq {"stuck"} =>
        /\ late = {}
        /\ \A k \in pool : k >= mined /\ Covered(k)
        /\ \A c \in Callers :
              /\ pc[c] = "sending" => Unseen(held[c])
              /\ pc[c] = "accepted" => Unseen(held[c] + 1)
        /\ (\A c \in Callers : pc[c] # "accepted") /\ nonces # Absent => Unseen(nonces)

\* What is kept by every step of the coordinator.
IInv == TypeOK /\ Serialised /\ NoGap /\ Agreed

\* A caller that was given the critical section.
Inside(c) == pc[c] \notin {"idle", "queued"}

-----------------------------------------------------------------------------
(* The promise chain of withNonce.                                          *)

\* Only one caller is inside the critical section.
LEMMA OneInside ==
    ASSUME Serialised, NEW c \in Callers, NEW d \in Callers, Inside(c), Inside(d)
    PROVE  c = d
BY DEF Serialised, Inside

\* Whoever is inside, or may enter, is the first of the chain.
LEMMA HeadIsFirst ==
    ASSUME TypeOK, Serialised, NEW c \in Callers, pc[c] # "idle", Inside(c) \/ Head(tail) = c
    PROVE  /\ tail # << >> /\ tail[1] = c /\ Head(tail) = c
           /\ Len(tail) \in Nat \ {0}
           /\ Tail(tail) \in Seq(Callers)
           /\ Len(Tail(tail)) = Len(tail) - 1
           /\ \A i \in 1..(Len(tail) - 1) : Tail(tail)[i] = tail[i + 1]
<1>1. tail \in Seq(Callers)
  BY DEF TypeOK
<1>2. tail # << >>
  BY <1>1, EmptySeq DEF Serialised
<1>3. Head(tail) = c
  BY DEF Serialised, Inside
<1>. QED  BY <1>1, <1>2, <1>3, HeadTailProperties

\* When the head leaves, the chain holds everybody else who waited, once.
LEMMA Leaving ==
    ASSUME TypeOK, Serialised, NEW c \in Callers, Inside(c), Leave(c)
    PROVE  /\ tail' \in Seq(Callers)
           /\ pc' \in [Callers -> States]
           /\ held' \in [Callers -> Nat]
           /\ Serialised'
<1>1. /\ tail # << >> /\ tail[1] = c
      /\ Len(tail) \in Nat \ {0}
      /\ tail' \in Seq(Callers)
      /\ Len(tail') = Len(tail) - 1
      /\ \A i \in 1..(Len(tail) - 1) : tail'[i] = tail[i + 1]
  BY HeadIsFirst DEF Leave, Inside
<1>2. pc' \in [Callers -> States] /\ held' \in [Callers -> Nat]
  BY DEF TypeOK, Leave, States
<1>3. DOMAIN tail = 1..Len(tail) /\ DOMAIN tail' = 1..(Len(tail) - 1)
  BY <1>1, LenProperties DEF TypeOK
<1>4. ASSUME NEW i \in DOMAIN tail', NEW j \in DOMAIN tail', tail'[i] = tail'[j]
      PROVE  i = j
  <2>1. i + 1 \in DOMAIN tail /\ j + 1 \in DOMAIN tail
    BY <1>1, <1>3
  <2>2. tail[i + 1] = tail[j + 1]
    BY <1>1, <1>3, <1>4
  <2>. QED  BY <2>1, <2>2, <1>1, <1>3 DEF Serialised
<1>5. \A i \in DOMAIN tail' : tail'[i] # c
  <2>1. ASSUME NEW i \in DOMAIN tail', tail'[i] = c
        PROVE  FALSE
    <3>1. i + 1 \in DOMAIN tail /\ 1 \in DOMAIN tail /\ tail[i + 1] = tail[1] /\ i + 1 # 1
      BY <1>1, <1>3, <2>1
    <3>. QED  BY <3>1 DEF Serialised
  <2>. QED  BY <2>1
<1>6. ASSUME NEW d \in Callers
      PROVE  /\ pc'[d] = "idle" <=> \A i \in DOMAIN tail' : tail'[i] # d
             /\ pc'[d] \notin {"idle", "queued"} => Head(tail') = d
  <2>1. CASE d = c
    BY <2>1, <1>5 DEF Leave, TypeOK
  <2>2. CASE d # c
    <3>1. pc'[d] = pc[d] /\ ~Inside(d)
      BY <2>2, OneInside DEF Leave, TypeOK
    <3>2. (\A i \in DOMAIN tail : tail[i] # d) <=> (\A i \in DOMAIN tail' : tail'[i] # d)
      <4>1. ASSUME NEW i \in DOMAIN tail, tail[i] = d
            PROVE  i - 1 \in DOMAIN tail' /\ tail'[i - 1] = d
        BY <1>1, <1>3, <2>2, <4>1
      <4>2. ASSUME NEW i \in DOMAIN tail', tail'[i] = d
            PROVE  i + 1 \in DOMAIN tail /\ tail[i + 1] = d
        BY <1>1, <1>3, <4>2
      <4>. QED  BY <4>1, <4>2
    <3>. QED  BY <3>1, <3>2 DEF Serialised, Inside
  <2>. QED  BY <2>1, <2>2
<1>. QED  BY <1>1, <1>2, <1>4, <1>6 DEF Serialised

\* A call joins at the end.
LEMMA Joining ==
    ASSUME TypeOK, Serialised, NEW c \in Callers, Call(c), UNCHANGED faults
    PROVE  TypeOK' /\ Serialised'
<1>1. /\ tail' \in Seq(Callers) /\ Len(tail') = Len(tail) + 1 /\ Len(tail) \in Nat
      /\ tail'[Len(tail) + 1] = c
      /\ \A i \in 1..Len(tail) : tail'[i] = tail[i]
  BY AppendProperties, LenProperties DEF TypeOK, Call
<1>2. DOMAIN tail = 1..Len(tail) /\ DOMAIN tail' = 1..(Len(tail) + 1)
  BY <1>1, LenProperties DEF TypeOK
<1>3. \A i \in DOMAIN tail : tail[i] # c
  BY DEF Serialised, Call
<1>4. ASSUME NEW i \in DOMAIN tail', NEW j \in DOMAIN tail', tail'[i] = tail'[j]
      PROVE  i = j
  <2>1. \A k \in DOMAIN tail' : k \in DOMAIN tail \/ k = Len(tail) + 1
    BY <1>1, <1>2
  <2>. QED  BY <2>1, <1>1, <1>2, <1>3, <1>4 DEF Serialised
<1>5. ASSUME NEW d \in Callers
      PROVE  /\ pc'[d] = "idle" <=> \A i \in DOMAIN tail' : tail'[i] # d
             /\ pc'[d] \notin {"idle", "queued"} => Head(tail') = d
  <2>1. CASE d = c
    BY <2>1, <1>1, <1>2 DEF Call, TypeOK
  <2>2. CASE d # c
    <3>1. pc'[d] = pc[d]
      BY <2>2 DEF Call, TypeOK
    <3>2. (\A i \in DOMAIN tail : tail[i] # d) <=> (\A i \in DOMAIN tail' : tail'[i] # d)
      BY <2>2, <1>1, <1>2
    <3>3. Inside(d) => Head(tail') = d
      <4>1. Inside(d) => tail[1] = d /\ Len(tail) >= 1
        BY HeadIsFirst DEF Inside
      <4>. QED  BY <4>1, <1>1 DEF Inside
    <3>. QED  BY <3>1, <3>2, <3>3 DEF Serialised, Inside
  <2>. QED  BY <2>1, <2>2
<1>6. TypeOK'
  BY <1>1 DEF TypeOK, Call, States, node
<1>. QED  BY <1>4, <1>5, <1>6 DEF Serialised

\* Steps of one caller that stays where it is in the chain, or does not move at all.
LEMMA Staying ==
    ASSUME TypeOK, Serialised, tail' = tail, DOMAIN pc' = Callers,
           \A c \in Callers : \/ pc'[c] = pc[c]
                              \/ pc[c] # "idle" /\ Head(tail) = c /\ pc'[c] # "idle"
    PROVE  Serialised'
BY DEF Serialised, TypeOK

\* Every step keeps the types and the chain.
LEMMA Chain ==
    TypeOK /\ Serialised /\ [Next]_vars => TypeOK' /\ Serialised'
<1>. SUFFICES ASSUME TypeOK, Serialised, [Next]_vars
              PROVE  TypeOK' /\ Serialised'
  OBVIOUS
<1>1. ASSUME NEW c \in Callers, Call(c), UNCHANGED faults
      PROVE  TypeOK' /\ Serialised'
  BY <1>1, Joining
<1>2. ASSUME NEW c \in Callers, Enter(c), UNCHANGED faults
      PROVE  TypeOK' /\ Serialised'
  <2>1. TypeOK'
    BY <1>2 DEF TypeOK, Enter, HandOut, States, node
  <2>. QED  BY <2>1, <1>2, Staying DEF TypeOK, Enter, HandOut
<1>3. ASSUME NEW c \in Callers, Seed(c), UNCHANGED faults
      PROVE  TypeOK' /\ Serialised'
  <2>1. TypeOK'
    BY <1>3, NonceAssumption DEF TypeOK, Seed, HandOut, IsPending, States, node
  <2>2. pc[c] = "seeding" /\ Head(tail) = c
    BY <1>3 DEF Seed, Serialised
  <2>. QED  BY <2>1, <2>2, <1>3, Staying DEF TypeOK, Seed, HandOut
<1>4. ASSUME NEW c \in Callers, Settle(c), UNCHANGED faults
      PROVE  TypeOK' /\ Serialised'
  <2>1. Inside(c) /\ Leave(c)
    BY <1>4 DEF Settle, Resolve, Throw, NonceError, Inside
  <2>2. /\ nonces' \in Nat \cup {Absent}
        /\ mined' \in Nat /\ pool' \subseteq Nat /\ late' \subseteq Nat
    <3>1. held[c] \in Nat
      BY DEF TypeOK
    <3>2. CASE Resolve(c)
      BY <3>1, <3>2 DEF Resolve, TypeOK, node
    <3>3. CASE Throw(c)
      BY <3>1, <3>3 DEF Throw, TypeOK
    <3>4. CASE NonceError(c)
      BY <3>4 DEF NonceError, TypeOK, node
    <3>. QED  BY <1>4, <3>2, <3>3, <3>4 DEF Settle
  <2>. QED  BY <2>1, <2>2, <1>4, Leaving DEF TypeOK
<1>5. ASSUME NEW c \in Callers, Answer(c), UNCHANGED faults
      PROVE  TypeOK' /\ Serialised'
  <2>1. TypeOK'
    BY <1>5 DEF TypeOK, Answer, Accept, Replace, Refuse, States, node
  <2>2. pc[c] = "sending" /\ Head(tail) = c
    BY <1>5 DEF Answer, Accept, Replace, Refuse, Serialised
  <2>3. tail' = tail /\ (pc' = [pc EXCEPT ![c] = "accepted"] \/ pc' = [pc EXCEPT ![c] = "refused"])
    BY <1>5 DEF Answer, Accept, Replace, Refuse
  <2>. QED  BY <2>1, <2>2, <2>3, Staying DEF TypeOK
<1>6. CASE UNCHANGED faults /\ (StuckReset \/ LateArrival \/ Mine \/ Drop)
  <2>1. TypeOK'
    <3>1. CASE StuckReset
      BY <1>6, <3>1 DEF TypeOK, StuckReset, node
    <3>2. CASE LateArrival
      BY <1>6, <3>2 DEF TypeOK, LateArrival, coordinator
    <3>3. CASE Mine
      BY <1>6, <3>3 DEF TypeOK, Mine, coordinator
    <3>4. CASE Drop
      BY <1>6, <3>4 DEF TypeOK, Drop, coordinator
    <3>. QED  BY <1>6, <3>1, <3>2, <3>3, <3>4
  <2>. QED  BY <2>1, <1>6, Staying DEF TypeOK, StuckReset, LateArrival, Mine, Drop, coordinator
<1>7. CASE UNCHANGED vars
  BY <1>7 DEF TypeOK, Serialised, vars, coordinator, node
<1>. QED  BY <1>1, <1>2, <1>3, <1>4, <1>5, <1>6, <1>7 DEF Next

-----------------------------------------------------------------------------
\* Only the caller inside has a nonce.
LEMMA OnlyOneHolds ==
    ASSUME Serialised, NEW c \in Callers, NEW d \in Callers,
           pc[d] \in {"sending", "accepted"},
           Inside(c) \/ (pc[c] = "queued" /\ Head(tail) = c)
    PROVE  d = c
BY DEF Serialised, Inside

\* Without evictions, no step leaves a gap below a nonce in use.
LEMMA NoGapStep ==
    TypeOK /\ Serialised /\ NoGap /\ [Next]_vars => NoGap'
<1>. SUFFICES ASSUME TypeOK, Serialised, NoGap, [Next]_vars, "drop" \notin faults'
              PROVE  /\ nonces' # Absent => Covered(nonces)'
                     /\ \A d \in Callers :
                           /\ pc'[d] = "sending" => Covered(held[d])'
                           /\ pc'[d] = "accepted" => Covered(held[d] + 1)'
  BY DEF NoGap
<1>0. "drop" \notin faults
  BY DEF Next, vars
<1>1. ASSUME NEW c \in Callers, Call(c)
      PROVE  NoGap'
  BY <1>1, <1>0 DEF NoGap, Covered, Call, node, TypeOK
<1>2. ASSUME NEW c \in Callers, Enter(c)
      PROVE  NoGap'
  BY <1>2, <1>0 DEF NoGap, Covered, Enter, HandOut, node, TypeOK
<1>3. ASSUME NEW c \in Callers, Seed(c)
      PROVE  NoGap'
  BY <1>3, <1>0 DEF NoGap, Covered, Seed, HandOut, IsPending, node, TypeOK
<1>4. ASSUME NEW c \in Callers, Settle(c)
      PROVE  NoGap'
  BY <1>4, <1>0 DEF NoGap, Covered, Settle, Resolve, Throw, NonceError, Leave, node, TypeOK
<1>5. ASSUME NEW c \in Callers, Answer(c)
      PROVE  NoGap'
  BY <1>5, <1>0 DEF NoGap, Covered, Answer, Accept, Replace, Refuse, node, TypeOK
<1>6. CASE StuckReset \/ LateArrival \/ Mine
  BY <1>6, <1>0 DEF NoGap, Covered, StuckReset, LateArrival, Mine, coordinator, node, TypeOK
<1>7. CASE UNCHANGED vars
  BY <1>7, <1>0 DEF NoGap, Covered, vars, coordinator, node
<1>8. ~Drop
  BY <1>0 DEF Drop
<1>. QED  BY <1>1, <1>2, <1>3, <1>4, <1>5, <1>6, <1>7, <1>8 DEF Next, NoGap

\* While replies arrive as well, no step lets two use one nonce.
LEMMA AgreedStep ==
    TypeOK /\ Serialised /\ NoGap /\ Agreed /\ [Next]_vars => Agreed'
<1>. SUFFICES ASSUME TypeOK, Serialised, NoGap, Agreed, [Next]_vars, faults' \subseteq {"stuck"}
              PROVE  Agreed'
  BY DEF Agreed
<1>0. /\ faults \subseteq {"stuck"}
      /\ "drop" \notin faults /\ "lost reply" \notin faults
  BY DEF Next, vars
<1>1. ASSUME NEW c \in Callers, Call(c)
      PROVE  Agreed'
  BY <1>1, <1>0 DEF Agreed, Unseen, Covered, Call, node, TypeOK
<1>2. ASSUME NEW c \in Callers, Enter(c)
      PROVE  Agreed'
  <2>1. pc[c] = "queued" /\ Head(tail) = c
    BY <1>2 DEF Enter
  <2>2. \A d \in Callers : pc[d] \notin {"sending", "accepted"}
    BY <2>1, OnlyOneHolds
  <2>. QED  BY <1>2, <1>0, <2>2 DEF Agreed, Unseen, Covered, Enter, HandOut, node, TypeOK
<1>3. ASSUME NEW c \in Callers, Seed(c)
      PROVE  Agreed'
  BY <1>3, <1>0 DEF Agreed, Unseen, Covered, Seed, HandOut, IsPending, node, TypeOK
<1>4. ASSUME NEW c \in Callers, Settle(c)
      PROVE  Agreed'
  <2>1. Inside(c)
    BY <1>4 DEF Settle, Resolve, Throw, NonceError, Inside
  <2>2. \A d \in Callers \ {c} : pc[d] \notin {"sending", "accepted"}
    BY <2>1, OnlyOneHolds
  <2>3. CASE Resolve(c)
    BY <2>3, <2>2, <1>0 DEF Agreed, Unseen, Covered, Resolve, Leave, node, TypeOK
  <2>4. CASE Throw(c)
    BY <2>4, <2>2, <1>0 DEF Agreed, Unseen, Covered, Throw, Leave, node, TypeOK
  <2>5. CASE NonceError(c)
    BY <2>5, <2>2, <1>0 DEF Agreed, Unseen, Covered, NonceError, Leave, node, TypeOK
  <2>. QED  BY <1>4, <2>3, <2>4, <2>5 DEF Settle
<1>5. ASSUME NEW c \in Callers, Answer(c)
      PROVE  Agreed'
  <2>1. pc[c] = "sending" /\ Unseen(held[c]) /\ Covered(held[c]) /\ held[c] \in Nat
    BY <1>5, <1>0 DEF Answer, Accept, Replace, Refuse, Agreed, NoGap, TypeOK
  <2>2. \A d \in Callers \ {c} : pc[d] \notin {"sending", "accepted"}
    BY <2>1, OnlyOneHolds DEF Inside
  <2>3. CASE Accept(c)
    <3>1. Unseen(held[c] + 1)'
      <4>1. held[c] + 1 \notin pool
        <5>1. ASSUME held[c] + 1 \in pool
              PROVE  held[c] \in pool
          <6>1. Covered(held[c] + 1)
            BY <5>1, <1>0 DEF Agreed
          <6>2. held[c] \in mined..(held[c] + 1 - 1)
            BY <2>1 DEF Unseen, TypeOK
          <6>. QED  BY <6>1, <6>2 DEF Covered
        <5>. QED  BY <5>1, <2>1 DEF Unseen
      <4>2. mined' = mined /\ pool' = pool \cup {held[c]} /\ held' = held
        BY <2>3 DEF Accept
      <4>. QED  BY <2>1, <4>1, <4>2 DEF Unseen, TypeOK
    <3>2. \A k \in pool' : k >= mined' /\ Covered(k)'
      BY <2>1, <2>3, <1>0 DEF Agreed, Unseen, Covered, Accept, TypeOK
    <3>. QED  BY <2>2, <2>3, <1>0, <3>1, <3>2 DEF Agreed, Accept, TypeOK
  <2>4. ~Replace(c)
    BY <2>1 DEF Replace, Unseen
  <2>5. CASE Refuse(c)
    BY <2>1, <2>5 DEF Refuse, Unseen, TypeOK
  <2>. QED  BY <1>5, <2>3, <2>4, <2>5 DEF Answer
<1>6. CASE StuckReset
  BY <1>6, <1>0 DEF Agreed, Unseen, Covered, StuckReset, node, TypeOK
<1>7. CASE LateArrival \/ Drop
  BY <1>7, <1>0 DEF Agreed, LateArrival, Drop
<1>8. CASE Mine
  <2>1. /\ mined' = mined + 1 /\ mined \in pool /\ mined \in Nat
        /\ pool' = pool \ {mined} /\ late' = late
        /\ pc' = pc /\ held' = held /\ nonces' = nonces
    BY <1>8 DEF Mine, coordinator, TypeOK
  <2>2. ASSUME NEW n \in Nat, Unseen(n)
        PROVE  Unseen(n)'
    BY <2>1, <2>2 DEF Unseen
  <2>3. ASSUME NEW k \in pool'
        PROVE  k >= mined' /\ Covered(k)'
    <3>1. k \in pool /\ k # mined /\ k \in Nat
      BY <2>1 DEF TypeOK
    <3>2. k >= mined /\ Covered(k)
      BY <3>1, <1>0 DEF Agreed
    <3>3. k >= mined'
      BY <2>1, <3>1, <3>2
    <3>4. ASSUME NEW j \in mined'..(k - 1)
          PROVE  j \in pool'
      <4>1. j \in mined..(k - 1) /\ j # mined
        BY <2>1, <3>1, <3>4
      <4>. QED  BY <2>1, <3>2, <4>1 DEF Covered
    <3>. QED  BY <3>3, <3>4 DEF Covered
  <2>4. \A c \in Callers : held[c] \in Nat /\ held[c] + 1 \in Nat
    BY DEF TypeOK
  <2>5. \A c \in Callers :
           /\ pc[c] = "sending" => Unseen(held[c])'
           /\ pc[c] = "accepted" => Unseen(held[c] + 1)'
    BY <2>1, <2>2, <2>4, <1>0 DEF Agreed, Unseen
  <2>6. (\A c \in Callers : pc[c] # "accepted") /\ nonces # Absent => Unseen(nonces)'
    BY <2>1, <2>2, <1>0 DEF Agreed, Unseen, TypeOK
  <2>. QED  BY <2>1, <2>3, <2>5, <2>6, <1>0 DEF Agreed
<1>9. CASE UNCHANGED vars
  BY <1>9, <1>0 DEF Agreed, Unseen, Covered, vars, coordinator, node
<1>. QED  BY <1>1, <1>2, <1>3, <1>4, <1>5, <1>6, <1>7, <1>8, <1>9 DEF Next

-----------------------------------------------------------------------------
\* The invariant holds of a relayer that has just started.
LEMMA Initially == Init => IInv
<1>. SUFFICES ASSUME Init
              PROVE  IInv
  OBVIOUS
<1>1. TypeOK
  BY EmptySeq DEF Init, TypeOK, States
<1>2. Serialised
  BY DEF Init, Serialised
<1>. QED  BY <1>1, <1>2 DEF IInv, Init, NoGap, Agreed

\* Every step keeps the invariant.
LEMMA Inductive == IInv /\ [Next]_vars => IInv'
BY Chain, NoGapStep, AgreedStep DEF IInv

\* It implies what the coordinator promises.
LEMMA Disciplined == IInv => NonceDiscipline
BY DEF IInv, NonceDiscipline, NeverAhead, HandedOutIsFree, NoGap, Agreed, Unseen

(***************************************************************************)
(* One critical section at a time, a cached nonce that never runs ahead of *)
(* the account, and nonces that nobody else has used while every reply     *)
(* arrives: for any number of callers, with resets at any moment           *)
(* (nonce-coordinator.ts, withNonce and reset).                            *)
(***************************************************************************)
THEOREM OneNonceEach == Spec => []NonceDiscipline
<1>1. Spec => []IInv
  BY Initially, Inductive, PTL DEF Spec
<1>. QED  BY <1>1, Disciplined, PTL

(***************************************************************************)
(* RelaySubmission                                                         *)
(***************************************************************************)
\* An entry of the queue of writes.
Entry == [by : Requests \cup {None}, snap : RecordMap]

\* What is queued to be written, and every map of records there is.
Entries(ws) == {ws[i] : i \in 1..Len(ws)}
LastOf(ws) == ws[Len(ws)]
Copies == {records, disk} \cup {w.snap : w \in Entries(writes)}

\* The node took a transaction for r.
WasSent(r) == \E b \in sent : b.req = r

\* The stages before a broadcast, after one, and those that use the wallet.
Unsent == {"new", "waiting", "verifying", "estimating", "sending"}
Wallet == {"sending", "accepted"}
Submitting == {"verifying", "estimating", "sending", "accepted"}

\* A request is broadcast once, under a hash of its own.
Broadcasts ==
    /\ \A b, c \in sent : b.req = c.req \/ b.hash = c.hash => b = c
    /\ \A b \in sent : b.hash <= Cardinality(sent)
    /\ \A r \in Requests :
          /\ stage[r] \in Unsent => ~WasSent(r)
          /\ stage[r] \in {"accepted", "persisting"} => WasSent(r)

\* One request holds the wallet's lock.
LockHeld ==
    /\ \A r, s \in Requests : stage[r] \in Wallet /\ stage[s] \in Wallet => r = s
    /\ locked <=> \E r \in Requests : stage[r] \in Wallet

\* What a map of records says of its transactions.
TrueOf(m) ==
    \A k \in Keys : m[k] # None =>
        /\ \E b \in sent : b.hash = m[k].hash /\ KeyOf[b.req] = k
        /\ m[k].status \in Terminal => receipts[m[k].hash] = m[k].status
CopiesTrue == \A m \in Copies : TrueOf(m)

\* Who awaits a write has been sent and waits for nothing else.
Writers ==
    \A w \in Entries(writes) :
        w.by # None => WasSent(w.by) /\ stage[w.by] \in {"persisting", "done"}

\* The last write that is queued, or else the file, is what memory holds.
LastWrite ==
    "disk" \notin postFaults =>
        IF writes = << >> THEN disk = records ELSE LastOf(writes).snap = records

\* Dedup entries cover everything sent, and nothing about to be sent.
Deduped ==
    postFaults \subseteq {"disk"} =>
        /\ \A b \in sent : txCache[DataOf[b.req]] # None \/ stage[b.req] = "accepted"
        /\ \A r \in Requests : stage[r] \in Wallet => txCache[DataOf[r]] = None
        /\ \A b, c \in sent : DataOf[b.req] = DataOf[c.req] => b = c

\* A key has one submission at a time, and none once it has a record.
Owners ==
    \A r \in Requests : KeyOf[r] # None /\ stage[r] \in Submitting =>
        inflight[KeyOf[r]] = r /\ records[KeyOf[r]] = None

\* A key with a record anywhere has one in memory, until records expire.
Remembered ==
    "expiry" \notin postFaults => \A m \in Copies : \A k \in Keys : m[k] # None => records[k] # None

\* What is kept by every step of the HTTP side.
PostInv ==
    /\ PostTypeOK /\ Broadcasts /\ LockHeld /\ CopiesTrue /\ Writers /\ LastWrite
    /\ Deduped /\ Owners /\ Remembered
    /\ AnswersAreTruthful /\ RejectedWasNotSent

-----------------------------------------------------------------------------
(* Queues of writes, for any entries.                                       *)

\* Appending adds one entry, at the end.
LEMMA Queueing ==
    ASSUME NEW W, NEW ws \in Seq(W), NEW w
    PROVE  /\ w \in W => Append(ws, w) \in Seq(W)
           /\ Append(ws, w) # << >>
           /\ Entries(Append(ws, w)) = Entries(ws) \cup {w}
           /\ LastOf(Append(ws, w)) = w
<1>1. Len(ws) \in Nat /\ ws \in [1..Len(ws) -> W]
  BY LenProperties
<1>2. ws \in Seq(W \cup {w})
  <2>1. ws \in [1..Len(ws) -> W \cup {w}]
    BY <1>1
  <2>. QED  BY <1>1, <2>1, SeqDef
<1>3. /\ Append(ws, w) # << >>
      /\ Len(Append(ws, w)) = Len(ws) + 1
      /\ \A i \in 1..Len(ws) : Append(ws, w)[i] = ws[i]
      /\ Append(ws, w)[Len(ws) + 1] = w
  BY <1>2, AppendProperties
<1>4. w \in W => Append(ws, w) \in Seq(W)
  BY AppendProperties
<1>5. 1..(Len(ws) + 1) = (1..Len(ws)) \cup {Len(ws) + 1}
  BY <1>1
<1>. QED  BY <1>1, <1>3, <1>4, <1>5 DEF Entries, LastOf

\* The entries of a queue are entries.
LEMMA Entered ==
    ASSUME NEW W, NEW ws \in Seq(W)
    PROVE  Entries(ws) \subseteq W
BY LenProperties DEF Entries

\* Taking the head keeps the other entries, and the last one where it was.
LEMMA Dequeueing ==
    ASSUME NEW W, NEW ws \in Seq(W), ws # << >>
    PROVE  /\ Tail(ws) \in Seq(W) /\ Head(ws) \in W /\ Head(ws) \in Entries(ws)
           /\ Entries(Tail(ws)) \subseteq Entries(ws)
           /\ LastOf(ws) = IF Tail(ws) = << >> THEN Head(ws) ELSE LastOf(Tail(ws))
<1>1. Len(ws) \in Nat \ {0} /\ Head(ws) = ws[1] /\ Head(ws) \in W
  BY HeadTailProperties, EmptySeq, LenProperties
<1>2. /\ Tail(ws) \in Seq(W) /\ Len(Tail(ws)) = Len(ws) - 1
      /\ \A i \in 1..Len(Tail(ws)) : Tail(ws)[i] = ws[i + 1]
  BY HeadTailProperties
<1>3. \A i \in 1..Len(Tail(ws)) : i + 1 \in 1..Len(ws)
  BY <1>1, <1>2
<1>4. Tail(ws) = << >> <=> Len(ws) = 1
  <2>1. Tail(ws) = << >> <=> Len(Tail(ws)) = 0
    BY <1>2, EmptySeq
  <2>. QED  BY <1>1, <1>2, <2>1
<1>5. Head(ws) \in Entries(ws)
  BY <1>1 DEF Entries
<1>6. Entries(Tail(ws)) \subseteq Entries(ws)
  BY <1>2, <1>3 DEF Entries
<1>7. CASE Tail(ws) = << >>
  <2>1. LastOf(ws) = Head(ws)
    BY <1>1, <1>4, <1>7 DEF LastOf
  <2>. QED  BY <1>1, <1>2, <1>5, <1>6, <1>7, <2>1
<1>8. CASE Tail(ws) # << >>
  <2>1. Len(ws) - 1 \in 1..Len(Tail(ws)) /\ (Len(ws) - 1) + 1 = Len(ws)
    BY <1>1, <1>2, <1>4, <1>8
  <2>2. LastOf(ws) = LastOf(Tail(ws))
    BY <1>2, <2>1 DEF LastOf
  <2>. QED  BY <1>1, <1>2, <1>5, <1>6, <1>8, <2>2
<1>. QED  BY <1>7, <1>8

\* The hash of the next broadcast is one of those there are.
LEMMA NextHash ==
    ASSUME NEW R, IsFiniteSet(R), NEW H, NEW S \in SUBSET [hash : H, req : R], NEW r \in R,
           \A b, c \in S : b.req = c.req => b = c, \A b \in S : b.req # r
    PROVE  IsFiniteSet(S) /\ Cardinality(S) \in Nat /\ Cardinality(S) + 1 \in 1..Cardinality(R)
<1>. DEFINE f == [b \in S |-> b.req]
<1>1. f \in Injection(S, R \ {r})
  BY DEF Injection, IsInjective
<1>2. IsFiniteSet(R \ {r}) /\ Cardinality(R \ {r}) = Cardinality(R) - 1
  BY FS_RemoveElement
<1>3. Cardinality(R) \in Nat /\ Cardinality(R \ {r}) \in Nat
  BY <1>2, FS_CardinalityType
<1>4. IsFiniteSet(S) /\ Cardinality(S) <= Cardinality(R \ {r})
  BY <1>1, <1>2, FS_Injection
<1>. QED  BY <1>2, <1>3, <1>4, FS_CardinalityType

-----------------------------------------------------------------------------
(* What a step does to one request, to the queue and to the chain.          *)

\* How a request's handler may move on.
Moves(from, to) ==
    \/ from = to
    \/ from = "new" /\ to \in {"waiting", "verifying", "done"}
    \/ from = "waiting" /\ to \in {"rejected", "done", "cut"}
    \/ from = "verifying" /\ to \in {"rejected", "estimating", "cut"}
    \/ from = "estimating" /\ to \in {"rejected", "sending", "cut"}
    \/ from = "sending" /\ to \in {"rejected", "accepted", "cut"}
    \/ from = "accepted" /\ to \in {"rejected", "persisting", "done", "cut"}
    \/ from = "persisting" /\ to \in {"done", "cut"}

\* An error response moves its request and those that wait for it.
LEMMA RejectMoves ==
    ASSUME PostTypeOK, NEW r \in Requests, Reject(r), stage[r] \in Submitting
    PROVE  \A q \in Requests :
              /\ Moves(stage[q], stage'[q])
              /\ stage'[q] = IF q = r \/ (KeyOf[r] # None /\ q \in Waiters(r))
                             THEN "rejected" ELSE stage[q]
<1>1. \A q \in Requests :
         stage'[q] = IF q = r \/ (KeyOf[r] # None /\ q \in Waiters(r)) THEN "rejected" ELSE stage[q]
  BY DEF Reject
<1>2. \A q \in Waiters(r) : stage[q] = "waiting"
  BY DEF Waiters
<1>. QED  BY <1>1, <1>2 DEF Moves, Submitting

\* Every step moves every request along.
LEMMA StageMoves ==
    ASSUME PostTypeOK, Writers, PostNext, NEW q \in Requests
    PROVE  Moves(stage[q], stage'[q])
<1>. USE DEF PostTypeOK
<1>1. ASSUME NEW r \in Requests, Replay(r) \/ Join(r) \/ Begin(r) \/ Broadcast(r)
      PROVE  Moves(stage[q], stage'[q])
  BY <1>1 DEF Replay, Join, Begin, Broadcast, Moves
<1>2. ASSUME NEW r \in Requests,
             Invalid(r) \/ FeeVerified(r) \/ GasEstimationFails(r) \/ TakeLock(r)
      PROVE  Moves(stage[q], stage'[q])
  <2>1. CASE Reject(r)
    <3>1. stage[r] \in Submitting
      BY <1>2 DEF Invalid, FeeVerified, GasEstimationFails, TakeLock, Submitting
    <3>. QED  BY <2>1, <3>1, RejectMoves
  <2>2. CASE ~Reject(r)
    BY <1>2, <2>2 DEF Invalid, FeeVerified, GasEstimationFails, TakeLock, Moves
  <2>. QED  BY <2>1, <2>2
<1>3. ASSUME NEW r \in Requests, SendFails(r)
      PROVE  Moves(stage[q], stage'[q])
  BY <1>3, RejectMoves DEF SendFails, Submitting
<1>4. ASSUME NEW r \in Requests, Broadcasted(r)
      PROVE  Moves(stage[q], stage'[q])
  <2>1. \A w \in Waiters(r) : stage[w] = "waiting"
    BY DEF Waiters
  <2>. QED  BY <1>4, <2>1 DEF Broadcasted, Moves
<1>5. CASE WriteSettles
  <2>1. /\ Head(writes) \in Entries(writes)
        /\ Head(writes) \in [by : Requests \cup {None}, snap : RecordMap]
    BY <1>5, Dequeueing DEF WriteSettles
  <2>2. Head(writes).by # None => stage[Head(writes).by] \in {"persisting", "done"}
    BY <2>1 DEF Writers
  <2>3. \/ UNCHANGED stage
        \/ Head(writes).by # None /\ stage' = [stage EXCEPT ![Head(writes).by] = "done"]
    BY <1>5 DEF WriteSettles, handlers
  <2>. QED  BY <2>2, <2>3 DEF Moves
<1>6. CASE Restart
  BY <1>6 DEF Restart, Moves, InProgress
<1>7. CASE \/ \E h \in Hashes : BackfillStatus(h)
           \/ \E k \in Keys : SweepRecord(k)
           \/ \E d \in Payloads : CleanDedup(d)
           \/ \E b \in sent : MineSent(b)
  BY <1>7 DEF BackfillStatus, SweepRecord, CleanDedup, MineSent, handlers, Moves
<1>. QED  BY <1>1, <1>2, <1>3, <1>4, <1>5, <1>6, <1>7 DEF PostNext, Handle

\* Only Broadcast() sends, and only for a request it accepts.
LEMMA Sending ==
    ASSUME PostTypeOK, Writers, PostNext, ~\E r \in Requests : Broadcast(r)
    PROVE  /\ sent' = sent
           /\ \A q \in Requests : stage'[q] = "accepted" => stage[q] = "accepted"
<1>. USE DEF PostTypeOK
<1>1. ASSUME NEW r \in Requests, Replay(r) \/ Join(r) \/ Begin(r)
      PROVE  /\ sent' = sent
             /\ \A q \in Requests : stage'[q] = "accepted" => stage[q] = "accepted"
  BY <1>1 DEF Replay, Join, Begin, chain
<1>2. ASSUME NEW r \in Requests,
             Invalid(r) \/ FeeVerified(r) \/ GasEstimationFails(r) \/ TakeLock(r) \/ SendFails(r)
      PROVE  /\ sent' = sent
             /\ \A q \in Requests : stage'[q] = "accepted" => stage[q] = "accepted"
  BY <1>2 DEF Invalid, FeeVerified, GasEstimationFails, TakeLock, SendFails, Reject, chain
<1>3. ASSUME NEW r \in Requests, Broadcasted(r)
      PROVE  /\ sent' = sent
             /\ \A q \in Requests : stage'[q] = "accepted" => stage[q] = "accepted"
  BY <1>3 DEF Broadcasted, chain
<1>4. CASE WriteSettles
  BY <1>4 DEF WriteSettles, handlers, chain
<1>5. CASE Restart
  BY <1>5 DEF Restart, chain
<1>6. CASE \/ \E h \in Hashes : BackfillStatus(h)
           \/ \E k \in Keys : SweepRecord(k)
           \/ \E d \in Payloads : CleanDedup(d)
           \/ \E b \in sent : MineSent(b)
  BY <1>6 DEF BackfillStatus, SweepRecord, CleanDedup, MineSent, handlers, chain
<1>. QED  BY <1>1, <1>2, <1>3, <1>4, <1>5, <1>6 DEF PostNext, Handle

\* Only a restart cuts a handler off.
LEMMA NothingCut ==
    ASSUME PostTypeOK, PostNext, ~Restart, NEW q \in Requests, stage[q] # "cut"
    PROVE  stage'[q] # "cut"
<1>. USE DEF PostTypeOK
<1>1. ASSUME NEW r \in Requests, Handle(r)
      PROVE  stage'[q] # "cut"
  BY <1>1 DEF Handle, Replay, Join, Begin, Invalid, FeeVerified, GasEstimationFails, TakeLock,
              Broadcast,
              SendFails, Broadcasted, Reject
<1>2. CASE \/ WriteSettles
           \/ \E h \in Hashes : BackfillStatus(h)
           \/ \E k \in Keys : SweepRecord(k)
           \/ \E d \in Payloads : CleanDedup(d)
           \/ \E b \in sent : MineSent(b)
  BY <1>2 DEF WriteSettles, BackfillStatus, SweepRecord, CleanDedup, MineSent, handlers
<1>. QED  BY <1>1, <1>2 DEF PostNext

\* The chain forgets nothing.
LEMMA ChainGrows ==
    ASSUME PostTypeOK, PostNext
    PROVE  /\ sent \subseteq sent'
           /\ \A h \in Hashes : receipts[h] \in Terminal => receipts'[h] = receipts[h]
<1>1. ASSUME NEW b \in sent, MineSent(b)
      PROVE  /\ sent \subseteq sent'
             /\ \A h \in Hashes : receipts[h] \in Terminal => receipts'[h] = receipts[h]
  BY <1>1 DEF MineSent, PostTypeOK, Terminal
<1>2. ASSUME NEW r \in Requests, Handle(r)
      PROVE  sent \subseteq sent' /\ receipts' = receipts
  BY <1>2 DEF Handle, Replay, Join, Begin, Invalid, FeeVerified, GasEstimationFails, TakeLock,
              Broadcast,
              SendFails, Broadcasted, chain
<1>3. CASE \/ WriteSettles \/ Restart
           \/ \E h \in Hashes : BackfillStatus(h)
           \/ \E k \in Keys : SweepRecord(k)
           \/ \E d \in Payloads : CleanDedup(d)
  BY <1>3 DEF WriteSettles, Restart, BackfillStatus, SweepRecord, CleanDedup, chain
<1>. QED  BY <1>1, <1>2, <1>3 DEF PostNext

\* What was sent has a hash and a request.
LEMMA SentHash ==
    ASSUME PostTypeOK, Broadcasts, NEW r \in Requests, WasSent(r)
    PROVE  HashOf(r) \in Hashes /\ \E b \in sent : b.req = r /\ b.hash = HashOf(r)
<1>1. \E b \in sent : b.req = r
  BY DEF WasSent
<1>2. (CHOOSE b \in sent : b.req = r) \in sent /\ (CHOOSE b \in sent : b.req = r).req = r
  BY <1>1
<1>. QED  BY <1>2 DEF HashOf, PostTypeOK

-----------------------------------------------------------------------------
(* Each part of the invariant is kept.                                      *)

\* A request that has been sent is past the stages before a broadcast.
LEMMA BroadcastsStep ==
    ASSUME PostTypeOK, Broadcasts, Writers, PostNext
    PROVE  Broadcasts'
<1>. \A q \in Requests : Moves(stage[q], stage'[q])
  BY StageMoves
<1>1. CASE ~\E r \in Requests : Broadcast(r)
  <2>1. sent' = sent /\ \A q \in Requests : stage'[q] = "accepted" => stage[q] = "accepted"
    BY <1>1, Sending
  <2>2. \A q \in Requests :
           /\ stage'[q] \in Unsent => stage[q] \in Unsent
           /\ stage'[q] \in {"accepted", "persisting"} => stage[q] \in {"accepted", "persisting"}
    BY <2>1 DEF Moves, Unsent
  <2>. QED  BY <2>1, <2>2 DEF Broadcasts, WasSent
<1>2. ASSUME NEW r \in Requests, Broadcast(r)
      PROVE  Broadcasts'
  <2>. DEFINE n == Cardinality(sent) + 1
  <2>1. stage[r] = "sending" /\ sent' = sent \cup {[hash |-> n, req |-> r]}
        /\ stage' = [stage EXCEPT ![r] = "accepted"]
    BY <1>2 DEF Broadcast
  <2>2. \A b \in sent : b.req # r
    BY <2>1 DEF Broadcasts, WasSent, Unsent
  <2>3. IsFiniteSet(sent) /\ Cardinality(sent) \in Nat /\ n \in Hashes
    BY <2>2, NextHash, PostAssumption DEF Broadcasts, PostTypeOK, Hashes
  <2>4. [hash |-> n, req |-> r] \notin sent
    BY <2>2
  <2>5. Cardinality(sent') = n
    BY <2>1, <2>3, <2>4, FS_AddElement
  <2>6. \A b \in sent : b.hash \in Nat /\ b.hash < n
    BY <2>3 DEF Broadcasts, PostTypeOK, Hashes
  <2>7. \A b, c \in sent' : b.req = c.req \/ b.hash = c.hash => b = c
    BY <2>1, <2>2, <2>3, <2>6 DEF Broadcasts
  <2>8. \A b \in sent' : b.hash <= Cardinality(sent')
    BY <2>1, <2>3, <2>5, <2>6
  <2>9. ASSUME NEW q \in Requests
        PROVE  /\ stage'[q] \in Unsent => ~WasSent(q)'
               /\ stage'[q] \in {"accepted", "persisting"} => WasSent(q)'
    <3>1. CASE q = r
      <4>1. [hash |-> n, req |-> r] \in sent' /\ stage'[q] = "accepted"
        BY <2>1, <3>1 DEF PostTypeOK
      <4>2. WasSent(q)'
        BY <4>1, <3>1 DEF WasSent
      <4>. QED  BY <4>1, <4>2 DEF Unsent
    <3>2. CASE q # r
      <4>1. stage'[q] = stage[q] /\ (WasSent(q)' <=> WasSent(q))
        BY <2>1, <3>2 DEF WasSent, PostTypeOK
      <4>. QED  BY <4>1 DEF Broadcasts
    <3>. QED  BY <3>1, <3>2
  <2>. QED  BY <2>7, <2>8, <2>9 DEF Broadcasts
<1>. QED  BY <1>1, <1>2

\* The lock is taken, and released, with the wallet.
LEMMA LockStep ==
    ASSUME PostTypeOK, LockHeld, Writers, PostNext
    PROVE  LockHeld'
<1>. USE DEF PostTypeOK
<1>1. ASSUME NEW r \in Requests, Replay(r) \/ Join(r) \/ Begin(r) \/ Broadcast(r)
      PROVE  LockHeld'
  <2>1. /\ locked' = locked
        /\ \A q \in Requests : stage'[q] \in Wallet <=> stage[q] \in Wallet
    BY <1>1 DEF Replay, Join, Begin, Broadcast, memory, Wallet
  <2>. QED  BY <2>1 DEF LockHeld
<1>2. ASSUME NEW r \in Requests,
             Invalid(r) \/ FeeVerified(r) \/ GasEstimationFails(r)
      PROVE  LockHeld'
  <2>1. locked' = locked /\ stage[r] \in {"verifying", "estimating"}
    BY <1>2 DEF Invalid, FeeVerified, GasEstimationFails
  <2>2. \A q \in Requests : stage'[q] \in Wallet <=> stage[q] \in Wallet
    <3>1. CASE Reject(r)
      BY <2>1, <3>1, RejectMoves DEF Wallet, Submitting, Waiters
    <3>2. CASE ~Reject(r)
      BY <1>2, <3>2 DEF Invalid, FeeVerified, GasEstimationFails, Wallet
    <3>. QED  BY <3>1, <3>2
  <2>. QED  BY <2>1, <2>2 DEF LockHeld
<1>3. ASSUME NEW r \in Requests, TakeLock(r)
      PROVE  LockHeld'
  <2>1. CASE Reject(r) /\ UNCHANGED locked
    <3>1. stage[r] = "estimating"
      BY <1>3 DEF TakeLock
    <3>2. \A q \in Requests : stage'[q] \in Wallet <=> stage[q] \in Wallet
      BY <2>1, <3>1, RejectMoves DEF Wallet, Submitting, Waiters
    <3>. QED  BY <2>1, <3>2 DEF LockHeld
  <2>2. CASE ~(Reject(r) /\ UNCHANGED locked)
    <3>1. ~locked /\ locked' = TRUE /\ stage' = [stage EXCEPT ![r] = "sending"]
      BY <1>3, <2>2 DEF TakeLock
    <3>. QED  BY <3>1 DEF LockHeld, Wallet
  <2>. QED  BY <2>1, <2>2
<1>4. ASSUME NEW r \in Requests, SendFails(r)
      PROVE  LockHeld'
  <2>1. stage[r] \in Wallet /\ locked' = FALSE /\ Reject(r)
    BY <1>4 DEF SendFails, Wallet
  <2>2. \A q \in Requests : stage'[q] \notin Wallet
    BY <2>1, RejectMoves DEF LockHeld, Wallet, Submitting
  <2>. QED  BY <2>1, <2>2 DEF LockHeld
<1>5. ASSUME NEW r \in Requests, Broadcasted(r)
      PROVE  LockHeld'
  <2>1. stage[r] = "accepted" /\ locked' = FALSE
    BY <1>5 DEF Broadcasted
  <2>2. \A q \in Requests :
           \/ stage'[q] \in {"persisting", "done"}
           \/ q # r /\ stage'[q] = stage[q]
    BY <1>5 DEF Broadcasted
  <2>3. \A q \in Requests : stage'[q] \notin Wallet
    BY <2>1, <2>2 DEF LockHeld, Wallet
  <2>. QED  BY <2>1, <2>3 DEF LockHeld
<1>6. CASE WriteSettles
  <2>1. \A q \in Requests : Moves(stage[q], stage'[q])
    BY StageMoves, <1>6 DEF PostNext
  <2>2. locked' = locked /\ \A q \in Requests : stage'[q] = stage[q] \/ stage'[q] = "done"
    BY <1>6 DEF WriteSettles, handlers, memory
  <2>3. \A q \in Requests : stage'[q] \in Wallet => stage[q] \in Wallet
    BY <2>2 DEF Wallet
  <2>4. \A q \in Requests : stage[q] \in Wallet => stage'[q] = stage[q]
    <3>1. /\ Head(writes) \in Entries(writes)
          /\ Head(writes) \in [by : Requests \cup {None}, snap : RecordMap]
      BY <1>6, Dequeueing DEF WriteSettles
    <3>2. Head(writes).by # None => stage[Head(writes).by] \in {"persisting", "done"}
      BY <3>1 DEF Writers
    <3>3. \/ UNCHANGED stage
          \/ Head(writes).by # None /\ stage' = [stage EXCEPT ![Head(writes).by] = "done"]
      BY <1>6 DEF WriteSettles, handlers
    <3>. QED  BY <3>2, <3>3 DEF Wallet
  <2>. QED  BY <2>2, <2>3, <2>4 DEF LockHeld
<1>7. CASE Restart
  BY <1>7 DEF Restart, LockHeld, Wallet, InProgress
<1>8. CASE \/ \E h \in Hashes : BackfillStatus(h)
           \/ \E k \in Keys : SweepRecord(k)
           \/ \E d \in Payloads : CleanDedup(d)
           \/ \E b \in sent : MineSent(b)
  <2>1. UNCHANGED <<stage, locked>>
    BY <1>8 DEF BackfillStatus, SweepRecord, CleanDedup, MineSent, handlers, memory
  <2>. QED  BY <2>1 DEF LockHeld
<1>. QED  BY <1>1, <1>2, <1>3, <1>4, <1>5, <1>6, <1>7, <1>8 DEF PostNext, Handle

\* A step that writes appends what memory then holds, for nobody or for
\* the request it has sent; a write that settles leaves the rest.
LEMMA QueueMoves ==
    ASSUME PostTypeOK, PostNext
    PROVE  /\ Copies' \subseteq Copies \cup {records'}
           /\ \A w \in Entries(writes') :
                 \/ w \in Entries(writes) /\ ~Restart
                 \/ w.by = None
                 \/ w.by \in Requests /\ Broadcasted(w.by) /\ KeyOf[w.by] # None
<1>. DEFINE Goal ==
       /\ Copies' \subseteq Copies \cup {records'}
       /\ \A w \in Entries(writes') :
             \/ w \in Entries(writes) /\ ~Restart
             \/ w.by = None
             \/ w.by \in Requests /\ Broadcasted(w.by) /\ KeyOf[w.by] # None
<1>1. ASSUME NEW who, Persist(who, records'), UNCHANGED disk, ~Restart,
             \/ who = None
             \/ who \in Requests /\ Broadcasted(who) /\ KeyOf[who] # None
      PROVE  Goal
  <2>. DEFINE e == [by |-> who, snap |-> records']
  <2>1. writes' = Append(writes, e)
    BY <1>1 DEF Persist
  <2>2. writes \in Seq(Entry)
    BY DEF PostTypeOK, Entry
  <2>3. Entries(writes') = Entries(writes) \cup {e}
    BY <2>1, <2>2, Queueing
  <2>4. e.by = who /\ e.snap = records'
    OBVIOUS
  <2>. HIDE DEF e
  <2>. QED  BY <1>1, <2>3, <2>4 DEF Copies
<1>2. ASSUME UNCHANGED <<disk, writes>>, ~Restart
      PROVE  Goal
  BY <1>2 DEF Copies
<1>3. CASE Restart
  <2>1. writes' = << >> /\ records' = disk /\ disk' = disk
    BY <1>3 DEF Restart
  <2>2. Entries(writes') = {}
    BY <2>1 DEF Entries
  <2>. QED  BY <2>1, <2>2 DEF Copies
<1>4. CASE WriteSettles /\ ~Restart
  <2>1. /\ Head(writes) \in Entries(writes)
        /\ Entries(Tail(writes)) \subseteq Entries(writes)
        /\ writes' = Tail(writes) /\ records' = records
        /\ disk' = disk \/ disk' = Head(writes).snap
    BY <1>4, Dequeueing DEF WriteSettles, PostTypeOK, memory
  <2>. QED  BY <1>4, <2>1 DEF Copies
<1>5. ASSUME NEW r \in Requests, Handle(r), ~Restart
      PROVE  Goal
  <2>1. CASE Broadcasted(r)
    <3>1. CASE KeyOf[r] = None
      BY <1>2, <1>5, <2>1, <3>1 DEF Broadcasted
    <3>2. CASE KeyOf[r] # None
      <4>1. Persist(r, records') /\ UNCHANGED disk
        BY <2>1, <3>2 DEF Broadcasted
      <4>. QED  BY <1>1, <1>5, <2>1, <3>2, <4>1
    <3>. QED  BY <3>1, <3>2
  <2>2. CASE ~Broadcasted(r)
    <3>1. UNCHANGED <<disk, writes>>
      BY <1>5, <2>2 DEF Handle, Replay, Join, Begin, Invalid, FeeVerified, GasEstimationFails,
              TakeLock,
                        Broadcast, SendFails, storage
    <3>. QED  BY <1>2, <1>5, <3>1
  <2>. QED  BY <2>1, <2>2
<1>6. CASE ~Restart /\ (\/ \E h \in Hashes : BackfillStatus(h)
                        \/ \E k \in Keys : SweepRecord(k))
  <2>1. Persist(None, records') /\ UNCHANGED disk
    BY <1>6 DEF BackfillStatus, SweepRecord
  <2>. QED  BY <1>1, <1>6, <2>1
<1>7. CASE ~Restart /\ (\/ \E d \in Payloads : CleanDedup(d)
                        \/ \E b \in sent : MineSent(b))
  <2>1. UNCHANGED <<disk, writes>>
    BY <1>7 DEF CleanDedup, MineSent, storage
  <2>. QED  BY <1>2, <1>7, <2>1
<1>. QED  BY <1>3, <1>4, <1>5, <1>6, <1>7 DEF PostNext

\* The writers of a queue have been sent, and only a write answers them.
LEMMA WritersStep ==
    ASSUME PostTypeOK, Broadcasts, Writers, PostNext
    PROVE  Writers'
<1>. SUFFICES ASSUME NEW w \in Entries(writes'), w.by # None
              PROVE  WasSent(w.by)' /\ stage'[w.by] \in {"persisting", "done"}
  BY DEF Writers
<1>1. sent \subseteq sent'
  BY ChainGrows
<1>2. CASE w \in Entries(writes) /\ ~Restart
  <2>1. WasSent(w.by) /\ stage[w.by] \in {"persisting", "done"}
    BY <1>2 DEF Writers
  <2>2. w \in Entry
    BY <1>2, Entered DEF PostTypeOK, Entry
  <2>3. w.by \in Requests
    BY <2>2 DEF Entry
  <2>4. Moves(stage[w.by], stage'[w.by])
    BY <2>3, StageMoves
  <2>5. stage'[w.by] # "cut"
    BY <1>2, <2>1, <2>3, NothingCut
  <2>. QED  BY <1>1, <2>1, <2>4, <2>5 DEF WasSent, Moves
<1>3. CASE w.by \in Requests /\ Broadcasted(w.by) /\ KeyOf[w.by] # None
  <2>1. stage[w.by] = "accepted" /\ stage'[w.by] = "persisting"
    BY <1>3 DEF Broadcasted, PostTypeOK
  <2>. QED  BY <1>1, <1>3, <2>1 DEF Broadcasts, WasSent
<1>. QED  BY <1>2, <1>3, QueueMoves

\* The last entry of the queue is the state of memory.
LEMMA LastWriteStep ==
    ASSUME PostTypeOK, LastWrite, PostNext
    PROVE  LastWrite'
<1>. SUFFICES ASSUME "disk" \notin postFaults
              PROVE  IF writes' = << >> THEN disk' = records' ELSE LastOf(writes').snap = records'
  BY DEF PostNext, LastWrite
<1>. DEFINE Goal == IF writes' = << >> THEN disk' = records' ELSE LastOf(writes').snap = records'
<1>1. ASSUME NEW who, Persist(who, records')
      PROVE  Goal
  <2>. DEFINE e == [by |-> who, snap |-> records']
  <2>1. writes' = Append(writes, e)
    BY <1>1 DEF Persist
  <2>2. writes \in Seq(Entry)
    BY DEF PostTypeOK, Entry
  <2>3. writes' # << >> /\ LastOf(writes') = e
    BY <2>1, <2>2, Queueing
  <2>4. e.snap = records'
    OBVIOUS
  <2>. HIDE DEF e
  <2>. QED  BY <2>3, <2>4
<1>2. ASSUME UNCHANGED <<records, disk, writes>>
      PROVE  Goal
  BY <1>2 DEF LastWrite
<1>3. CASE Restart
  BY <1>3 DEF Restart
<1>4. CASE WriteSettles
  <2>1. /\ writes # << >> /\ writes' = Tail(writes) /\ records' = records
        /\ disk' = Head(writes).snap
    BY <1>4 DEF WriteSettles, memory
  <2>2. LastOf(writes) = IF Tail(writes) = << >> THEN Head(writes) ELSE LastOf(Tail(writes))
    BY <2>1, Dequeueing DEF PostTypeOK
  <2>3. LastOf(writes).snap = records
    BY <2>1 DEF LastWrite
  <2>. QED  BY <2>1, <2>2, <2>3
<1>5. ASSUME NEW r \in Requests, Handle(r)
      PROVE  Goal
  <2>1. CASE Broadcasted(r)
    <3>1. CASE KeyOf[r] = None
      BY <1>2, <2>1, <3>1 DEF Broadcasted
    <3>2. CASE KeyOf[r] # None
      BY <1>1, <2>1, <3>2 DEF Broadcasted
    <3>. QED  BY <3>1, <3>2
  <2>2. CASE ~Broadcasted(r)
    <3>1. UNCHANGED <<records, disk, writes>>
      BY <1>5, <2>2 DEF Handle, Replay, Join, Begin, Invalid, FeeVerified, GasEstimationFails,
              TakeLock,
                        Broadcast, SendFails, storage, memory
    <3>. QED  BY <1>2, <3>1
  <2>. QED  BY <2>1, <2>2
<1>6. CASE (\E h \in Hashes : BackfillStatus(h)) \/ (\E k \in Keys : SweepRecord(k))
  <2>1. Persist(None, records')
    BY <1>6 DEF BackfillStatus, SweepRecord
  <2>. QED  BY <1>1, <2>1
<1>7. CASE (\E d \in Payloads : CleanDedup(d)) \/ (\E b \in sent : MineSent(b))
  <2>1. UNCHANGED <<records, disk, writes>>
    BY <1>7 DEF CleanDedup, MineSent, storage, memory
  <2>. QED  BY <1>2, <2>1
<1>. QED  BY <1>3, <1>4, <1>5, <1>6, <1>7 DEF PostNext

\* How the records in memory change.
LEMMA RecordsMove ==
    ASSUME PostNext
    PROVE  \/ records' = records
           \/ Restart
           \/ \E r \in Requests : Broadcasted(r) /\ KeyOf[r] # None
           \/ \E h \in Hashes : BackfillStatus(h)
           \/ \E k \in Keys : SweepRecord(k)
<1>1. ASSUME NEW r \in Requests, Handle(r), ~(Broadcasted(r) /\ KeyOf[r] # None)
      PROVE  records' = records
  BY <1>1 DEF Handle, Replay, Join, Begin, Invalid, FeeVerified, GasEstimationFails, TakeLock,
              Broadcast,
              SendFails, Broadcasted, memory
<1>2. CASE \/ WriteSettles
           \/ \E d \in Payloads : CleanDedup(d)
           \/ \E b \in sent : MineSent(b)
  BY <1>2 DEF WriteSettles, CleanDedup, MineSent, memory
<1>. QED  BY <1>1, <1>2 DEF PostNext

\* The answers and the hashes they are made of keep their types.
LEMMA HandlersType ==
    ASSUME PostTypeOK, Broadcasts, Writers, PostNext
    PROVE  /\ stage' \in [Requests -> {"new", "done", "rejected", "cut"} \cup InProgress]
           /\ answer' \in [Requests -> Hashes \cup {None}]
<1>. USE PostAssumption DEF PostTypeOK, InProgress
<1>. DEFINE Goal == /\ stage' \in [Requests -> {"new", "done", "rejected", "cut"} \cup InProgress]
                    /\ answer' \in [Requests -> Hashes \cup {None}]
<1>1. ASSUME NEW r \in Requests, Replay(r)
      PROVE  Goal
  <2>1. records[KeyOf[r]] \in Record
    BY <1>1 DEF Replay, RecordMap
  <2>. QED  BY <1>1, <2>1 DEF Replay, Record
<1>2. ASSUME NEW r \in Requests, Handle(r), ~Replay(r), ~Broadcasted(r)
      PROVE  Goal
  BY <1>2 DEF Handle, Join, Begin, Invalid, FeeVerified, GasEstimationFails, TakeLock, Broadcast,
              SendFails,
              Reject, handlers
<1>3. ASSUME NEW r \in Requests, Broadcasted(r)
      PROVE  Goal
  <2>1. HashOf(r) \in Hashes
    BY <1>3, SentHash DEF Broadcasted, Broadcasts
  <2>2. CASE KeyOf[r] = None
    BY <1>3, <2>1, <2>2 DEF Broadcasted
  <2>3. CASE KeyOf[r] # None
    <3>1. /\ stage' = [w \in Requests |-> IF w = r THEN "persisting"
                                           ELSE IF w \in Waiters(r) THEN "done" ELSE stage[w]]
          /\ answer' = [w \in Requests |-> IF w \in Waiters(r) THEN HashOf(r) ELSE answer[w]]
      BY <1>3, <2>3 DEF Broadcasted
    <3>. QED  BY <2>1, <3>1
  <2>. QED  BY <2>2, <2>3
<1>4. CASE WriteSettles
  <2>1. /\ Head(writes) \in Entries(writes)
        /\ Head(writes) \in [by : Requests \cup {None}, snap : RecordMap]
    BY <1>4, Dequeueing DEF WriteSettles
  <2>2. Head(writes).by # None => Head(writes).by \in Requests /\ HashOf(Head(writes).by) \in Hashes
    BY <2>1, SentHash DEF Writers
  <2>3. CASE Head(writes).by = None
    BY <1>4, <2>3 DEF WriteSettles, handlers
  <2>4. CASE Head(writes).by # None
    <3>1. stage' = [stage EXCEPT ![Head(writes).by] = "done"]
          /\ answer' = [answer EXCEPT ![Head(writes).by] = HashOf(Head(writes).by)]
      BY <1>4, <2>4 DEF WriteSettles
    <3>. QED  BY <2>2, <2>4, <3>1
  <2>. QED  BY <2>3, <2>4
<1>5. CASE Restart
  BY <1>5 DEF Restart
<1>6. CASE \/ \E h \in Hashes : BackfillStatus(h)
           \/ \E k \in Keys : SweepRecord(k)
           \/ \E d \in Payloads : CleanDedup(d)
           \/ \E b \in sent : MineSent(b)
  BY <1>6 DEF BackfillStatus, SweepRecord, CleanDedup, MineSent, handlers
<1>. QED  BY <1>1, <1>2, <1>3, <1>4, <1>5, <1>6 DEF PostNext, Handle, handlers

\* What the process keeps in memory keeps its type.
LEMMA MemoryType ==
    ASSUME PostTypeOK, Broadcasts, PostNext
    PROVE  /\ locked' \in BOOLEAN
           /\ txCache' \in [Payloads -> Hashes \cup {None}]
           /\ inflight' \in [Keys -> Requests \cup {None}]
<1>. USE PostAssumption DEF PostTypeOK
<1>1. ASSUME NEW r \in Requests, Handle(r), ~Broadcasted(r)
      PROVE  /\ locked' \in BOOLEAN
             /\ txCache' \in [Payloads -> Hashes \cup {None}]
             /\ inflight' \in [Keys -> Requests \cup {None}]
  BY <1>1 DEF Handle, Replay, Join, Begin, Invalid, FeeVerified, GasEstimationFails, TakeLock,
              Broadcast,
              SendFails, Reject, ForgetInflight, memory
<1>2. ASSUME NEW r \in Requests, Broadcasted(r)
      PROVE  /\ locked' \in BOOLEAN
             /\ txCache' \in [Payloads -> Hashes \cup {None}]
             /\ inflight' \in [Keys -> Requests \cup {None}]
  <2>1. HashOf(r) \in Hashes
    BY <1>2, SentHash DEF Broadcasted, Broadcasts
  <2>. QED  BY <1>2, <2>1 DEF Broadcasted, ForgetInflight
<1>3. CASE Restart
  BY <1>3 DEF Restart
<1>4. CASE \/ WriteSettles
           \/ \E h \in Hashes : BackfillStatus(h)
           \/ \E k \in Keys : SweepRecord(k)
           \/ \E d \in Payloads : CleanDedup(d)
           \/ \E b \in sent : MineSent(b)
  BY <1>4 DEF WriteSettles, BackfillStatus, SweepRecord, CleanDedup, MineSent, memory
<1>. QED  BY <1>1, <1>2, <1>3, <1>4 DEF PostNext

\* The records keep their type, in memory, in the queue and in the file.
LEMMA RecordsType ==
    ASSUME PostTypeOK, Broadcasts, PostNext
    PROVE  records' \in RecordMap
<1>. USE PostAssumption DEF PostTypeOK
<1>1. ASSUME NEW r \in Requests, Broadcasted(r), KeyOf[r] # None
      PROVE  records' \in RecordMap
  <2>1. HashOf(r) \in Hashes
    BY <1>1, SentHash DEF Broadcasted, Broadcasts
  <2>2. [hash |-> HashOf(r), status |-> "pending"] \in Record
    BY <2>1 DEF Record
  <2>. QED  BY <1>1, <2>2 DEF Broadcasted, RecordMap
<1>2. ASSUME NEW h \in Hashes, BackfillStatus(h)
      PROVE  records' \in RecordMap
  <2>1. ASSUME NEW k \in Keys, records[k] # None
        PROVE  [records[k] EXCEPT !.status = receipts[h]] \in Record
    BY <1>2, <2>1 DEF BackfillStatus, RecordMap, Record
  <2>. QED  BY <1>2, <2>1 DEF BackfillStatus, RecordMap
<1>3. ASSUME NEW k \in Keys, SweepRecord(k)
      PROVE  records' \in RecordMap
  BY <1>3 DEF SweepRecord, RecordMap
<1>4. CASE Restart
  BY <1>4 DEF Restart
<1>. QED  BY <1>1, <1>2, <1>3, <1>4, RecordsMove

\* The queue and the file keep their types.
LEMMA StorageType ==
    ASSUME PostTypeOK, Broadcasts, PostNext
    PROVE  disk' \in RecordMap /\ writes' \in Seq([by : Requests \cup {None}, snap : RecordMap])
<1>. USE DEF PostTypeOK
<1>1. records' \in RecordMap
  BY RecordsType
<1>2. ASSUME NEW who \in Requests \cup {None}, Persist(who, records')
      PROVE  writes' \in Seq([by : Requests \cup {None}, snap : RecordMap])
  <2>. DEFINE e == [by |-> who, snap |-> records']
  <2>1. e \in [by : Requests \cup {None}, snap : RecordMap]
    BY <1>1
  <2>2. writes' = Append(writes, e)
    BY <1>2 DEF Persist
  <2>. HIDE DEF e
  <2>. QED  BY <2>1, <2>2, Queueing
<1>3. ASSUME NEW r \in Requests, Handle(r)
      PROVE  disk' \in RecordMap /\ writes' \in Seq([by : Requests \cup {None}, snap : RecordMap])
  <2>1. CASE Broadcasted(r)
    BY <1>2, <2>1 DEF Broadcasted
  <2>2. CASE ~Broadcasted(r)
    BY <1>3, <2>2 DEF Handle, Replay, Join, Begin, Invalid, FeeVerified, GasEstimationFails,
              TakeLock,
                      Broadcast, SendFails, storage
  <2>. QED  BY <2>1, <2>2
<1>4. CASE WriteSettles
  <2>1. /\ Head(writes) \in [by : Requests \cup {None}, snap : RecordMap]
        /\ Tail(writes) \in Seq([by : Requests \cup {None}, snap : RecordMap])
    BY <1>4, Dequeueing DEF WriteSettles
  <2>2. writes' = Tail(writes) /\ (disk' = Head(writes).snap \/ disk' = disk)
    BY <1>4 DEF WriteSettles
  <2>. QED  BY <2>1, <2>2
<1>5. CASE Restart
  BY <1>5 DEF Restart
<1>6. CASE (\E h \in Hashes : BackfillStatus(h)) \/ (\E k \in Keys : SweepRecord(k))
  BY <1>2, <1>6 DEF BackfillStatus, SweepRecord
<1>7. CASE (\E d \in Payloads : CleanDedup(d)) \/ (\E b \in sent : MineSent(b))
  BY <1>7 DEF CleanDedup, MineSent, storage
<1>. QED  BY <1>3, <1>4, <1>5, <1>6, <1>7 DEF PostNext

\* The chain keeps its type.
LEMMA ChainType ==
    ASSUME PostTypeOK, Broadcasts, Writers, PostNext
    PROVE  /\ sent' \subseteq [hash : Hashes, req : Requests]
           /\ receipts' \in [Hashes -> {"pending"} \cup Terminal]
<1>. USE DEF PostTypeOK
<1>1. ASSUME NEW r \in Requests, Broadcast(r)
      PROVE  /\ sent' \subseteq [hash : Hashes, req : Requests]
             /\ receipts' \in [Hashes -> {"pending"} \cup Terminal]
  <2>1. \A b \in sent : b.req # r
    BY <1>1 DEF Broadcast, Broadcasts, WasSent, Unsent
  <2>2. Cardinality(sent) + 1 \in Hashes
    BY <2>1, NextHash, PostAssumption DEF Broadcasts, Hashes
  <2>. QED  BY <1>1, <2>2 DEF Broadcast
<1>2. CASE ~\E r \in Requests : Broadcast(r)
  <2>1. sent' = sent
    BY <1>2, Sending
  <2>2. ASSUME NEW b \in sent, MineSent(b)
        PROVE  receipts' \in [Hashes -> {"pending"} \cup Terminal]
    BY <2>2 DEF MineSent
  <2>3. CASE ~\E b \in sent : MineSent(b)
    BY <1>2, <2>3 DEF PostNext, Handle, Replay, Join, Begin, Invalid, FeeVerified,
              GasEstimationFails, TakeLock,
       SendFails, Broadcasted, WriteSettles, Restart, BackfillStatus, SweepRecord, CleanDedup, chain
  <2>. QED  BY <2>1, <2>2, <2>3
<1>. QED  BY <1>1, <1>2

\* Every variable keeps its type.
LEMMA TypeStep ==
    ASSUME PostTypeOK, Broadcasts, Writers, PostNext
    PROVE  PostTypeOK'
<1>1. postFaults' \in PostFaultSets
  BY DEF PostNext, PostTypeOK
<1>. QED  BY <1>1, HandlersType, MemoryType, RecordsType, StorageType, ChainType DEF PostTypeOK

\* Every map of records tells the truth of its transactions.
LEMMA CopiesTrueStep ==
    ASSUME PostTypeOK, PostTypeOK', Broadcasts, CopiesTrue, PostNext
    PROVE  CopiesTrue'
<1>1. \A m \in Copies : m \in RecordMap
  <2>1. Entries(writes) \subseteq [by : Requests \cup {None}, snap : RecordMap]
    BY Entered DEF PostTypeOK
  <2>. QED  BY <2>1 DEF Copies, PostTypeOK
<1>2. ASSUME NEW m \in RecordMap, TrueOf(m)
      PROVE  TrueOf(m)'
  <2>1. /\ sent \subseteq sent'
        /\ \A h \in Hashes : receipts[h] \in Terminal => receipts'[h] = receipts[h]
    BY ChainGrows
  <2>2. \A k \in Keys : m[k] # None => m[k].hash \in Hashes
    BY DEF RecordMap, Record
  <2>. QED  BY <1>2, <2>1, <2>2 DEF TrueOf
<1>3. TrueOf(records)'
  <2>1. CASE records' = records
    BY <1>1, <1>2, <2>1 DEF Copies, CopiesTrue, TrueOf
  <2>2. CASE Restart
    BY <1>1, <1>2, <2>2 DEF Copies, CopiesTrue, TrueOf, Restart
  <2>3. ASSUME NEW r \in Requests, Broadcasted(r), KeyOf[r] # None
        PROVE  TrueOf(records)'
    <3>1. /\ records' = [records EXCEPT ![KeyOf[r]] = [hash |-> HashOf(r), status |-> "pending"]]
          /\ sent' = sent /\ receipts' = receipts
      BY <2>3 DEF Broadcasted, chain
    <3>2. \E b \in sent : b.req = r /\ b.hash = HashOf(r)
      BY <2>3, SentHash DEF Broadcasted, Broadcasts
    <3>3. TrueOf(records)
      BY DEF CopiesTrue, Copies
    <3>. QED  BY <3>1, <3>2, <3>3 DEF TrueOf, Terminal, PostTypeOK, RecordMap
  <2>4. ASSUME NEW h \in Hashes, BackfillStatus(h)
        PROVE  TrueOf(records)'
    <3>1. /\ records' = [k \in Keys |-> IF records[k] # None /\ records[k].hash = h
                                  THEN [records[k] EXCEPT !.status = receipts[h]] ELSE records[k]]
          /\ sent' = sent /\ receipts' = receipts
      BY <2>4 DEF BackfillStatus, chain
    <3>2. TrueOf(records)
      BY DEF CopiesTrue, Copies
    <3>3. ASSUME NEW k \in Keys, records[k] # None
          PROVE  /\ records[k] \in Record
                 /\ [records[k] EXCEPT !.status = receipts[h]].hash = records[k].hash
                 /\ [records[k] EXCEPT !.status = receipts[h]].status = receipts[h]
      BY <3>3 DEF PostTypeOK, RecordMap, Record
    <3>4. ASSUME NEW k \in Keys, records'[k] # None
          PROVE  /\ records[k] # None
                 /\ records'[k].hash = records[k].hash
                 /\ \/ records'[k].status = records[k].status
                    \/ records'[k].status = receipts[records[k].hash]
      BY <3>1, <3>3, <3>4
    <3>. QED  BY <3>1, <3>2, <3>4 DEF TrueOf
  <2>5. ASSUME NEW k \in Keys, SweepRecord(k)
        PROVE  TrueOf(records)'
    <3>1. records' = [records EXCEPT ![k] = None] /\ sent' = sent /\ receipts' = receipts
      BY <2>5 DEF SweepRecord, chain
    <3>2. TrueOf(records)
      BY DEF CopiesTrue, Copies
    <3>. QED  BY <3>1, <3>2 DEF TrueOf, PostTypeOK, RecordMap
  <2>. QED  BY <2>1, <2>2, <2>3, <2>4, <2>5, RecordsMove
<1>4. \A m \in Copies' : m \in Copies \/ m = records'
  BY QueueMoves
<1>5. ASSUME NEW m \in Copies'
      PROVE  TrueOf(m)'
  <2>1. CASE m \in Copies
    BY <1>1, <1>2, <2>1 DEF CopiesTrue
  <2>2. CASE m = records'
    BY <1>3, <2>2 DEF TrueOf
  <2>. QED  BY <1>4, <2>1, <2>2
<1>. QED  BY <1>5 DEF CopiesTrue

\* Whoever submits for a key owns it, and the key has no record.
LEMMA OwnersStep ==
    ASSUME PostTypeOK, Owners, Writers, PostNext
    PROVE  Owners'
<1>. USE PostAssumption DEF PostTypeOK
<1>. SUFFICES ASSUME NEW q \in Requests, KeyOf[q] # None, stage'[q] \in Submitting
              PROVE  inflight'[KeyOf[q]] = q /\ records'[KeyOf[q]] = None
  BY DEF Owners
<1>. KeyOf[q] \in Keys
  OBVIOUS
<1>1. ASSUME NEW r \in Requests, Begin(r)
      PROVE  inflight'[KeyOf[q]] = q /\ records'[KeyOf[q]] = None
  <2>1. CASE q = r
    BY <1>1, <2>1 DEF Begin
  <2>2. CASE q # r
    <3>1. stage[q] \in Submitting
      BY <1>1, <2>2 DEF Begin
    <3>2. inflight[KeyOf[q]] = q /\ records[KeyOf[q]] = None
      BY <3>1 DEF Owners
    <3>3. KeyOf[q] # KeyOf[r]
      BY <1>1, <3>2 DEF Begin
    <3>. QED  BY <1>1, <3>2, <3>3 DEF Begin
  <2>. QED  BY <2>1, <2>2
<1>2. stage[q] \in Submitting \/ (stage[q] = "new" /\ stage'[q] = "verifying")
  BY StageMoves DEF Moves, Submitting
<1>3. ASSUME NEW r \in Requests, Handle(r), ~Begin(r)
      PROVE  inflight'[KeyOf[q]] = q /\ records'[KeyOf[q]] = None
  <2>1. CASE Replay(r) \/ Join(r) \/ Broadcast(r)
    <3>1. stage[q] \in Submitting /\ UNCHANGED <<inflight, records>>
      BY <2>1 DEF Replay, Join, Broadcast, memory, Submitting
    <3>. QED  BY <3>1 DEF Owners
  <2>2. CASE Invalid(r) \/ FeeVerified(r) \/ GasEstimationFails(r) \/ TakeLock(r) \/ SendFails(r)
    <3>1. stage[r] \in Submitting /\ records' = records
      BY <2>2 DEF Invalid, FeeVerified, GasEstimationFails, TakeLock, SendFails, Submitting
    <3>2. CASE Reject(r)
      <4>1. q # r /\ stage'[q] = stage[q]
        BY <3>1, <3>2, RejectMoves DEF Submitting
      <4>2. inflight[KeyOf[q]] = q /\ records[KeyOf[q]] = None
        BY <4>1 DEF Owners
      <4>. QED  BY <3>1, <3>2, <4>1, <4>2 DEF Reject, ForgetInflight
    <3>3. CASE ~Reject(r)
      <4>1. stage[q] \in Submitting /\ inflight' = inflight
        BY <2>2, <3>3 DEF Invalid, FeeVerified, GasEstimationFails, TakeLock, SendFails, Submitting
      <4>. QED  BY <3>1, <4>1 DEF Owners
    <3>. QED  BY <3>2, <3>3
  <2>3. CASE Broadcasted(r)
    <3>1. stage[r] \in Submitting
      BY <2>3 DEF Broadcasted, Submitting
    <3>2. q # r /\ stage[q] \in Submitting
      BY <2>3 DEF Broadcasted, Submitting
    <3>3. inflight[KeyOf[q]] = q /\ records[KeyOf[q]] = None
      BY <3>2 DEF Owners
    <3>4. KeyOf[r] # None => KeyOf[q] # KeyOf[r]
      BY <3>1, <3>2, <3>3 DEF Owners
    <3>5. records'[KeyOf[q]] = records[KeyOf[q]]
      BY <2>3, <3>4 DEF Broadcasted, RecordMap
    <3>. QED  BY <2>3, <3>2, <3>3, <3>5 DEF Broadcasted, ForgetInflight
  <2>. QED  BY <1>3, <2>1, <2>2, <2>3 DEF Handle
<1>4. CASE Restart
  BY <1>4 DEF Restart, InProgress, Submitting
<1>5. CASE \/ WriteSettles
           \/ \E d \in Payloads : CleanDedup(d)
           \/ \E b \in sent : MineSent(b)
  <2>1. UNCHANGED <<inflight, records>>
    BY <1>5 DEF WriteSettles, CleanDedup, MineSent, memory
  <2>2. stage[q] \in Submitting
    BY <1>2, <1>5 DEF WriteSettles, CleanDedup, MineSent, handlers
  <2>. QED  BY <2>1, <2>2 DEF Owners
<1>6. CASE (\E h \in Hashes : BackfillStatus(h)) \/ (\E k \in Keys : SweepRecord(k))
  <2>1. UNCHANGED <<stage, inflight>>
    BY <1>6 DEF BackfillStatus, SweepRecord, handlers
  <2>2. records[KeyOf[q]] = None => records'[KeyOf[q]] = None
    BY <1>6 DEF BackfillStatus, SweepRecord, RecordMap
  <2>. QED  BY <2>1, <2>2 DEF Owners
<1>. QED  BY <1>1, <1>3, <1>4, <1>5, <1>6 DEF PostNext

\* Without expiry a record on its way to the file is still in memory.
LEMMA RememberedStep ==
    ASSUME PostTypeOK, Broadcasts, Remembered, PostNext
    PROVE  Remembered'
<1>. USE PostAssumption DEF PostTypeOK
<1>. SUFFICES ASSUME "expiry" \notin postFaults, NEW m \in Copies', NEW k \in Keys, m[k] # None
              PROVE  records'[k] # None
  BY DEF Remembered, PostNext
<1>1. CASE m = records'
  BY <1>1
<1>2. CASE m \in Copies /\ ~Restart
  <2>1. records[k] # None
    BY <1>2 DEF Remembered
  <2>2. ASSUME NEW r \in Requests, Broadcasted(r), KeyOf[r] # None
        PROVE  records'[k] # None
    <3>1. [hash |-> HashOf(r), status |-> "pending"] # None
      <4>1. HashOf(r) \in Hashes
        BY <2>2, SentHash DEF Broadcasted, Broadcasts
      <4>. QED  BY <4>1 DEF Record
    <3>. QED  BY <2>1, <2>2, <3>1 DEF Broadcasted, RecordMap
  <2>3. ASSUME NEW h \in Hashes, BackfillStatus(h)
        PROVE  records'[k] # None
    <3>1. [records[k] EXCEPT !.status = receipts[h]] \in Record
      BY <2>1, <2>3 DEF BackfillStatus, RecordMap, Record
    <3>. QED  BY <2>1, <2>3, <3>1 DEF BackfillStatus
  <2>4. ASSUME NEW j \in Keys, SweepRecord(j)
        PROVE  FALSE
    BY <2>4 DEF SweepRecord
  <2>. QED  BY <1>2, <2>1, <2>2, <2>3, <2>4, RecordsMove
<1>3. CASE Restart
  <2>1. Copies' = {disk} /\ records' = disk
    <3>1. Entries(writes') = {}
      BY <1>3 DEF Restart, Entries
    <3>. QED  BY <1>3, <3>1 DEF Restart, Copies
  <2>. QED  BY <2>1
<1>. QED  BY <1>1, <1>2, <1>3, QueueMoves

\* Calldata that was sent keeps its dedup entry, and the lock keeps the
\* others out until that entry is there.
LEMMA DedupedStep ==
    ASSUME PostTypeOK, Broadcasts, LockHeld, Writers, Deduped, PostNext
    PROVE  Deduped'
<1>. USE PostAssumption DEF PostTypeOK
<1>. SUFFICES ASSUME postFaults \subseteq {"disk"}
              PROVE  /\ \A b \in sent' :
                           txCache'[DataOf[b.req]] # None \/ stage'[b.req] = "accepted"
                     /\ \A r \in Requests : stage'[r] \in Wallet => txCache'[DataOf[r]] = None
                     /\ \A b, c \in sent' : DataOf[b.req] = DataOf[c.req] => b = c
  BY DEF Deduped, PostNext
<1>. /\ \A b \in sent : txCache[DataOf[b.req]] # None \/ stage[b.req] = "accepted"
     /\ \A r \in Requests : stage[r] \in Wallet => txCache[DataOf[r]] = None
     /\ \A b, c \in sent : DataOf[b.req] = DataOf[c.req] => b = c
  BY DEF Deduped
<1>. DEFINE Goal == /\ \A b \in sent' : txCache'[DataOf[b.req]] # None \/ stage'[b.req] = "accepted"
                    /\ \A r \in Requests : stage'[r] \in Wallet => txCache'[DataOf[r]] = None
                    /\ \A b, c \in sent' : DataOf[b.req] = DataOf[c.req] => b = c
<1>1. ASSUME UNCHANGED <<sent, txCache>>,
             \A q \in Requests : stage[q] \in Wallet <=> stage'[q] \in Wallet,
             \A q \in Requests : stage[q] = "accepted" => stage'[q] = "accepted"
      PROVE  Goal
  BY <1>1
<1>2. ASSUME NEW r \in Requests, Replay(r) \/ Join(r) \/ Begin(r)
      PROVE  Goal
  <2>1. /\ UNCHANGED <<sent, txCache>>
        /\ \A q \in Requests : stage[q] \in Wallet <=> stage'[q] \in Wallet
        /\ \A q \in Requests : stage[q] = "accepted" => stage'[q] = "accepted"
    BY <1>2 DEF Replay, Join, Begin, memory, chain, Wallet
  <2>. QED  BY <1>1, <2>1
<1>3. ASSUME NEW r \in Requests,
             Invalid(r) \/ FeeVerified(r) \/ GasEstimationFails(r) \/ TakeLock(r) \/ SendFails(r)
      PROVE  Goal
  <2>1. /\ UNCHANGED <<sent, txCache>>
        /\ stage[r] \in Submitting /\ stage[r] # "accepted"
    BY <1>3 DEF Invalid, FeeVerified, GasEstimationFails, TakeLock, SendFails, chain, Submitting
  <2>2. CASE Reject(r)
    <3>1. \A q \in Requests : stage'[q] \in Wallet => stage[q] \in Wallet
      BY <2>1, <2>2, RejectMoves DEF Wallet
    <3>2. \A q \in Requests : stage[q] = "accepted" => stage'[q] = "accepted"
      BY <2>1, <2>2, RejectMoves DEF Waiters
    <3>. QED  BY <2>1, <3>1, <3>2
  <2>3. CASE ~Reject(r) /\ ~TakeLock(r)
    <3>1. stage' = [stage EXCEPT ![r] = "estimating"] /\ stage[r] = "verifying"
      BY <1>3, <2>3 DEF Invalid, FeeVerified, GasEstimationFails, SendFails
    <3>2. /\ \A q \in Requests : stage[q] \in Wallet <=> stage'[q] \in Wallet
          /\ \A q \in Requests : stage[q] = "accepted" => stage'[q] = "accepted"
      BY <3>1 DEF Wallet
    <3>. QED  BY <1>1, <2>1, <3>2
  <2>4. CASE ~Reject(r) /\ TakeLock(r)
    <3>1. /\ stage' = [stage EXCEPT ![r] = "sending"]
          /\ stage[r] = "estimating" /\ txCache[DataOf[r]] = None
      BY <2>4 DEF TakeLock
    <3>. QED  BY <2>1, <3>1 DEF Wallet
  <2>. QED  BY <2>2, <2>3, <2>4
<1>4. ASSUME NEW r \in Requests, Broadcast(r)
      PROVE  Goal
  <2>. DEFINE n == [hash |-> Cardinality(sent) + 1, req |-> r]
  <2>1. /\ stage[r] = "sending" /\ stage' = [stage EXCEPT ![r] = "accepted"]
        /\ sent' = sent \cup {n} /\ txCache' = txCache
    BY <1>4 DEF Broadcast, memory
  <2>2. n.req = r
    OBVIOUS
  <2>. HIDE DEF n
  <2>3. \A b \in sent : stage[b.req] # "accepted"
    BY <2>1 DEF LockHeld, Wallet
  <2>4. txCache[DataOf[r]] = None
    BY <2>1 DEF Wallet
  <2>5. \A b \in sent : DataOf[b.req] # DataOf[r]
    BY <2>3, <2>4
  <2>. QED  BY <2>1, <2>2, <2>3, <2>4, <2>5 DEF Wallet
<1>5. ASSUME NEW r \in Requests, Broadcasted(r)
      PROVE  Goal
  <2>1. /\ stage[r] = "accepted" /\ sent' = sent
        /\ txCache' = [txCache EXCEPT ![DataOf[r]] = HashOf(r)]
    BY <1>5 DEF Broadcasted, chain
  <2>2. HashOf(r) \in Hashes
    BY <2>1, SentHash DEF Broadcasts
  <2>3. \A q \in Requests :
           \/ stage'[q] \in {"persisting", "done"}
           \/ q # r /\ stage'[q] = stage[q]
    BY <1>5 DEF Broadcasted
  <2>4. \A q \in Requests : stage'[q] \notin Wallet
    BY <2>1, <2>3 DEF LockHeld, Wallet
  <2>5. \A b \in sent : stage[b.req] = "accepted" => b.req = r
    BY <2>1 DEF LockHeld, Wallet
  <2>. QED  BY <2>1, <2>2, <2>4, <2>5
<1>6. CASE WriteSettles
  <2>1. /\ Head(writes) \in Entries(writes)
        /\ Head(writes) \in [by : Requests \cup {None}, snap : RecordMap]
    BY <1>6, Dequeueing DEF WriteSettles
  <2>2. Head(writes).by # None => stage[Head(writes).by] \in {"persisting", "done"}
    BY <2>1 DEF Writers
  <2>3. \/ UNCHANGED stage
        \/ Head(writes).by # None /\ stage' = [stage EXCEPT ![Head(writes).by] = "done"]
    BY <1>6 DEF WriteSettles, handlers
  <2>4. UNCHANGED <<sent, txCache>>
    BY <1>6 DEF WriteSettles, memory, chain
  <2>5. /\ \A q \in Requests : stage[q] \in Wallet <=> stage'[q] \in Wallet
        /\ \A q \in Requests : stage[q] = "accepted" => stage'[q] = "accepted"
    BY <2>2, <2>3 DEF Wallet
  <2>. QED  BY <1>1, <2>4, <2>5
<1>7. CASE Restart \/ (\E k \in Keys : SweepRecord(k)) \/ (\E d \in Payloads : CleanDedup(d))
  BY <1>7 DEF Restart, SweepRecord, CleanDedup
<1>8. CASE (\E h \in Hashes : BackfillStatus(h)) \/ (\E b \in sent : MineSent(b))
  <2>1. UNCHANGED <<sent, txCache, stage>>
    BY <1>8 DEF BackfillStatus, MineSent, handlers, memory, chain
  <2>. QED  BY <1>1, <2>1
<1>. QED  BY <1>2, <1>3, <1>4, <1>5, <1>6, <1>7, <1>8 DEF PostNext, Handle

\* What a request is answered was broadcast for it or for its key.
Fits(r, h) ==
    \E b \in sent : b.hash = h /\ (b.req = r \/ (KeyOf[r] # None /\ KeyOf[b.req] = KeyOf[r]))

\* Each way an answer comes.
LEMMA AnswersStep ==
    ASSUME PostTypeOK, Broadcasts, CopiesTrue, Writers, AnswersAreTruthful, PostNext
    PROVE  AnswersAreTruthful'
<1>. USE PostAssumption DEF PostTypeOK
<1>1. ASSUME NEW q \in Requests, answer'[q] # None
      PROVE  answer'[q] = answer[q] \/ Fits(q, answer'[q])
  <2>1. ASSUME NEW r \in Requests, Replay(r)
        PROVE  answer'[q] = answer[q] \/ Fits(q, answer'[q])
    <3>1. TrueOf(records)
      BY DEF CopiesTrue, Copies
    <3>2. Fits(r, records[KeyOf[r]].hash)
      BY <2>1, <3>1 DEF Replay, TrueOf, Fits
    <3>. QED  BY <2>1, <3>2 DEF Replay
  <2>2. ASSUME NEW r \in Requests, Broadcasted(r)
        PROVE  answer'[q] = answer[q] \/ Fits(q, answer'[q])
    <3>1. \E b \in sent : b.req = r /\ b.hash = HashOf(r)
      BY <2>2, SentHash DEF Broadcasted, Broadcasts
    <3>2. CASE KeyOf[r] = None
      BY <2>2, <3>1, <3>2 DEF Broadcasted, Fits
    <3>3. CASE KeyOf[r] # None
      <4>1. answer'[q] = answer[q] \/ (q \in Waiters(r) /\ answer'[q] = HashOf(r))
        BY <2>2, <3>3 DEF Broadcasted
      <4>. QED  BY <3>1, <3>3, <4>1 DEF Waiters, Fits
    <3>. QED  BY <3>2, <3>3
  <2>3. ASSUME NEW r \in Requests, Handle(r), ~Replay(r), ~Broadcasted(r)
        PROVE  answer'[q] = answer[q]
    BY <2>3 DEF Handle, Join, Begin, Invalid, FeeVerified, GasEstimationFails, TakeLock,
              Broadcast, SendFails,
                Reject
  <2>4. CASE WriteSettles
    <3>1. /\ Head(writes) \in Entries(writes)
          /\ Head(writes) \in [by : Requests \cup {None}, snap : RecordMap]
      BY <2>4, Dequeueing DEF WriteSettles
    <3>2. Head(writes).by # None => Fits(Head(writes).by, HashOf(Head(writes).by))
      BY <3>1, SentHash DEF Writers, Fits
    <3>3. \/ answer' = answer
          \/ /\ Head(writes).by # None
             /\ answer' = [answer EXCEPT ![Head(writes).by] = HashOf(Head(writes).by)]
      BY <2>4 DEF WriteSettles, handlers
    <3>. QED  BY <3>2, <3>3
  <2>5. CASE \/ Restart
             \/ \E h \in Hashes : BackfillStatus(h)
             \/ \E k \in Keys : SweepRecord(k)
             \/ \E d \in Payloads : CleanDedup(d)
             \/ \E b \in sent : MineSent(b)
    BY <2>5 DEF Restart, BackfillStatus, SweepRecord, CleanDedup, MineSent, handlers
  <2>. QED  BY <2>1, <2>2, <2>3, <2>4, <2>5 DEF PostNext
<1>2. sent \subseteq sent'
  BY ChainGrows
<1>. QED  BY <1>1, <1>2 DEF AnswersAreTruthful, Fits

\* An error response goes to what was not sent, while no reply is lost.
LEMMA RejectedStep ==
    ASSUME PostTypeOK, Broadcasts, Writers, RejectedWasNotSent, PostNext
    PROVE  RejectedWasNotSent'
<1>. USE DEF PostTypeOK
<1>. SUFFICES ASSUME "lost reply" \notin postFaults, NEW q \in Requests, stage'[q] = "rejected"
              PROVE  \A b \in sent' : b.req # q
  BY DEF RejectedWasNotSent, PostNext
<1>1. CASE ~\E r \in Requests : Broadcast(r)
  <2>1. sent' = sent
    BY <1>1, Sending
  <2>2. stage[q] \in Unsent \/ stage[q] = "rejected"
    <3>1. stage[q] # "accepted"
      <4>1. ASSUME stage[q] = "accepted"
            PROVE  FALSE
        <5>1. ASSUME NEW r \in Requests, Reject(r), stage[r] \in Submitting, stage[r] # "accepted"
              PROVE  FALSE
          BY <4>1, <5>1, RejectMoves DEF Waiters
        <5>2. ASSUME NEW r \in Requests, Handle(r)
              PROVE  FALSE
          BY <4>1, <5>1, <5>2 DEF Handle, Replay, Join, Begin, Invalid, FeeVerified,
              GasEstimationFails, TakeLock,
                Broadcast, SendFails, Broadcasted, Submitting
        <5>. QED  BY <4>1, <5>2 DEF PostNext, WriteSettles, Restart, BackfillStatus, SweepRecord,
              CleanDedup,
                MineSent, handlers, InProgress
      <4>. QED  BY <4>1
    <3>. QED  BY <3>1, StageMoves DEF Moves, Unsent
  <2>. QED  BY <2>1, <2>2 DEF Broadcasts, WasSent, RejectedWasNotSent
<1>2. ASSUME NEW r \in Requests, Broadcast(r)
      PROVE  \A b \in sent' : b.req # q
  <2>. DEFINE n == [hash |-> Cardinality(sent) + 1, req |-> r]
  <2>1. sent' = sent \cup {n} /\ stage' = [stage EXCEPT ![r] = "accepted"]
    BY <1>2 DEF Broadcast
  <2>2. n.req = r
    OBVIOUS
  <2>. HIDE DEF n
  <2>3. q # r /\ stage[q] = "rejected"
    BY <2>1
  <2>. QED  BY <2>1, <2>2, <2>3 DEF RejectedWasNotSent
<1>. QED  BY <1>1, <1>2

-----------------------------------------------------------------------------
(* The invariant, and what it says of the code.                             *)

\* It holds at the start.
LEMMA PostInitially == PostInit => PostInv
<1>. SUFFICES ASSUME PostInit PROVE PostInv
  OBVIOUS
<1>. USE PostAssumption DEF PostInit
<1>1. Entries(writes) = {}
  BY DEF Entries
<1>2. PostTypeOK
  <2>1. writes \in Seq([by : Requests \cup {None}, snap : RecordMap])
    BY EmptySeq
  <2>. QED  BY <2>1 DEF PostTypeOK, RecordMap
<1>3. Broadcasts /\ LockHeld
  BY DEF Broadcasts, WasSent, LockHeld, Wallet
<1>4. Copies = {records}
  BY <1>1 DEF Copies
<1>5. CopiesTrue /\ Remembered
  BY <1>4 DEF CopiesTrue, TrueOf, Remembered
<1>6. Writers /\ LastWrite /\ Deduped /\ Owners
  BY <1>1 DEF Writers, LastWrite, Deduped, Wallet, Owners, Submitting
<1>7. AnswersAreTruthful /\ RejectedWasNotSent
  BY DEF AnswersAreTruthful, RejectedWasNotSent
<1>. QED  BY <1>2, <1>3, <1>5, <1>6, <1>7 DEF PostInv

\* Every step keeps it.
LEMMA PostInductive == PostInv /\ [PostNext]_postVars => PostInv'
<1>1. ASSUME PostInv, PostNext
      PROVE  PostInv'
  <2>. /\ PostTypeOK /\ Broadcasts /\ LockHeld /\ CopiesTrue /\ Writers /\ LastWrite
       /\ Deduped /\ Owners /\ Remembered /\ AnswersAreTruthful /\ RejectedWasNotSent
    BY <1>1 DEF PostInv
  <2>1. PostTypeOK'
    BY <1>1, TypeStep
  <2>2. Broadcasts' /\ LockHeld' /\ Writers' /\ LastWrite'
    BY <1>1, BroadcastsStep, LockStep, WritersStep, LastWriteStep
  <2>3. CopiesTrue' /\ Remembered'
    BY <1>1, <2>1, CopiesTrueStep, RememberedStep
  <2>4. Deduped' /\ Owners'
    BY <1>1, DedupedStep, OwnersStep
  <2>5. AnswersAreTruthful' /\ RejectedWasNotSent'
    BY <1>1, AnswersStep, RejectedStep
  <2>. QED  BY <2>1, <2>2, <2>3, <2>4, <2>5 DEF PostInv
<1>2. ASSUME PostInv, UNCHANGED postVars
      PROVE  PostInv'
  <2>. USE <1>2 DEF postVars, handlers, memory, storage, chain
  <2>1. PostTypeOK' /\ Broadcasts' /\ LockHeld'
    BY DEF PostInv, PostTypeOK, Broadcasts, WasSent, LockHeld
  <2>2. Copies' = Copies
    BY DEF Copies
  <2>3. CopiesTrue' /\ Remembered'
    BY <2>2 DEF PostInv, CopiesTrue, TrueOf, Remembered
  <2>4. Writers' /\ LastWrite'
    BY DEF PostInv, Writers, WasSent, LastWrite
  <2>5. Deduped' /\ Owners'
    BY DEF PostInv, Deduped, Owners
  <2>6. AnswersAreTruthful' /\ RejectedWasNotSent'
    BY DEF PostInv, AnswersAreTruthful, RejectedWasNotSent
  <2>. QED  BY <2>1, <2>3, <2>4, <2>5, <2>6 DEF PostInv
<1>. QED  BY <1>1, <1>2

\* It always holds.
LEMMA PostInvariant == PostSpec => []PostInv
BY PostInitially, PostInductive, PTL DEF PostSpec

\* What clients are told, now or after a restart, is so, for any requests,
\* keys and payloads and any combination of faults.
THEOREM AnswersHonest == PostSpec => []HonestAnswers
<1>1. PostInv => HonestAnswers
  <2>. SUFFICES ASSUME PostInv PROVE HonestAnswers
    OBVIOUS
  <2>1. StatusIsTheReceipts
    BY DEF PostInv, CopiesTrue, Copies, TrueOf, StatusIsTheReceipts
  <2>2. FileFollowsMemory
    BY DEF PostInv, LastWrite, FileFollowsMemory
  <2>. QED  BY <2>1, <2>2 DEF PostInv, HonestAnswers
<1>. QED  BY <1>1, PostInvariant, PTL

\* One broadcast at a time uses the wallet, under the lock, and calldata goes
\* out once while its dedup entry lives.
THEOREM BroadcastOnce == PostSpec => []OneBroadcast
<1>1. PostInv => OneBroadcast
  <2>. SUFFICES ASSUME PostInv PROVE OneBroadcast
    OBVIOUS
  <2>. DEFINE using == {r \in Requests : stage[r] \in {"sending", "accepted"}}
  <2>1. using = {} \/ \E r \in Requests : using = {r}
    BY DEF PostInv, LockHeld, Wallet
  <2>2. Cardinality(using) <= 1
    BY <2>1, FS_EmptySet, FS_Singleton
  <2>3. locked <=> using # {}
    BY DEF PostInv, LockHeld, Wallet
  <2>4. CalldataOnce
    BY DEF PostInv, Deduped, CalldataOnce
  <2>. QED  BY <2>2, <2>3, <2>4 DEF OneBroadcast, LockCoversBroadcast
<1>. QED  BY <1>1, PostInvariant, PTL

\* A key whose broadcast is on disk is never broadcast again, through any
\* restarts, until records expire.
THEOREM KeySpentOnce == PostSpec => PersistedKeyIsSpent
<1>. DEFINE Spent == \A k \in Keys : "expiry" \notin postFaults /\ disk[k] # None
                        => BroadcastsFor(k)' = BroadcastsFor(k)
<1>1. PostInv /\ [PostNext]_postVars => Spent
  <2>. SUFFICES ASSUME PostInv, [PostNext]_postVars, NEW k \in Keys,
                       "expiry" \notin postFaults, disk[k] # None
                PROVE  BroadcastsFor(k)' = BroadcastsFor(k)
    OBVIOUS
  <2>. PostTypeOK /\ Writers /\ Owners /\ Remembered
    BY DEF PostInv
  <2>1. CASE ~\E r \in Requests : Broadcast(r)
    <3>1. sent' = sent
      BY <2>1, Sending DEF postVars, chain
    <3>. QED  BY <3>1 DEF BroadcastsFor
  <2>2. ASSUME NEW r \in Requests, Broadcast(r)
        PROVE  BroadcastsFor(k)' = BroadcastsFor(k)
    <3>1. records[k] # None
      BY DEF Remembered, Copies
    <3>2. stage[r] = "sending" /\ sent' = sent \cup {[hash |-> Cardinality(sent) + 1, req |-> r]}
      BY <2>2 DEF Broadcast
    <3>3. KeyOf[r] # k
      BY <3>1, <3>2, PostAssumption DEF Owners, Submitting
    <3>. QED  BY <3>2, <3>3 DEF BroadcastsFor
  <2>. QED  BY <2>1, <2>2
<1>. QED  BY <1>1, PostInvariant, PTL DEF PostSpec, PersistedKeyIsSpent

==============================================================================
