---------------------------- MODULE Replay_proofs ----------------------------
(***************************************************************************)
(* Theorems about Replay for any number of streams, senders and records, any *)
(* delays and scales, and any width of a time.                               *)
(***************************************************************************)
EXTENDS Replay, SequenceTheorems, FiniteSetTheorems, TLAPS

\* A command is given once all is on file, and nothing is replayed before that.
Quiet ==
    /\ cmd.kind = "none" => cmd = NoCmd
    /\ cmd # NoCmd => pend = EmptyBag /\ \A k \in Senders : snd[k] = Idle
    /\ cmd = NoCmd =>
         now <= LastStart /\ \A s \in Streams : th[s] = NoThread /\ sentAt[s] = <<>>

\* A thread has sent a part of its file, and knows its origin when it waits.
Threads ==
    \A s \in Streams :
        /\ Sent(s) <= Len(file[s])
        /\ th[s].pc \in {"off", "new"} => Sent(s) = 0
        /\ th[s].pc \in {"wait", "send"} => Sent(s) < Len(file[s])
        /\ th[s].pc = "wait" => cmd.timing
        /\ th[s].pc = "send" => ~cmd.timing
        /\ cmd.kind = "replay" /\ cmd.timing /\ th[s].first = 0 =>
             Sent(s) = 0 /\ th[s].pc # "wait"

\* The threads of a synchronised replay have start and origin in common.
InCommon ==
    cmd.kind = "sync" =>
        \A s, t \in Streams : th[s].start = th[t].start /\ th[s].first = th[t].first

\* A record that is in time is waited for until its scaled distance from the origin.
Punctual ==
    NoOverflow =>
        /\ \A s \in Streams :
              Waits(s) => th[s].fireAt = th[s].start + Scaled(Due(s) - th[s].first)
        /\ NeverBeforeOffset

IInv == TypeOK /\ Quiet /\ Threads /\ InCommon /\ Punctual

-----------------------------------------------------------------------------
(* Least and greatest numbers.                                              *)

LEMMA Least ==
  ASSUME NEW T, T \subseteq Nat, T # {}
  PROVE  \E x \in T : \A y \in T : x <= y
<1>1. PICK R : IsWellFoundedOn(R, Nat) /\ \A x, y \in Nat : y < x => <<y, x>> \in R
  <2>1. IsWellFoundedOn(OpToRel(<, Nat), Nat)
    BY NatLessThanWellFounded
  <2>2. \A x, y \in Nat : y < x => <<y, x>> \in OpToRel(<, Nat)
    BY DEF OpToRel
  <2> QED
    BY <2>1, <2>2
<1>2. PICK x \in T : \A y \in T : ~(<<y, x>> \in R)
  BY <1>1, WFMin
<1>3. x \in Nat /\ \A y \in T : y \in Nat /\ ~(y < x)
  BY <1>1, <1>2
<1> QED
  BY <1>3

LEMMA MinIn ==
  ASSUME NEW T, T \subseteq Nat, T # {}
  PROVE  Min(T) \in T
  BY Least DEF Min

\* Without an induction principle: a smallest finite set of numbers with no greatest
\* one would lose it with any of its elements.
LEMMA Greatest ==
  ASSUME NEW S, S \subseteq Nat, IsFiniteSet(S), S # {}
  PROVE  \E x \in S : \A y \in S : x >= y
<1> DEFINE Bad(U) == /\ U \subseteq Nat /\ IsFiniteSet(U) /\ U # {}
                     /\ ~\E x \in U : \A y \in U : x >= y
           T == {n \in Nat : \E U \in SUBSET Nat : Bad(U) /\ Cardinality(U) = n}
<1> SUFFICES ASSUME Bad(S)
             PROVE  FALSE
  OBVIOUS
<1>1. T \subseteq Nat /\ T # {}
  BY FS_CardinalityType
<1>2. PICK n \in T : \A m \in T : n <= m
  BY <1>1, Least
<1>3. PICK U \in SUBSET Nat : Bad(U) /\ Cardinality(U) = n
  BY <1>2
<1>4. PICK x \in U : TRUE
  BY <1>3
<1>5. n \in Nat /\ Cardinality(U \ {x}) = n - 1 /\ IsFiniteSet(U \ {x})
  BY <1>1, <1>3, <1>4, FS_RemoveElement
<1>6. U \ {x} # {}
  BY <1>3, <1>4
<1>7. ~Bad(U \ {x})
  <2> SUFFICES ASSUME Bad(U \ {x})
               PROVE  FALSE
    OBVIOUS
  <2>1. n - 1 \in Nat
    BY <1>5, FS_CardinalityType
  <2>2. n - 1 \in T
    BY <1>5, <2>1
  <2> QED
    BY <1>2, <1>5, <2>2
<1>8. PICK m \in U \ {x} : \A y \in U \ {x} : m >= y
  BY <1>3, <1>5, <1>6, <1>7
<1> QED
  BY <1>3, <1>4, <1>8

LEMMA MaxDelay == Max(Delays) \in Delays /\ \A d \in Delays : d <= Max(Delays)
<1>1. PICK x \in Delays : \A y \in Delays : x >= y
  BY ReplayAssumption, Greatest
<1>2. Max(Delays) \in Delays /\ \A y \in Delays : Max(Delays) >= y
  BY <1>1 DEF Max
<1> QED
  BY <1>2, ReplayAssumption

-----------------------------------------------------------------------------
(* The scheduler's bag, and the arithmetic of a replay.                     *)

LEMMA BagGrows ==
  ASSUME NEW B, IsABag(B), NEW x
  PROVE  IsABag(B (+) SetToBag({x})) /\ BagToSet(B (+) SetToBag({x})) = BagToSet(B) \union {x}
<1>1. DOMAIN SetToBag({x}) = {x} /\ SetToBag({x})[x] = 1
  BY DEF SetToBag
<1>2. B \in [DOMAIN B -> {n \in Nat : n > 0}]
  BY DEF IsABag
<1> DEFINE C == B (+) SetToBag({x})
<1>3. DOMAIN C = DOMAIN B \union {x}
  BY <1>1 DEF (+)
<1>4. ASSUME NEW e \in DOMAIN C
      PROVE  C[e] \in {n \in Nat : n > 0}
  <2>1. C[e] = (IF e \in DOMAIN B THEN B[e] ELSE 0) + (IF e \in {x} THEN SetToBag({x})[e] ELSE 0)
    BY <1>1, <1>3, <1>4 DEF (+)
  <2> QED
    BY <1>1, <1>2, <1>3, <1>4, <2>1
<1>5. C = [e \in DOMAIN C |-> C[e]]
  BY DEF (+)
<1> HIDE DEF C
<1>6. C \in [DOMAIN C -> {n \in Nat : n > 0}]
  BY <1>4, <1>5
<1> QED
  BY <1>3, <1>6 DEF IsABag, BagToSet, C

LEMMA BagShrinks ==
  ASSUME NEW B, IsABag(B), NEW x
  PROVE  IsABag(B (-) SetToBag({x})) /\ BagToSet(B (-) SetToBag({x})) \subseteq BagToSet(B)
<1> DEFINE less == [e \in DOMAIN B |-> IF e \in DOMAIN SetToBag({x}) THEN B[e] - SetToBag({x})[e] ELSE B[e]]
           rest == {e \in DOMAIN less : less[e] > 0}
           C == B (-) SetToBag({x})
<1>1. DOMAIN SetToBag({x}) = {x} /\ SetToBag({x})[x] = 1
  BY DEF SetToBag
<1>2. B \in [DOMAIN B -> {n \in Nat : n > 0}]
  BY DEF IsABag
<1>3. \A e \in DOMAIN B : less[e] \in Int
  BY <1>1, <1>2
<1>4. C = [e \in rest |-> less[e]]
  BY DEF (-)
<1>5. rest \subseteq DOMAIN B
  OBVIOUS
<1>6. \A e \in rest : less[e] \in {n \in Nat : n > 0}
  BY <1>3
<1> HIDE DEF less, rest, C
<1>7. DOMAIN C = rest /\ C \in [rest -> {n \in Nat : n > 0}]
  BY <1>4, <1>6
<1> QED
  BY <1>5, <1>7 DEF IsABag, BagToSet, C

LEMMA NoneInEmptyBag == BagToSet(EmptyBag) = {} /\ IsABag(EmptyBag)
  BY DEF BagToSet, EmptyBag, SetToBag, IsABag

LEMMA WrapsOnce ==
  ASSUME NEW M \in Nat \ {0}, NEW x \in 0..(M - 1)
  PROVE  (x + M) % M = x
  OBVIOUS

LEMMA Remainder ==
  ASSUME NEW M \in Nat \ {0}, NEW x \in Nat
  PROVE  x % M \in 0..(M - 1) /\ (x < M => x % M = x)
  OBVIOUS

LEMMA Powers == 2 ^ W \in Nat /\ 2 ^ W > 0 /\ 2 ^ (W - 1) \in Nat /\ 2 ^ (W - 1) < 2 ^ W
  BY ReplayAssumption

LEMMA Scales2 ==
  ASSUME TypeOK
  PROVE  cmd.scale[1] \in Nat \ {0} /\ cmd.scale[2] \in Nat \ {0}
<1>1. cmd.scale \in Scales \union {<<1, 1>>}
  BY DEF TypeOK
<1> QED
  BY <1>1, ReplayAssumption

LEMMA ScaledIsNat ==
  ASSUME TypeOK, NEW x \in Nat
  PROVE  Scaled(x) \in Nat
<1>1. cmd.scale[1] \in Nat /\ cmd.scale[2] \in Nat \ {0}
  BY Scales2
<1>2. x * cmd.scale[1] \in Nat
  BY <1>1
<1> QED
  BY <1>1, <1>2 DEF Scaled

\* A time stamp's offset is a time, and its scaled distance from an origin that is not
\* later, which then fits behind any start.
LEMMA OffsetIsTime ==
  ASSUME TypeOK, NEW ts \in 0..LastSend, NEW first \in 0..LastSend,
         NEW o \in Offsets(ts, first)
  PROVE  /\ o \in 0..(2 ^ W - 1)
         /\ NoOverflow /\ ts >= first =>
              /\ o = Scaled(ts - first)
              /\ \A st \in 0..(MaxTime + Slack) : st + o < 2 ^ W
<1> DEFINE m == (ts + 2 ^ W - first) % 2 ^ W
           p == Scaled(Double(m))
<1>1. m \in Nat /\ (ts >= first => m = ts - first)
  <2>1. ts + 2 ^ W - first \in Nat /\ ts < 2 ^ W /\ first < 2 ^ W /\ 2 ^ W \in Nat \ {0}
    BY Powers, ReplayAssumption
  <2>2. ASSUME ts >= first
        PROVE  ts + 2 ^ W - first = (ts - first) + 2 ^ W /\ ts - first \in 0..(2 ^ W - 1)
    BY <2>1, <2>2, ReplayAssumption
  <2>3. \A x \in 0..(2 ^ W - 1) : (x + 2 ^ W) % 2 ^ W = x
    BY <2>1, WrapsOnce
  <2> QED
    BY <2>1, <2>2, <2>3
<1>2. Double(m) \in Nat /\ (ts >= first => Double(m) = ts - first)
  <2>1. ts >= first => m < 2 ^ (W - 1)
    BY <1>1, ReplayAssumption
  <2>2. Double(m) \in Nat
    BY <1>1, Powers, ReplayAssumption DEF Double
  <2> HIDE DEF m
  <2> QED
    BY <1>1, <2>1, <2>2 DEF Double
<1>3. p \in Nat /\ (ts >= first => p = Scaled(ts - first))
  BY <1>2, ScaledIsNat
<1>4. Offsets(ts, first) = IF p < 2 ^ W THEN {p} ELSE 0..(2 ^ W - 1)
  BY DEF Offsets
<1>5. ASSUME NoOverflow, ts >= first
      PROVE  MaxTime + Slack + p < 2 ^ W
  <2>1. ts - first \in 0..LastSend /\ cmd.scale \in Scales \union {<<1, 1>>}
    BY <1>5, ReplayAssumption DEF TypeOK
  <2> QED
    BY <1>3, <1>5, <2>1 DEF NoOverflow, Scaled
<1> HIDE DEF m, p
<1>6. o \in 0..(2 ^ W - 1)
  BY <1>3, <1>4, Powers
<1>7. ASSUME NoOverflow, ts >= first
      PROVE  o = Scaled(ts - first) /\ \A st \in 0..(MaxTime + Slack) : st + o < 2 ^ W
  <2>1. p < 2 ^ W /\ MaxTime + Slack \in Nat
    BY <1>3, <1>5, <1>7, Powers, ReplayAssumption
  <2>2. o = p
    BY <1>4, <2>1
  <2> QED
    BY <1>3, <1>5, <1>7, <2>1, <2>2, Powers, ReplayAssumption
<1> QED
  BY <1>6, <1>7

-----------------------------------------------------------------------------
(* The recording.                                                           *)

LEMMA RecordingTypes ==
  ASSUME TypeOK, Quiet,
         \/ \E k \in Senders, s \in Streams : Stamp(k, s)
         \/ \E k \in Senders, d \in Delays : Schedule(k, d)
         \/ \E k \in Senders : Post(k)
         \/ \E f \in BagToSet(pend) : Write(f)
  PROVE  TypeOK' /\ cmd = NoCmd
<1> USE ReplayAssumption
<1>1. ASSUME NEW k \in Senders, NEW s \in Streams, Stamp(k, s)
      PROVE  TypeOK' /\ cmd = NoCmd
  <2>1. now \in Boot..LastSend
    BY <1>1 DEF TypeOK, Stamp
  <2> QED
    BY <1>1, <2>1 DEF TypeOK, Stamp
<1>2. ASSUME NEW k \in Senders, NEW d \in Delays, Schedule(k, d)
      PROVE  TypeOK' /\ cmd = NoCmd
  <2>1. snd[k] \in [pc : {"stamped"}, bus : Streams, ts : Boot..LastSend]
    BY <1>2 DEF TypeOK, Schedule, Idle
  <2>2. cmd = NoCmd /\ now <= LastStart
    BY <2>1 DEF Quiet, Idle
  <2>3. now + d \in DueTimes
    <3>1. now \in Boot..LastStart /\ d \in Nat /\ Max(Delays) \in Nat /\ d <= Max(Delays)
      <4>1. Delays \subseteq Nat /\ now \in Boot..MaxTime
        BY DEF TypeOK
      <4>2. now \in Boot..LastStart
        BY <2>2, <4>1
      <4> QED
        BY <4>1, <4>2, MaxDelay
    <3> QED
      BY <3>1 DEF DueTimes
  <2> DEFINE v == [pc |-> "post", bus |-> snd[k].bus, ts |-> snd[k].ts, due |-> now + d]
  <2>4. v \in [pc : {"post"}, bus : Streams, ts : Boot..LastSend, due : DueTimes]
    BY <2>1, <2>3
  <2>5. snd' = [snd EXCEPT ![k] = v] /\ UNCHANGED <<now, pend, file, cmd, th, sentAt>>
    BY <1>2 DEF Schedule
  <2> HIDE DEF v
  <2> QED
    BY <2>2, <2>4, <2>5 DEF TypeOK
<1>3. ASSUME NEW k \in Senders, Post(k)
      PROVE  TypeOK' /\ cmd = NoCmd
  <2>1. snd[k] \in [pc : {"post"}, bus : Streams, ts : Boot..LastSend, due : DueTimes]
    BY <1>3 DEF TypeOK, Post, Idle
  <2>2. cmd = NoCmd
    BY <2>1 DEF Quiet, Idle
  <2> DEFINE f == [bus |-> snd[k].bus, ts |-> snd[k].ts, due |-> snd[k].due]
  <2>3. f \in [bus : Streams, ts : Boot..LastSend, due : DueTimes]
    BY <2>1
  <2>4. IsABag(pend') /\ BagToSet(pend') = BagToSet(pend) \union {f}
    BY <1>3, BagGrows DEF TypeOK, Post
  <2>5. snd' = [snd EXCEPT ![k] = Idle] /\ UNCHANGED <<now, file, cmd, th, sentAt>>
    BY <1>3 DEF Post
  <2> HIDE DEF f
  <2> QED
    BY <2>2, <2>3, <2>4, <2>5 DEF TypeOK
<1>4. ASSUME NEW f \in BagToSet(pend), Write(f)
      PROVE  TypeOK' /\ cmd = NoCmd
  <2>1. cmd = NoCmd
    BY <1>4, NoneInEmptyBag DEF Quiet
  <2>2. IsABag(pend') /\ BagToSet(pend') \subseteq BagToSet(pend)
    BY <1>4, BagShrinks DEF TypeOK, Write
  <2>3. f.bus \in Streams /\ f.ts \in Boot..LastSend
    BY DEF TypeOK
  <2>4. file' \in [Streams -> Seq(Boot..LastSend)]
    <3>1. Append(file[f.bus], f.ts) \in Seq(Boot..LastSend)
      BY <2>3 DEF TypeOK
    <3> QED
      BY <1>4, <2>3, <3>1 DEF TypeOK, Write
  <2>5. UNCHANGED <<now, snd, cmd, th, sentAt>>
    BY <1>4 DEF Write
  <2> QED
    BY <2>1, <2>2, <2>4, <2>5 DEF TypeOK
<1> QED
  BY <1>1, <1>2, <1>3, <1>4

\* While the recording goes on the threads have nothing to keep.
LEMMA RecordingKeeps ==
  ASSUME IInv,
         \/ \E k \in Senders, s \in Streams : Stamp(k, s)
         \/ \E k \in Senders, d \in Delays : Schedule(k, d)
         \/ \E k \in Senders : Post(k)
         \/ \E f \in BagToSet(pend) : Write(f)
  PROVE  IInv'
<1>1. TypeOK /\ Quiet
  BY DEF IInv
<1>2. TypeOK' /\ cmd = NoCmd
  BY <1>1, RecordingTypes
<1>3. UNCHANGED <<now, cmd, th, sentAt>>
  BY DEF Stamp, Schedule, Post, Write
<1>4. Quiet'
  BY <1>1, <1>2, <1>3 DEF Quiet
<1>5. NoCmd.kind = "none" /\ NoCmd.timing = FALSE /\ NoThread.pc = "off"
  BY DEF NoCmd, NoThread
<1>6. \A s \in Streams : th'[s].pc = "off" /\ Sent(s)' = 0 /\ Len(file'[s]) \in Nat
  BY <1>1, <1>2, <1>3, <1>5 DEF Quiet, Sent, TypeOK
<1>7. Threads' /\ InCommon' /\ Punctual'
  BY <1>2, <1>3, <1>5, <1>6 DEF Threads, InCommon, Punctual, Waits, NeverBeforeOffset
<1> QED
  BY <1>2, <1>4, <1>7 DEF IInv

-----------------------------------------------------------------------------
(* The commands.                                                            *)

LEMMA CommandTypes ==
  ASSUME NEW k \in {"replay", "sync"}, Command(k)
  PROVE  /\ cmd' \in [kind : {"none", "replay", "sync"}, timing : BOOLEAN,
                      scale : Scales \union {<<1, 1>>}]
         /\ cmd'.kind = k
<1>1. PICK b \in BOOLEAN, x \in Scales \union {<<1, 1>>} :
         cmd' = [kind |-> k, timing |-> b, scale |-> x]
  BY DEF Command
<1> QED
  BY <1>1

LEMMA OriginIsStamp ==
  ASSUME TypeOK
  PROVE  GlobalFirst \in 0..LastSend
<1>1. ASSUME NEW s \in Streams, file[s] # <<>>
      PROVE  file[s][1] \in Boot..LastSend
  <2>1. file[s] \in Seq(Boot..LastSend)
    BY DEF TypeOK
  <2> QED
    <3>1. Len(file[s]) \in Nat \ {0}
      BY <1>1, <2>1, EmptySeq
    <3>2. 1 \in 1..Len(file[s])
      BY <3>1
    <3> QED
      BY <2>1, <3>2, ElementOfSeq
<1>2. FirstStamps \subseteq 0..LastSend /\ FirstStamps \subseteq Nat
  BY <1>1, ReplayAssumption DEF FirstStamps
<1>3. FirstStamps # {} => Min(FirstStamps) \in FirstStamps
  BY <1>2, MinIn
<1> QED
  <2>1. CASE FirstStamps = {}
    BY <2>1, ReplayAssumption DEF GlobalFirst
  <2>2. CASE FirstStamps # {}
    BY <1>2, <1>3, <2>2 DEF GlobalFirst
  <2> QED
    BY <2>1, <2>2

LEMMA CommandKeeps ==
  ASSUME IInv, (\E s \in Streams : ReplayCmd(s)) \/ ReplaySyncCmd
  PROVE  IInv'
<1> USE ReplayAssumption
<1>1. TypeOK /\ Quiet /\ cmd = NoCmd
  BY DEF IInv, ReplayCmd, ReplaySyncCmd, Recorded
<1>2. /\ pend = EmptyBag /\ \A k \in Senders : snd[k] = Idle
      /\ UNCHANGED <<now, snd, pend, file, sentAt>>
  BY DEF ReplayCmd, ReplaySyncCmd, Recorded, Sending, recording
<1>3. \A s \in Streams : sentAt[s] = <<>> /\ Sent(s)' = 0 /\ th[s] = NoThread /\ Len(file[s]) \in Nat
  BY <1>1, <1>2 DEF Quiet, Sent, TypeOK
<1>4. PICK k \in {"replay", "sync"} : Command(k)
  BY DEF ReplayCmd, ReplaySyncCmd
<1>5. /\ cmd' \in [kind : {"none", "replay", "sync"}, timing : BOOLEAN,
                   scale : Scales \union {<<1, 1>>}]
      /\ cmd'.kind = k
  BY <1>4, CommandTypes
<1> DEFINE ThreadStates == [pc : {"off", "new", "next", "wait", "send", "done"},
                            start : 0..(MaxTime + Slack), first : 0..LastSend,
                            fireAt : 0..(2 ^ W - 1)]
<1>6. /\ th' \in [Streams -> ThreadStates]
      /\ \A s \in Streams : th'[s].pc \in {"off", "new"}
      /\ k = "sync" => \A s, t \in Streams : th'[s].start = th'[t].start /\ th'[s].first = th'[t].first
  <2>1. CASE ReplaySyncCmd
    <3>1. PICK v : v = [NoThread EXCEPT !.pc = "new", !.start = now + Slack, !.first = GlobalFirst]
      OBVIOUS
    <3>2. v \in ThreadStates /\ v.pc = "new"
      <4>1. GlobalFirst \in 0..LastSend /\ now + Slack \in 0..(MaxTime + Slack)
        BY <1>1, OriginIsStamp DEF TypeOK
      <4>2. 0 \in 0..(2 ^ W - 1)
        BY Powers
      <4> QED
        BY <3>1, <4>1, <4>2 DEF NoThread
    <3>3. th' = [s \in Streams |-> v]
      BY <2>1, <3>1 DEF ReplaySyncCmd
    <3> QED
      BY <3>2, <3>3
  <2>2. CASE \E s \in Streams : ReplayCmd(s)
    <3>1. PICK s \in Streams : ReplayCmd(s)
      BY <2>2
    <3>2. PICK v : v = [th[s] EXCEPT !.pc = "new"]
      OBVIOUS
    <3>3. th[s] \in ThreadStates /\ th \in [Streams -> ThreadStates]
      BY <1>1 DEF TypeOK
    <3>4. v \in ThreadStates /\ v.pc = "new"
      BY <3>2, <3>3
    <3>5. th' = [th EXCEPT ![s] = v]
      BY <3>1, <3>2 DEF ReplayCmd
    <3>6. k = "replay"
      BY <1>5, <3>1, CommandTypes DEF ReplayCmd
    <3> QED
      BY <1>3, <3>3, <3>4, <3>5, <3>6 DEF NoThread
  <2> QED
    BY <2>1, <2>2
<1>7. TypeOK'
  BY <1>1, <1>2, <1>5, <1>6 DEF TypeOK
<1>8. NoCmd.kind = "none"
  BY DEF NoCmd
<1>9. Quiet' /\ InCommon'
  BY <1>2, <1>5, <1>6, <1>8 DEF Quiet, InCommon
<1>10. Threads'
  BY <1>2, <1>3, <1>6 DEF Threads
<1>11. Punctual'
  BY <1>3, <1>6 DEF Punctual, Waits, NeverBeforeOffset
<1> QED
  BY <1>7, <1>9, <1>10, <1>11 DEF IInv

-----------------------------------------------------------------------------
(* The clock and the replay threads.                                        *)

ThreadStates ==
    [pc : {"off", "new", "next", "wait", "send", "done"}, start : 0..(MaxTime + Slack),
     first : 0..LastSend, fireAt : 0..(2 ^ W - 1)]

LEMMA TickKeeps ==
  ASSUME IInv, Tick
  PROVE  IInv'
<1> USE ReplayAssumption
<1>1. TypeOK /\ Quiet /\ Threads /\ InCommon /\ Punctual
  BY DEF IInv
<1>2. UNCHANGED <<snd, pend, file, cmd, th, sentAt>> /\ now' = now + 1
  BY DEF Tick, recording
<1>3. now < MaxTime /\ (~Started => now < LastStart)
  BY <1>1 DEF Tick, TypeOK
<1>4. TypeOK'
  BY <1>1, <1>2, <1>3 DEF TypeOK
<1>5. cmd = NoCmd => ~Started
  BY <1>1 DEF Quiet, Started, NoCmd, NoThread
<1>6. Quiet'
  BY <1>1, <1>2, <1>3, <1>5 DEF Quiet, TypeOK
<1>7. Threads' /\ InCommon' /\ Punctual'
  BY <1>1, <1>2 DEF Threads, InCommon, Punctual, Waits, Due, Scaled, InTime, NeverBeforeOffset, Sent
<1> QED
  BY <1>4, <1>6, <1>7 DEF IInv

\* A step of thread s that sends nothing: what it has to keep, and the rest follows.
LEMMA ThreadStep ==
  ASSUME IInv, NEW s \in Streams, NEW v \in ThreadStates, th' = [th EXCEPT ![s] = v],
         UNCHANGED <<now, recording, cmd, sentAt>>,
         th[s].pc # "off", v.pc # "off",
         v.pc = "new" => Sent(s) = 0,
         v.pc \in {"wait", "send"} => Sent(s) < Len(file[s]),
         v.pc = "wait" => cmd.timing,
         v.pc = "send" => ~cmd.timing,
         \/ v.start = th[s].start /\ v.first = th[s].first
         \/ Sent(s) = 0 /\ cmd.kind = "replay",
         cmd.kind = "replay" /\ cmd.timing /\ v.first = 0 => Sent(s) = 0 /\ v.pc # "wait",
         NoOverflow /\ v.pc = "wait" /\ file[s][Sent(s) + 1] >= v.first =>
             v.fireAt = v.start + Scaled(file[s][Sent(s) + 1] - v.first)
  PROVE  IInv'
<1>1. TypeOK /\ Quiet /\ Threads /\ InCommon /\ Punctual
  BY DEF IInv
<1>2. th \in [Streams -> ThreadStates] /\ UNCHANGED <<now, snd, pend, file, cmd, sentAt>>
  BY <1>1 DEF TypeOK, ThreadStates, recording
<1>3. /\ th' \in [Streams -> ThreadStates] /\ th'[s] = v
      /\ \A t \in Streams \ {s} : th'[t] = th[t]
  BY <1>2
<1>4. \A t \in Streams : Sent(t)' = Sent(t)
  BY <1>2 DEF Sent
<1>5. TypeOK'
  BY <1>1, <1>2, <1>3 DEF TypeOK, ThreadStates
<1>6. cmd # NoCmd
  BY <1>1 DEF Quiet, NoThread
<1>7. Quiet'
  BY <1>1, <1>2, <1>6 DEF Quiet
<1>8. Threads'
  BY <1>1, <1>2, <1>3, <1>4 DEF Threads
<1>9. InCommon'
  BY <1>1, <1>2, <1>3 DEF InCommon
<1>10. Punctual'
  <2> SUFFICES ASSUME NoOverflow
               PROVE  /\ \A t \in Streams : Waits(t)' =>
                            th'[t].fireAt = th'[t].start + Scaled(file[t][Sent(t) + 1] - th'[t].first)
                      /\ NeverBeforeOffset'
    BY <1>2, <1>4 DEF Punctual, Due, Scaled
  <2>1. ASSUME NEW t \in Streams, Waits(t)'
        PROVE  th'[t].fireAt = th'[t].start + Scaled(file[t][Sent(t) + 1] - th'[t].first)
    <3>1. th'[t].pc = "wait" /\ file[t][Sent(t) + 1] >= th'[t].first
      BY <1>2, <1>4, <2>1 DEF Waits, InTime
    <3>2. CASE t = s
      BY <1>3, <3>1, <3>2
    <3>3. CASE t # s
      BY <1>1, <1>3, <3>1, <3>3 DEF Punctual, Waits, InTime, Due
    <3> QED
      BY <3>2, <3>3
  <2>2. ASSUME NEW t \in Streams, NEW i \in 1..Sent(t), cmd.timing, file[t][i] >= th'[t].first
        PROVE  sentAt[t][i] >= th'[t].start + Scaled(file[t][i] - th'[t].first)
    <3>1. th'[t].start = th[t].start /\ th'[t].first = th[t].first
      BY <1>3, <2>2
    <3> QED
      BY <1>1, <2>2, <3>1 DEF Punctual, NeverBeforeOffset, InTime
  <2>3. NeverBeforeOffset'
    BY <1>2, <1>4, <2>2 DEF NeverBeforeOffset, InTime, Scaled
  <2> QED
    BY <2>1, <2>3
<1> QED
  BY <1>5, <1>7, <1>8, <1>9, <1>10 DEF IInv

LEMMA ThreadMoves ==
  ASSUME IInv, NEW s \in Streams,
         Begin(s) \/ BeginFails(s) \/ ReadRecord(s) \/ EndOfFile(s)
  PROVE  IInv'
<1> USE ReplayAssumption
<1>1. TypeOK /\ Quiet /\ Threads /\ InCommon
  BY DEF IInv
<1>2. /\ th \in [Streams -> ThreadStates] /\ th[s] \in ThreadStates
      /\ UNCHANGED <<now, recording, cmd, sentAt>>
  BY <1>1 DEF TypeOK, ThreadStates, Begin, BeginFails, ReadRecord, EndOfFile
<1>3. cmd # NoCmd /\ cmd.kind \in {"replay", "sync"} /\ cmd.timing \in BOOLEAN
  <2>1. th[s] # NoThread
    BY DEF NoThread, Begin, BeginFails, ReadRecord, EndOfFile
  <2>2. cmd # NoCmd
    BY <1>1, <2>1 DEF Quiet
  <2> QED
    BY <1>1, <2>2 DEF Quiet, TypeOK
<1>4. now \in 0..(MaxTime + Slack) /\ Sent(s) \in Nat
  BY <1>1 DEF TypeOK, Sent
<1>5. cmd.kind = "replay" /\ cmd.timing /\ th[s].first = 0 => Sent(s) = 0 /\ th[s].pc # "wait"
  BY <1>1 DEF Threads
<1>6. CASE Begin(s)
  <2>1. th[s].pc = "new" /\ Sent(s) = 0
    BY <1>1, <1>6 DEF Begin, Threads
  <2>2. CASE cmd.kind = "sync"
    <3>1. PICK v : v = [th[s] EXCEPT !.pc = "next"]
      OBVIOUS
    <3>2. v \in ThreadStates /\ v.pc = "next" /\ v.start = th[s].start /\ v.first = th[s].first
      BY <1>2, <3>1 DEF ThreadStates
    <3>3. th' = [th EXCEPT ![s] = v]
      BY <1>6, <2>2, <3>1 DEF Begin
    <3> QED
      BY <1>2, <1>5, <2>1, <2>2, <3>2, <3>3, ThreadStep
  <2>3. CASE cmd.kind = "replay"
    <3>1. PICK v : v = [[th[s] EXCEPT !.pc = "next"] EXCEPT !.start = now]
      OBVIOUS
    <3>2. v \in ThreadStates /\ v.pc = "next" /\ v.first = th[s].first
      BY <1>2, <1>4, <3>1 DEF ThreadStates
    <3>3. th' = [th EXCEPT ![s] = v]
      BY <1>6, <2>3, <3>1 DEF Begin
    <3> QED
      BY <1>2, <1>5, <2>1, <2>3, <3>2, <3>3, ThreadStep
  <2> QED
    BY <1>3, <2>2, <2>3
<1>7. CASE BeginFails(s) \/ EndOfFile(s)
  <2>1. PICK v : v = [th[s] EXCEPT !.pc = "done"]
    OBVIOUS
  <2>2. v \in ThreadStates /\ v.pc = "done" /\ v.start = th[s].start /\ v.first = th[s].first
    BY <1>2, <2>1 DEF ThreadStates
  <2>3. th' = [th EXCEPT ![s] = v] /\ th[s].pc # "off"
    BY <1>7, <2>1 DEF BeginFails, EndOfFile
  <2> QED
    BY <1>2, <1>5, <2>2, <2>3, ThreadStep
<1>8. CASE ReadRecord(s)
  <2>1. PICK ts : ts = file[s][Sent(s) + 1]
    OBVIOUS
  <2>2. PICK first : first = OriginFor(s, ts)
    OBVIOUS
  <2>3. Sent(s) < Len(file[s]) /\ th[s].pc = "next"
    BY <1>8 DEF ReadRecord
  <2>4. ts \in Boot..LastSend /\ ts \in 0..LastSend
    <3>1. file[s] \in Seq(Boot..LastSend) /\ Sent(s) + 1 \in 1..Len(file[s])
      <4>1. file[s] \in Seq(Boot..LastSend)
        BY <1>1 DEF TypeOK
      <4>2. Len(file[s]) \in Nat
        BY <4>1
      <4> QED
        BY <1>4, <2>3, <4>1, <4>2
    <3> QED
      BY <2>1, <3>1, ElementOfSeq
  <2>5. /\ first \in 0..LastSend
        /\ first = th[s].first \/ (th[s].first = 0 /\ cmd.kind = "replay" /\ first > 0)
        /\ cmd.kind = "replay" => first > 0
    BY <1>2, <1>3, <2>2, <2>4 DEF OriginFor, ThreadStates
  <2>6. CASE cmd.timing
    <3>1. PICK o \in Offsets(ts, first) :
             th' = [th EXCEPT ![s].pc = "wait", ![s].first = first,
                              ![s].fireAt = (th[s].start + o) % 2 ^ W]
      BY <1>8, <2>1, <2>2, <2>6 DEF ReadRecord
    <3>2. PICK at : at = (th[s].start + o) % 2 ^ W
      OBVIOUS
    <3>3. /\ o \in 0..(2 ^ W - 1)
          /\ NoOverflow /\ ts >= first =>
               o = Scaled(ts - first) /\ \A st \in 0..(MaxTime + Slack) : st + o < 2 ^ W
      BY <1>1, <2>4, <2>5, OffsetIsTime
    <3>4. th[s].start \in 0..(MaxTime + Slack) /\ th[s].start + o \in Nat
      BY <1>2, <3>3, Powers DEF ThreadStates
    <3>5. /\ at \in 0..(2 ^ W - 1)
          /\ NoOverflow /\ ts >= first => at = th[s].start + Scaled(ts - first)
      <4>1. at \in 0..(2 ^ W - 1) /\ (th[s].start + o < 2 ^ W => at = th[s].start + o)
        <5>1. 2 ^ W \in Nat \ {0}
          BY Powers
        <5>2. \A x \in Nat : x % 2 ^ W \in 0..(2 ^ W - 1) /\ (x < 2 ^ W => x % 2 ^ W = x)
          BY <5>1, Remainder
        <5> QED
          BY <3>2, <3>4, <5>2
      <4> QED
        BY <3>3, <3>4, <4>1
    <3>6. PICK v : v = [[[th[s] EXCEPT !.pc = "wait"] EXCEPT !.first = first] EXCEPT !.fireAt = at]
      OBVIOUS
    <3>7. /\ v \in ThreadStates
          /\ v.pc = "wait" /\ v.start = th[s].start /\ v.first = first /\ v.fireAt = at
      BY <1>2, <2>5, <3>5, <3>6 DEF ThreadStates
    <3>8. th' = [th EXCEPT ![s] = v]
      BY <3>1, <3>2, <3>6
    <3>9. v.first = th[s].first \/ (Sent(s) = 0 /\ cmd.kind = "replay")
      BY <1>5, <2>5, <2>6, <3>7
    <3>10. NoOverflow /\ file[s][Sent(s) + 1] >= v.first =>
             v.fireAt = v.start + Scaled(file[s][Sent(s) + 1] - v.first)
      BY <2>1, <3>5, <3>7
    <3>11. cmd.kind = "replay" => v.first # 0
      BY <2>5, <3>7
    <3> QED
      BY <1>2, <2>3, <2>6, <3>7, <3>8, <3>9, <3>10, <3>11, ThreadStep
  <2>7. CASE ~cmd.timing
    <3>1. PICK v : v = [th[s] EXCEPT !.pc = "send"]
      OBVIOUS
    <3>2. v \in ThreadStates /\ v.pc = "send" /\ v.start = th[s].start /\ v.first = th[s].first
      BY <1>2, <3>1 DEF ThreadStates
    <3>3. th' = [th EXCEPT ![s] = v]
      BY <1>8, <2>7, <3>1 DEF ReadRecord
    <3> QED
      BY <1>2, <2>3, <2>7, <3>2, <3>3, ThreadStep
  <2> QED
    BY <2>6, <2>7
<1> QED
  BY <1>6, <1>7, <1>8

LEMMA FireKeeps ==
  ASSUME IInv, NEW s \in Streams, Fire(s)
  PROVE  IInv'
<1> USE ReplayAssumption
<1>1. TypeOK /\ Quiet /\ Threads /\ InCommon /\ Punctual
  BY DEF IInv
<1>2. /\ UNCHANGED <<now, snd, pend, file, cmd>>
      /\ sentAt' = [sentAt EXCEPT ![s] = Append(@, now)]
      /\ th[s].pc \in {"send", "wait"}
      /\ th[s].pc = "wait" => now >= th[s].fireAt
  BY DEF Fire, recording
<1>3. th \in [Streams -> ThreadStates] /\ now \in Boot..MaxTime
  BY <1>1 DEF TypeOK, ThreadStates
<1>4. PICK v : v = [th[s] EXCEPT !.pc = "next"]
  OBVIOUS
<1>5. /\ v \in ThreadStates /\ v.pc = "next" /\ v.start = th[s].start /\ v.first = th[s].first
      /\ th' = [th EXCEPT ![s] = v]
  <2>1. th' = [th EXCEPT ![s] = v]
    BY <1>4 DEF Fire
  <2> QED
    BY <1>3, <1>4, <2>1 DEF ThreadStates
<1>6. /\ th' \in [Streams -> ThreadStates] /\ th'[s] = v
      /\ \A t \in Streams \ {s} : th'[t] = th[t] /\ sentAt'[t] = sentAt[t] /\ Sent(t)' = Sent(t)
  BY <1>1, <1>2, <1>3, <1>5 DEF TypeOK, Sent
<1>7. /\ sentAt'[s] \in Seq(Boot..MaxTime) /\ Sent(s) \in Nat /\ Sent(s)' = Sent(s) + 1
      /\ sentAt'[s][Sent(s) + 1] = now /\ \A i \in 1..Sent(s) : sentAt'[s][i] = sentAt[s][i]
  BY <1>1, <1>2, <1>3 DEF TypeOK, Sent
<1>8. TypeOK'
  BY <1>1, <1>2, <1>6, <1>7 DEF TypeOK, ThreadStates
<1>9. cmd # NoCmd
  BY <1>1, <1>2 DEF Quiet, NoThread
<1>10. Quiet'
  BY <1>1, <1>2, <1>9 DEF Quiet
<1>11. Sent(s) < Len(file[s]) /\ Len(file[s]) \in Nat
  BY <1>1, <1>2 DEF Threads, TypeOK
<1>12. Threads'
  <2>1. cmd.kind = "replay" /\ cmd.timing => th[s].first # 0
    BY <1>1, <1>2 DEF Threads
  <2>2. ASSUME NEW t \in Streams
        PROVE  /\ Sent(t)' <= Len(file[t])
               /\ th'[t].pc \in {"off", "new"} => Sent(t)' = 0
               /\ th'[t].pc \in {"wait", "send"} => Sent(t)' < Len(file[t])
               /\ th'[t].pc = "wait" => cmd.timing
               /\ th'[t].pc = "send" => ~cmd.timing
               /\ cmd.kind = "replay" /\ cmd.timing /\ th'[t].first = 0 =>
                    Sent(t)' = 0 /\ th'[t].pc # "wait"
    <3>1. CASE t = s
      BY <1>5, <1>6, <1>7, <1>11, <2>1, <3>1
    <3>2. CASE t # s
      BY <1>1, <1>6, <3>2 DEF Threads
    <3> QED
      BY <3>1, <3>2
  <2> QED
    BY <1>2, <2>2 DEF Threads
<1>13. InCommon'
  BY <1>1, <1>2, <1>5, <1>6 DEF InCommon
<1>14. Punctual'
  <2> SUFFICES ASSUME NoOverflow
               PROVE  /\ \A t \in Streams : Waits(t)' =>
                            th'[t].fireAt = th'[t].start + Scaled(file[t][Sent(t)' + 1] - th'[t].first)
                      /\ NeverBeforeOffset'
    BY <1>2 DEF Punctual, Due, Scaled
  <2>1. ASSUME NEW t \in Streams, Waits(t)'
        PROVE  th'[t].fireAt = th'[t].start + Scaled(file[t][Sent(t)' + 1] - th'[t].first)
    <3>1. th'[t].pc = "wait" /\ file[t][Sent(t)' + 1] >= th'[t].first
      BY <1>2, <2>1 DEF Waits, InTime
    <3>2. t # s
      BY <1>5, <1>6, <3>1
    <3>3. Waits(t)
      BY <1>6, <3>1, <3>2 DEF Waits, InTime
    <3> QED
      BY <1>1, <1>6, <3>2, <3>3 DEF Punctual, Due
  <2>2. ASSUME NEW t \in Streams, NEW i \in 1..Sent(t)', cmd.timing, file[t][i] >= th'[t].first
        PROVE  sentAt'[t][i] >= th'[t].start + Scaled(file[t][i] - th'[t].first)
    <3>1. th'[t].start = th[t].start /\ th'[t].first = th[t].first
      BY <1>5, <1>6
    <3>2. CASE i \in 1..Sent(t)
      <4>1. sentAt'[t][i] = sentAt[t][i]
        BY <1>6, <1>7, <3>2
      <4> QED
        BY <1>1, <2>2, <3>1, <3>2, <4>1 DEF Punctual, NeverBeforeOffset, InTime
    <3>3. CASE i \notin 1..Sent(t)
      <4>1. t = s /\ i = Sent(s) + 1
        BY <1>6, <1>7, <2>2, <3>3
      <4>2. th[s].pc = "wait"
        BY <1>1, <1>2, <2>2 DEF Threads
      <4>3. Waits(s)
        BY <2>2, <3>1, <4>1, <4>2 DEF Waits, InTime
      <4>4. th[s].fireAt = th[s].start + Scaled(file[s][i] - th[s].first)
        BY <1>1, <4>1, <4>3 DEF Punctual, Due
      <4> QED
        BY <1>2, <1>7, <3>1, <4>1, <4>2, <4>4
    <3> QED
      BY <3>2, <3>3
  <2>3. NeverBeforeOffset'
    BY <1>2, <2>2 DEF NeverBeforeOffset, InTime, Scaled
  <2> QED
    BY <2>1, <2>3
<1> QED
  BY <1>8, <1>10, <1>12, <1>13, <1>14 DEF IInv

-----------------------------------------------------------------------------
(* The theorems.                                                            *)

LEMMA IInvInit == Init => IInv
<1> SUFFICES ASSUME Init
             PROVE  IInv
  OBVIOUS
<1> USE ReplayAssumption DEF Init
<1>1. NoThread \in ThreadStates /\ NoThread.pc = "off"
  <2>1. 0 \in 0..(2 ^ W - 1)
    BY Powers
  <2> QED
    BY <2>1 DEF NoThread, ThreadStates
<1>2. /\ NoCmd.kind = "none" /\ NoCmd.timing = FALSE
      /\ NoCmd \in [kind : {"none", "replay", "sync"}, timing : BOOLEAN,
                    scale : Scales \union {<<1, 1>>}]
  BY DEF NoCmd
<1>3. th \in [Streams -> ThreadStates] /\ \A s \in Streams : th[s].pc = "off"
  BY <1>1
<1>4. TypeOK
  <2>1. now \in Boot..MaxTime
    OBVIOUS
  <2>2. file \in [Streams -> Seq(Boot..LastSend)] /\ sentAt \in [Streams -> Seq(Boot..MaxTime)]
    OBVIOUS
  <2> QED
    BY <1>2, <1>3, <2>1, <2>2, NoneInEmptyBag DEF TypeOK, ThreadStates
<1>5. \A s \in Streams : Sent(s) = 0 /\ Len(file[s]) = 0
  BY DEF Sent
<1>6. Quiet /\ Threads /\ InCommon /\ Punctual
  BY <1>2, <1>3, <1>5 DEF Quiet, Threads, InCommon, Punctual, Waits, NeverBeforeOffset
<1> QED
  BY <1>4, <1>6 DEF IInv

LEMMA IInvInductive == IInv /\ [Next]_vars => IInv'
<1> SUFFICES ASSUME IInv, [Next]_vars
             PROVE  IInv'
  OBVIOUS
<1>1. CASE \/ \E k \in Senders, s \in Streams : Stamp(k, s)
           \/ \E k \in Senders, d \in Delays : Schedule(k, d)
           \/ \E k \in Senders : Post(k)
           \/ \E f \in BagToSet(pend) : Write(f)
  BY <1>1, RecordingKeeps
<1>2. CASE (\E s \in Streams : ReplayCmd(s)) \/ ReplaySyncCmd
  BY <1>2, CommandKeeps
<1>3. CASE \E s \in Streams : Thread(s)
  BY <1>3, ThreadMoves, FireKeeps DEF Thread
<1>4. CASE UNCHANGED vars
  BY <1>4 DEF vars, recording, IInv, TypeOK, Quiet, Threads, InCommon, Punctual, Waits, Due, Scaled,
              InTime, NeverBeforeOffset, Sent
<1> QED
  BY <1>1, <1>2, <1>3, <1>4, TickKeeps DEF Next

LEMMA Invariant == Spec => []IInv
  BY IInvInit, IInvInductive, PTL DEF Spec

\* Every variable keeps its type: a time that is waited for is a number of W bits, however
\* the subtraction wrapped and the product overflowed (vbusd.cpp:303-311).
THEOREM TypeCorrect == Spec => []TypeOK
<1>1. IInv => TypeOK
  BY DEF IInv
<1> QED
  BY <1>1, Invariant, PTL

\* As long as no scaled distance leaves the range of a time, no record that is in time is
\* replayed earlier than its scaled distance from the origin, in any mode and at any scale
\* (vbusd.cpp:305-311, 419-425, 507-513).
THEOREM NeverEarly ==
  ASSUME NoOverflow
  PROVE  Spec => []NeverBeforeOffset
<1>1. IInv => NeverBeforeOffset
  BY DEF IInv, Punctual
<1> QED
  BY <1>1, Invariant, PTL

\* Under the same condition the streams of a synchronised replay at a whole scale keep the
\* distances they had in the capture (vbusd.cpp:436-441).
THEOREM OneTimebase ==
  ASSUME NoOverflow
  PROVE  Spec => []SharedTimebase
<1>1. ASSUME IInv
      PROVE  SharedTimebase
  <2> SUFFICES ASSUME cmd.kind = "sync", cmd.scale[2] = 1, NEW s \in Streams, NEW t \in Streams,
                      Waits(s), Waits(t)
               PROVE  th[s].fireAt + Scaled(Due(t)) = th[t].fireAt + Scaled(Due(s))
    BY DEF SharedTimebase
  <2>1. TypeOK /\ cmd.scale[1] \in Nat
    BY <1>1, Scales2 DEF IInv
  <2>2. ASSUME NEW u \in {s, t}
        PROVE  Due(u) \in Nat
    <3>1. Sent(u) < Len(file[u]) /\ file[u] \in Seq(Boot..LastSend) /\ Sent(u) \in Nat
      BY <1>1 DEF IInv, TypeOK, Threads, Waits, Sent
    <3>2. Sent(u) + 1 \in 1..Len(file[u])
      <4>1. Len(file[u]) \in Nat
        BY <3>1
      <4> QED
        BY <3>1, <4>1
    <3> QED
      BY <3>1, <3>2, ElementOfSeq, ReplayAssumption DEF Due
  <2>3. PICK st, first :
          /\ st \in Nat /\ first \in Nat
          /\ \A u \in {s, t} : th[u].start = st /\ th[u].first = first
    BY <1>1, ReplayAssumption DEF IInv, TypeOK, InCommon
  <2>4. \A u \in {s, t} : th[u].fireAt = st + Scaled(Due(u) - first) /\ Due(u) >= first
    BY <1>1, <2>3 DEF IInv, Punctual, Waits, InTime, Due
  <2>5. \A x \in Nat : Scaled(x) = x * cmd.scale[1]
    BY <2>1 DEF Scaled
  <2>6. PICK a \in Nat, b \in Nat, k \in Nat : a = Due(s) /\ b = Due(t) /\ k = cmd.scale[1]
    BY <2>1, <2>2
  <2>7. /\ th[s].fireAt = st + (a - first) * k /\ th[t].fireAt = st + (b - first) * k
        /\ Scaled(a) = a * k /\ Scaled(b) = b * k
    BY <2>3, <2>4, <2>5, <2>6
  <2> QED
    BY <2>3, <2>6, <2>7
<1> QED
  BY <1>1, Invariant, PTL
=============================================================================
