--------------------------- MODULE AsyncLooperProofs ---------------------------
(***************************************************************************)
(* Proofs about AsyncLooper, for any producers, any messages of at least   *)
(* one byte and any sizes of the buffers.                                  *)
(***************************************************************************)
EXTENDS AsyncLooper, SequenceTheorems, FiniteSetTheorems, TLAPS

(***************************************************************************)
(* stop_ is set when the owner is in stop() and never reset, and the       *)
(* worker leaves only because of it.                                       *)
(***************************************************************************)
StopIsLast ==
  /\ stop <=> owner \in {"stopping", "joining", "destroyed"}
  /\ worker = "exited" => stop

(***************************************************************************)
(* Only a looper of fixed buffers makes a producer wait.                   *)
(***************************************************************************)
OnlySafeWaits == ~Safe => \A p \in Producers : producer[p] = "run"

(***************************************************************************)
(* The consumer buffer has data only while the worker writes it, so that   *)
(* a swap hands the producers an empty one.                                *)
(***************************************************************************)
Drained == worker # "flush" => empty(conBuf)

(***************************************************************************)
(* A buffer whose write index is 0 has no message: messages have a length. *)
(***************************************************************************)
EmptyHasNothing == \A b \in {proBuf, conBuf} : empty(b) => b.msgs = << >>

(***************************************************************************)
(* The log: what is written, in the consumer and in the production buffer. *)
(* Of each producer it has what push has taken.                            *)
(***************************************************************************)
log == written \o conBuf.msgs \o proBuf.msgs

CountOf(s, p) == Cardinality({i \in DOMAIN s : s[i][1] = p})

PushedIsLogged == \A p \in Producers : Channel!Mine(p) = pushed[p]

Control == StopIsLast /\ OnlySafeWaits /\ Drained /\ EmptyHasNothing

IInv == TypeOK /\ Control /\ BuffersHold /\ NoProducerStranded /\ PushedIsLogged

-----------------------------------------------------------------------------
(* Lemmas about push.                                                      *)

(***************************************************************************)
(* What a producer logs next is a message, and has a length.               *)
(***************************************************************************)
LEMMA NextHasLength ==
  ASSUME TypeOK, NEW p \in Producers, pushed[p] < Len(config.script[p])
  PROVE  /\ NextMessage(p) \in Message
         /\ LengthOf(NextMessage(p)) \in Nat \ {0}
         /\ pushed[p] + 1 \in DOMAIN config.script[p]
<1>1. config.script[p] \in Seq(Nat \ {0}) /\ pushed[p] \in Nat
  BY LooperAssumption DEF TypeOK
<1>2. Len(config.script[p]) \in Nat /\ pushed[p] + 1 \in 1 .. Len(config.script[p])
  BY <1>1, LenProperties
<1>3. config.script[p][pushed[p] + 1] \in Nat \ {0}
  BY <1>1, <1>2, ElementOfSeq
<1>4. DOMAIN config.script[p] = 1 .. Len(config.script[p])
  BY <1>1, LenProperties
<1> QED
  BY <1>1, <1>2, <1>3, <1>4 DEF NextMessage, LengthOf, Message

(***************************************************************************)
(* Buffer::push: the vector never shrinks, holds what is copied to it, and *)
(* keeps its size where there was room.                                    *)
(***************************************************************************)
LEMMA PushedHolds ==
  ASSUME NEW b \in Buffer, NEW m \in Message, LengthOf(m) \in Nat \ {0}
  PROVE  /\ Pushed(b, m) \in Buffer
         /\ Pushed(b, m).size >= b.size
         /\ LengthOf(m) <= writeAbleSize(b) => Pushed(b, m).size = b.size
         /\ b.writerIdx <= b.size => Pushed(b, m).writerIdx <= Pushed(b, m).size
         /\ ~empty(Pushed(b, m))
         /\ Pushed(b, m).msgs = Append(b.msgs, m)
<1>1. Append(b.msgs, m) \in Seq(Message)
  BY AppendProperties DEF Buffer
<1>2. /\ b.size \in Nat /\ b.writerIdx \in Nat
      /\ Threshold \in Nat /\ Increment \in Nat
  BY LooperAssumption DEF Buffer
<1>3. /\ Grown(b, LengthOf(m)) \in Nat
      /\ Grown(b, LengthOf(m)) >= b.size
      /\ LengthOf(m) <= writeAbleSize(b) => Grown(b, LengthOf(m)) = b.size
      /\ b.writerIdx <= b.size => b.writerIdx + LengthOf(m) <= Grown(b, LengthOf(m))
  BY <1>2 DEF Grown, writeAbleSize
<1> QED
  BY <1>1, <1>2, <1>3 DEF Pushed, Buffer, empty

(***************************************************************************)
(* The abstract channel counts in its log, which is this one.              *)
(***************************************************************************)
LEMMA MineIsCount ==
  ASSUME NEW p \in Producers
  PROVE  Channel!Mine(p) = CountOf(log, p)
BY DEF CountOf, Channel!Mine, log, Channel!Cardinality, Cardinality

-----------------------------------------------------------------------------
(* The inductive invariant.                                                *)

(***************************************************************************)
(* The looper begins with two empty buffers and nothing logged.            *)
(***************************************************************************)
LEMMA InitEstablishes == Init => IInv
<1> SUFFICES ASSUME Init PROVE IInv
  OBVIOUS
<1> USE LooperAssumption DEF Init
<1>1. TypeOK
  <2>1. /\ proBuf \in Buffer /\ proBuf.size >= BufferSize
        /\ conBuf \in Buffer /\ conBuf.size >= BufferSize
        /\ written \in Seq(Message)
    BY EmptySeq DEF Buffer, EmptyBuffer
  <2>2. ASSUME NEW p \in Producers PROVE pushed[p] <= Len(config.script[p])
    <3>1. config.script[p] \in Seq(Nat \ {0})
      OBVIOUS
    <3> QED
      BY <3>1, LenProperties
  <2>3. pushed \in [Producers -> Nat] /\ producer \in [Producers -> {"run", "waiting", "woken"}]
    OBVIOUS
  <2> QED
    BY <2>1, <2>2, <2>3 DEF TypeOK
<1>2. Control
  BY DEF Control, StopIsLast, OnlySafeWaits, Drained, EmptyHasNothing, empty, EmptyBuffer
<1>3. BuffersHold /\ NoProducerStranded
  BY DEF BuffersHold, readAbleSize, NoProducerStranded, Waiting, EmptyBuffer
<1>4. PushedIsLogged
  <2>1. log = << >>
    BY EmptySeq, ConcatEmptySeq DEF log, EmptyBuffer
  <2>2. ASSUME NEW p \in Producers PROVE Channel!Mine(p) = 0
    <3>1. DOMAIN log = {}
      BY <2>1
    <3>2. {i \in DOMAIN log : log[i][1] = p} = {}
      BY <3>1
    <3> QED
      BY <3>2, MineIsCount, FS_EmptySet DEF CountOf
  <2> QED
    BY <2>2 DEF PushedIsLogged
<1> QED
  BY <1>1, <1>2, <1>3, <1>4 DEF IInv

(***************************************************************************)
(* Every step keeps the types.                                             *)
(***************************************************************************)
LEMMA TypeStep ==
  ASSUME TypeOK, [Next]_vars
  PROVE  TypeOK'
<1> USE DEF TypeOK, bufferVars, ownerVars
<1>1. ASSUME NEW p \in Producers, push(p), PushWaits(p) PROVE TypeOK'
  BY <1>1 DEF push, PushWaits
<1>2. ASSUME NEW p \in Producers, push(p), PushStores(p) PROVE TypeOK'
  <2>1. /\ proBuf' \in Buffer /\ proBuf'.size >= proBuf.size
        /\ pushed[p] + 1 <= Len(config.script[p])
    <3>1. config.script[p] \in Seq(Nat \ {0}) /\ pushed[p] < Len(config.script[p])
      BY <1>2, LooperAssumption DEF push
    <3>2. pushed[p] + 1 <= Len(config.script[p])
      BY <3>1, LenProperties
    <3> QED
      BY <1>2, <3>1, <3>2, NextHasLength, PushedHolds DEF push, PushStores
  <2>2. proBuf'.size >= BufferSize
    BY <2>1, LooperAssumption DEF Buffer
  <2> QED
    BY <1>2, <2>1, <2>2 DEF push, PushStores, NotifyWorker
<1>3. ASSUME NEW p \in Producers, ProducerSpuriousWake(p) PROVE TypeOK'
  BY <1>3 DEF ProducerSpuriousWake
<1>4. CASE Top
  BY <1>4 DEF Top, Swap, BeginWait, NotifyProducer, Waiting
<1>5. CASE Block
  BY <1>5 DEF Block
<1>6. CASE SpuriousWake
  BY <1>6 DEF SpuriousWake
<1>7. CASE Timeout
  BY <1>7 DEF Timeout
<1>8. CASE Woken
  BY <1>8 DEF Woken, Swap, NotifyProducer, Waiting
<1>9. CASE TimedOut
  BY <1>9 DEF TimedOut, Swap, NotifyProducer, Waiting
<1>10. CASE Flush
  <2>1. written' \in Seq(Message)
    BY <1>10, ConcatProperties DEF Flush, Buffer
  <2>2. conBuf' \in Buffer /\ conBuf'.size = conBuf.size
    BY <1>10, EmptySeq DEF Flush, Reset, Buffer
  <2> QED
    BY <1>10, <2>1, <2>2 DEF Flush
<1>11. CASE Constructed
  BY <1>11 DEF Constructed
<1>12. CASE StopSet
  BY <1>12 DEF StopSet
<1>13. CASE StopNotify
  BY <1>13 DEF StopNotify, NotifyWorker
<1>14. CASE StopJoin
  BY <1>14 DEF StopJoin
<1>15. CASE UNCHANGED vars
  BY <1>15 DEF vars
<1> QED
  BY <1>1, <1>2, <1>3, <1>4, <1>5, <1>6, <1>7, <1>8, <1>9, <1>10, <1>11, <1>12, <1>13,
     <1>14, <1>15 DEF Next, threadEntry, push

(***************************************************************************)
(* What the control flow says about the buffers is kept.                   *)
(***************************************************************************)
LEMMA ControlStep ==
  ASSUME TypeOK, Control, [Next]_vars
  PROVE  Control'
<1> USE DEF Control, StopIsLast, OnlySafeWaits, Drained, EmptyHasNothing, Safe, empty, bufferVars, ownerVars
<1>1. ASSUME NEW p \in Producers, push(p), PushWaits(p) PROVE Control'
  BY <1>1 DEF push, PushWaits, HasRoom, Safe
<1>2. ASSUME NEW p \in Producers, push(p), PushStores(p) PROVE Control'
  <2>1. /\ NextMessage(p) \in Message /\ LengthOf(NextMessage(p)) \in Nat \ {0}
        /\ proBuf \in Buffer /\ proBuf' = Pushed(proBuf, NextMessage(p))
    BY <1>2, NextHasLength DEF TypeOK, push, PushStores
  <2>2. ~empty(proBuf') /\ proBuf'.msgs = Append(proBuf.msgs, NextMessage(p))
    BY <2>1, PushedHolds
  <2>3. /\ producer' = [producer EXCEPT ![p] = "run"]
        /\ producer \in [Producers -> {"run", "waiting", "woken"}]
    BY <1>2 DEF push, PushStores, TypeOK
  <2> QED
    BY <1>2, <2>2, <2>3 DEF push, PushStores, NotifyWorker
<1>3. ASSUME NEW p \in Producers, ProducerSpuriousWake(p) PROVE Control'
  <2>1. producer[p] # "run"
    BY <1>3 DEF ProducerSpuriousWake
  <2> QED
    BY <1>3, <2>1 DEF ProducerSpuriousWake
<1>4. CASE Top
  BY <1>4 DEF Top, Swap, BeginWait, NotifyProducer, Waiting
<1>5. CASE Block
  BY <1>5 DEF Block
<1>6. CASE SpuriousWake
  BY <1>6 DEF SpuriousWake
<1>7. CASE Timeout
  BY <1>7 DEF Timeout
<1>8. CASE Woken
  BY <1>8 DEF Woken, Swap, NotifyProducer, Waiting
<1>9. CASE TimedOut
  BY <1>9 DEF TimedOut, Swap, NotifyProducer, Waiting
<1>10. CASE Flush
  BY <1>10 DEF Flush, Reset, TypeOK, Buffer
<1>11. CASE Constructed
  BY <1>11 DEF Constructed
<1>12. CASE StopSet
  BY <1>12 DEF StopSet
<1>13. CASE StopNotify
  BY <1>13 DEF StopNotify, NotifyWorker
<1>14. CASE StopJoin
  BY <1>14 DEF StopJoin
<1>15. CASE UNCHANGED vars
  BY <1>15 DEF vars
<1> QED
  BY <1>1, <1>2, <1>3, <1>4, <1>5, <1>6, <1>7, <1>8, <1>9, <1>10, <1>11, <1>12, <1>13,
     <1>14, <1>15 DEF Next, threadEntry, push

(***************************************************************************)
(* Data stays inside the vector: where there was no room the buffer grew,  *)
(* and a fixed one is written only when there is.                          *)
(***************************************************************************)
LEMMA BuffersHoldStep ==
  ASSUME TypeOK, BuffersHold, [Next]_vars
  PROVE  BuffersHold'
<1> USE DEF BuffersHold, readAbleSize, Safe, bufferVars, ownerVars
<1>1. ASSUME NEW p \in Producers, push(p), PushWaits(p) PROVE BuffersHold'
  BY <1>1 DEF push, PushWaits
<1>2. ASSUME NEW p \in Producers, push(p), PushStores(p) PROVE BuffersHold'
  <2>1. /\ NextMessage(p) \in Message /\ LengthOf(NextMessage(p)) \in Nat \ {0}
        /\ proBuf \in Buffer /\ proBuf' = Pushed(proBuf, NextMessage(p))
    BY <1>2, NextHasLength DEF TypeOK, push, PushStores
  <2>2. proBuf.writerIdx <= proBuf.size
    OBVIOUS
  <2>3. proBuf'.writerIdx <= proBuf'.size
    BY <2>1, <2>2, PushedHolds
  <2>4. config.looperType = "ASYNC_SAFE" => proBuf'.size = proBuf.size
    BY <2>1, <1>2, PushedHolds DEF PushStores, HasRoom
  <2>5. conBuf' = conBuf /\ config' = config
    BY <1>2 DEF push
  <2> QED
    BY <2>3, <2>4, <2>5
<1>3. ASSUME NEW p \in Producers, ProducerSpuriousWake(p) PROVE BuffersHold'
  BY <1>3 DEF ProducerSpuriousWake
<1>4. CASE Top
  BY <1>4 DEF Top, Swap, BeginWait
<1>5. CASE Block
  BY <1>5 DEF Block
<1>6. CASE SpuriousWake
  BY <1>6 DEF SpuriousWake
<1>7. CASE Timeout
  BY <1>7 DEF Timeout
<1>8. CASE Woken
  BY <1>8 DEF Woken, Swap
<1>9. CASE TimedOut
  BY <1>9 DEF TimedOut, Swap
<1>10. CASE Flush
  <2>1. conBuf'.size = conBuf.size /\ conBuf'.writerIdx = 0 /\ conBuf.size \in Nat
    BY <1>10 DEF Flush, Reset, TypeOK, Buffer
  <2>2. proBuf' = proBuf /\ config' = config
    BY <1>10 DEF Flush
  <2> QED
    BY <2>1, <2>2
<1>11. CASE Constructed
  BY <1>11 DEF Constructed
<1>12. CASE StopSet
  BY <1>12 DEF StopSet
<1>13. CASE StopNotify
  BY <1>13 DEF StopNotify
<1>14. CASE StopJoin
  BY <1>14 DEF StopJoin
<1>15. CASE UNCHANGED vars
  BY <1>15 DEF vars
<1> QED
  BY <1>1, <1>2, <1>3, <1>4, <1>5, <1>6, <1>7, <1>8, <1>9, <1>10, <1>11, <1>12, <1>13,
     <1>14, <1>15 DEF Next, threadEntry, push

(***************************************************************************)
(* One notify_one per swap is enough.  A producer waits only when a message*)
(* that would fit into the empty buffer does not fit into this one, so that*)
(* there is data; a swap takes the data away and wakes a producer.         *)
(***************************************************************************)
LEMMA NotStrandedStep ==
  ASSUME TypeOK, Control, BuffersHold, NoProducerStranded, [Next]_vars
  PROVE  NoProducerStranded'
<1> SUFFICES ASSUME \A p \in Producers : Fits(p)', Waiting' # {}, empty(proBuf')
             PROVE  \E p \in Producers : producer'[p] = "woken"
  BY DEF NoProducerStranded
<1> USE DEF Waiting, Control, OnlySafeWaits, NoProducerStranded, Fits, empty, TypeOK, bufferVars, ownerVars
<1>1. ASSUME NEW p \in Producers, push(p), PushWaits(p)
      PROVE  \E q \in Producers : producer'[q] = "woken"
  <2>1. pushed[p] + 1 \in DOMAIN config.script[p]
    BY <1>1, NextHasLength DEF push
  <2>2. LengthOf(NextMessage(p)) <= BufferSize
    BY <1>1, <2>1 DEF push, LengthOf, NextMessage
  <2>3. proBuf.size = BufferSize /\ proBuf.size - proBuf.writerIdx < LengthOf(NextMessage(p))
    BY <1>1, NextHasLength DEF push, PushWaits, HasRoom, writeAbleSize, BuffersHold,
       Buffer
  <2>4. proBuf.writerIdx > 0
    BY <2>2, <2>3, <1>1, NextHasLength, LooperAssumption, SMTT(30) DEF push, Buffer
  <2> QED
    BY <2>4, <1>1 DEF PushWaits
<1>2. ASSUME NEW p \in Producers, push(p), PushStores(p)
      PROVE  \E q \in Producers : producer'[q] = "woken"
  <2>1. /\ NextMessage(p) \in Message /\ LengthOf(NextMessage(p)) \in Nat \ {0}
        /\ proBuf \in Buffer /\ proBuf' = Pushed(proBuf, NextMessage(p))
    BY <1>2, NextHasLength DEF TypeOK, push, PushStores
  <2>2. ~empty(proBuf')
    BY <2>1, PushedHolds
  <2> QED
    BY <2>2
<1>3. ASSUME NEW p \in Producers, ProducerSpuriousWake(p)
      PROVE  \E q \in Producers : producer'[q] = "woken"
  BY <1>3 DEF ProducerSpuriousWake
<1>4. CASE Top
  BY <1>4 DEF Top, Swap, BeginWait, NotifyProducer, Waiting
<1>5. CASE Block
  BY <1>5 DEF Block
<1>6. CASE SpuriousWake
  BY <1>6 DEF SpuriousWake
<1>7. CASE Timeout
  BY <1>7 DEF Timeout
<1>8. CASE Woken
  BY <1>8 DEF Woken, Swap, NotifyProducer, Waiting
<1>9. CASE TimedOut
  BY <1>9 DEF TimedOut, Swap, NotifyProducer, Waiting
<1>10. CASE Flush
  BY <1>10 DEF Flush
<1>11. CASE Constructed
  BY <1>11 DEF Constructed
<1>12. CASE StopSet
  BY <1>12 DEF StopSet
<1>13. CASE StopNotify
  BY <1>13 DEF StopNotify, NotifyWorker
<1>14. CASE StopJoin
  BY <1>14 DEF StopJoin
<1>15. CASE UNCHANGED vars
  BY <1>15 DEF vars
<1> QED
  BY <1>1, <1>2, <1>3, <1>4, <1>5, <1>6, <1>7, <1>8, <1>9, <1>10, <1>11, <1>12, <1>13,
     <1>14, <1>15 DEF Next, threadEntry, push

-----------------------------------------------------------------------------
(* The log.                                                                *)

(***************************************************************************)
(* Appending to the second of two sequences appends to both in a row.      *)
(***************************************************************************)
LEMMA AppendOfConcat ==
  ASSUME NEW S, NEW s \in Seq(S), NEW t \in Seq(S), NEW e \in S
  PROVE  s \o Append(t, e) = Append(s \o t, e)
<1>1. Append(t, e) = t \o << e >> /\ << e >> \in Seq(S)
  BY AppendIsConcat
<1>2. s \o t \in Seq(S)
  BY ConcatProperties
<1>3. Append(s \o t, e) = (s \o t) \o << e >>
  BY <1>2, AppendIsConcat
<1> QED
  BY <1>1, <1>3, ConcatAssociative

(***************************************************************************)
(* Three buffers in a row: what leaves the front of one for the end of the *)
(* one before it stays where it is in the log.                             *)
(***************************************************************************)
LEMMA LogType ==
  ASSUME TypeOK
  PROVE  /\ written \in Seq(Message) /\ conBuf.msgs \in Seq(Message) /\ proBuf.msgs \in Seq(Message)
         /\ log \in Seq(Message)
         /\ Len(written) \in Nat /\ Len(conBuf.msgs) \in Nat /\ Len(proBuf.msgs) \in Nat
         /\ Len(log) = Len(written) + Len(conBuf.msgs) + Len(proBuf.msgs)
<1>1. written \in Seq(Message) /\ conBuf.msgs \in Seq(Message) /\ proBuf.msgs \in Seq(Message)
  BY DEF TypeOK, Buffer
<1>2. /\ written \o conBuf.msgs \in Seq(Message)
      /\ Len(written \o conBuf.msgs) = Len(written) + Len(conBuf.msgs)
  BY <1>1, ConcatProperties
<1>3. /\ log \in Seq(Message)
      /\ Len(log) = Len(written \o conBuf.msgs) + Len(proBuf.msgs)
  BY <1>1, <1>2, ConcatProperties DEF log
<1> QED
  BY <1>1, <1>2, <1>3, LenProperties

(***************************************************************************)
(* push appends one message to the log, and no other step changes it.      *)
(***************************************************************************)
LEMMA PushAppends ==
  ASSUME TypeOK, NEW p \in Producers, push(p), PushStores(p)
  PROVE  log' = Append(log, NextMessage(p))
<1>1. NextMessage(p) \in Message /\ LengthOf(NextMessage(p)) \in Nat \ {0} /\ proBuf \in Buffer
  BY NextHasLength DEF TypeOK, push
<1>2. proBuf'.msgs = Append(proBuf.msgs, NextMessage(p))
  BY <1>1, PushedHolds DEF PushStores
<1>3. written' = written /\ conBuf' = conBuf
  BY DEF push
<1> DEFINE front == written \o conBuf.msgs
           back  == proBuf.msgs
           m     == NextMessage(p)
<1>4. log' = front \o Append(back, m) /\ log = front \o back
  BY <1>2, <1>3 DEF log
<1>5. front \in Seq(Message) /\ back \in Seq(Message) /\ m \in Message
  BY <1>1, LogType, ConcatProperties
<1> HIDE DEF front, back, m
<1>6. front \o Append(back, m) = Append(front \o back, m)
  BY <1>5, AppendOfConcat
<1> QED
  BY <1>4, <1>6 DEF m

(***************************************************************************)
(* A swap happens only when the consumer buffer is empty.                  *)
(***************************************************************************)
LEMMA SwapKeepsLog ==
  ASSUME TypeOK, Control, worker # "flush", Swap, UNCHANGED written
  PROVE  log' = log
<1>1. conBuf.msgs = << >>
  BY DEF Control, Drained, EmptyHasNothing
<1>2. conBuf'.msgs = proBuf.msgs /\ proBuf'.msgs = << >>
  BY <1>1 DEF Swap
<1>3. written \o << >> = written /\ (written \o proBuf.msgs) \o << >> = written \o proBuf.msgs
  BY LogType, ConcatProperties, ConcatEmptySeq
<1> QED
  BY <1>1, <1>2, <1>3 DEF log

(***************************************************************************)
(* Every step that pushes nothing leaves the log as it is: a swap puts an  *)
(* empty buffer in front of the other, and a flush moves its boundary.     *)
(***************************************************************************)
LEMMA LogIsKept ==
  ASSUME TypeOK, Control, [Next]_vars, \A p \in Producers : ~(push(p) /\ PushStores(p))
  PROVE  log' = log
<1> USE DEF bufferVars, ownerVars
<1>1. ASSUME NEW p \in Producers, push(p), PushWaits(p) PROVE log' = log
  BY <1>1 DEF push, PushWaits, log
<1>2. ASSUME NEW p \in Producers, ProducerSpuriousWake(p) PROVE log' = log
  BY <1>2 DEF ProducerSpuriousWake, log
<1>3. CASE Top
  <2>1. CASE Swap
    BY <2>1, <1>3, SwapKeepsLog DEF Top
  <2>2. CASE UNCHANGED <<proBuf, conBuf>>
    BY <2>2, <1>3 DEF Top, log
  <2> QED
    BY <2>1, <2>2, <1>3 DEF Top, BeginWait
<1>4. CASE Block
  BY <1>4 DEF Block, log
<1>5. CASE SpuriousWake
  BY <1>5 DEF SpuriousWake, log
<1>6. CASE Timeout
  BY <1>6 DEF Timeout, log
<1>7. CASE Woken
  <2>1. CASE Swap
    BY <2>1, <1>7, SwapKeepsLog DEF Woken
  <2>2. CASE UNCHANGED <<proBuf, conBuf>>
    BY <2>2, <1>7 DEF Woken, log
  <2> QED
    BY <2>1, <2>2, <1>7 DEF Woken
<1>8. CASE TimedOut
  <2>1. CASE Swap
    BY <2>1, <1>8, SwapKeepsLog DEF TimedOut
  <2>2. CASE UNCHANGED <<proBuf, conBuf>>
    BY <2>2, <1>8 DEF TimedOut, log
  <2> QED
    BY <2>1, <2>2, <1>8 DEF TimedOut
<1>9. CASE Flush
  <2>1. written' = written \o conBuf.msgs /\ conBuf'.msgs = << >> /\ proBuf' = proBuf
    BY <1>9 DEF Flush, Reset, TypeOK, Buffer
  <2>2. written \o conBuf.msgs \in Seq(Message)
    BY LogType, ConcatProperties
  <2>3. (written \o conBuf.msgs) \o << >> = written \o conBuf.msgs
    BY <2>2, ConcatEmptySeq
  <2> QED
    BY <2>1, <2>3 DEF log
<1>10. CASE Constructed
  BY <1>10 DEF Constructed, log
<1>11. CASE StopSet
  BY <1>11 DEF StopSet, log
<1>12. CASE StopNotify
  BY <1>12 DEF StopNotify, log
<1>13. CASE StopJoin
  BY <1>13 DEF StopJoin, log
<1>14. CASE UNCHANGED vars
  BY <1>14 DEF vars, log
<1> QED
  BY <1>1, <1>2, <1>3, <1>4, <1>5, <1>6, <1>7, <1>8, <1>9, <1>10, <1>11, <1>12, <1>13,
     <1>14 DEF Next, threadEntry, push

(***************************************************************************)
(* Appending a message counts for its producer and for no other.           *)
(***************************************************************************)
LEMMA AppendCounts ==
  ASSUME NEW s \in Seq(Message), NEW m \in Message, NEW p \in Producers
  PROVE  CountOf(Append(s, m), p) = CountOf(s, p) + (IF m[1] = p THEN 1 ELSE 0)
<1> DEFINE Of(q) == {i \in DOMAIN q : q[i][1] = p}
<1>1. /\ DOMAIN s = 1 .. Len(s) /\ DOMAIN Append(s, m) = 1 .. Len(s) + 1 /\ Len(s) \in Nat
      /\ \A i \in 1 .. Len(s) : Append(s, m)[i] = s[i]
      /\ Append(s, m)[Len(s) + 1] = m
  BY AppendProperties, LenProperties
<1>2. 1 .. Len(s) + 1 = (1 .. Len(s)) \cup {Len(s) + 1} /\ Len(s) + 1 \notin 1 .. Len(s)
  BY <1>1
<1>3. Of(Append(s, m)) = IF m[1] = p THEN Of(s) \cup {Len(s) + 1} ELSE Of(s)
  BY <1>1, <1>2
<1>4. IsFiniteSet(Of(s))
  <2>1. IsFiniteSet(1 .. Len(s)) /\ Of(s) \subseteq 1 .. Len(s)
    BY <1>1, FS_Interval
  <2> QED
    BY <2>1, FS_Subset
<1>5. CountOf(s, p) \in Nat
  BY <1>4, FS_CardinalityType DEF CountOf
<1>6. CASE m[1] = p
  <2>1. Len(s) + 1 \notin Of(s)
    BY <1>1, <1>2
  <2>2. Cardinality(Of(s) \cup {Len(s) + 1}) = Cardinality(Of(s)) + 1
    BY <2>1, <1>4, FS_AddElement
  <2>3. CountOf(Append(s, m), p) = CountOf(s, p) + 1
    BY <2>2, <1>3, <1>6 DEF CountOf
  <2> QED
    BY <2>3, <1>6
<1>7. CASE m[1] # p
  <2>1. CountOf(Append(s, m), p) = CountOf(s, p)
    BY <1>3, <1>7 DEF CountOf
  <2> QED
    BY <2>1, <1>5, <1>7
<1> QED
  BY <1>6, <1>7

(***************************************************************************)
(* The log has of each producer as many messages as push has taken.        *)
(***************************************************************************)
LEMMA LoggedStep ==
  ASSUME TypeOK, Control, PushedIsLogged, [Next]_vars
  PROVE  PushedIsLogged'
<1>1. \A p \in Producers : CountOf(log, p) = pushed[p]
  BY MineIsCount DEF PushedIsLogged
<1>2. SUFFICES \A p \in Producers : CountOf(log', p) = pushed'[p]
  <2>1. \A p \in Producers : Channel!Mine(p)' = CountOf(log', p)
    BY DEF CountOf, Channel!Mine, log, Channel!Cardinality, Cardinality
  <2> QED
    BY <1>2, <2>1 DEF PushedIsLogged
<1>3. ASSUME NEW q \in Producers, push(q), PushStores(q), NEW p \in Producers
      PROVE  CountOf(log', p) = pushed'[p]
  <2>1. log' = Append(log, NextMessage(q)) /\ NextMessage(q) \in Message /\ NextMessage(q)[1] = q
    BY <1>3, PushAppends, NextHasLength DEF push, NextMessage
  <2>2. CountOf(log', p) = CountOf(log, p) + (IF q = p THEN 1 ELSE 0)
    BY <2>1, LogType, AppendCounts
  <2>3. pushed'[p] = pushed[p] + (IF q = p THEN 1 ELSE 0)
    BY <1>3 DEF PushStores, TypeOK
  <2> QED
    BY <2>2, <2>3, <1>1
<1>4. ASSUME \A p \in Producers : ~(push(p) /\ PushStores(p))
      PROVE  log' = log /\ pushed' = pushed
  <2>1. pushed' = pushed
    BY <1>4 DEF Next, push, PushWaits, ProducerSpuriousWake, threadEntry, Top, Block,
       SpuriousWake,
           Timeout, Woken, TimedOut, Flush, Constructed, StopSet, StopNotify, StopJoin, vars
  <2> QED
    BY <2>1, <1>4, LogIsKept
<1> QED
  BY <1>1, <1>3, <1>4

(***************************************************************************)
(* Everything above holds always.                                          *)
(***************************************************************************)
THEOREM Invariance == Spec => []IInv
<1>1. IInv /\ [Next]_vars => IInv'
  BY TypeStep, ControlStep, BuffersHoldStep, NotStrandedStep, LoggedStep DEF IInv
<1> QED
  BY InitEstablishes, <1>1, PTL DEF Spec

(***************************************************************************)
(* Every variable keeps its type, and no buffer is ever smaller than it was*)
(* made.                                                                   *)
(***************************************************************************)
THEOREM TypeCorrect == Spec => []TypeOK
<1>1. IInv => TypeOK
  BY DEF IInv
<1> QED
  BY Invariance, <1>1, PTL

(***************************************************************************)
(* No push writes past the end of the vector, in either kind of looper, and*)
(* a fixed buffer never grows.                                             *)
(***************************************************************************)
THEOREM DataStaysInside == Spec => []BuffersHold
<1>1. IInv => BuffersHold
  BY DEF IInv
<1> QED
  BY Invariance, <1>1, PTL

(***************************************************************************)
(* Waking one producer per swap strands nobody, if every message fits into *)
(* an empty buffer.                                                        *)
(***************************************************************************)
THEOREM NobodyIsStranded == Spec => []NoProducerStranded
<1>1. IInv => NoProducerStranded
  BY DEF IInv
<1> QED
  BY Invariance, <1>1, PTL

-----------------------------------------------------------------------------
(* The refinement.                                                         *)

(***************************************************************************)
(* A push that stores accepts a message, the next one of its producer.     *)
(***************************************************************************)
LEMMA PushAccepts ==
  ASSUME IInv, NEW p \in Producers, push(p), PushStores(p)
  PROVE  Channel!Accept(p)
<1> USE DEF IInv
<1>1. log' = Append(log, <<p, Channel!Mine(p) + 1>>)
  BY PushAppends DEF NextMessage, PushedIsLogged
<1>2. worker # "exited" /\ worker' # "exited" /\ written' = written
  BY DEF push, PushStores, NotifyWorker, Control, StopIsLast, ownerVars
<1> QED
  BY <1>1, <1>2 DEF Channel!Accept, log

(***************************************************************************)
(* A flush writes the whole consumer buffer, if it has something.          *)
(***************************************************************************)
LEMMA FlushWrites ==
  ASSUME IInv, Flush
  PROVE  Channel!Write \/ UNCHANGED Channel!vars
<1> USE DEF IInv
<1>1. \A p \in Producers : ~(push(p) /\ PushStores(p))
  BY DEF Flush, push, PushStores, NotifyWorker
<1>2. log' = log
  BY <1>1, LogIsKept DEF Next, threadEntry
<1>3. worker # "exited" /\ worker' # "exited" /\ written' = written \o conBuf.msgs
  BY DEF Flush
<1>4. Len(written') = Len(written) + Len(conBuf.msgs)
  BY <1>3, LogType, ConcatProperties
<1>5. CASE Len(conBuf.msgs) = 0
  BY <1>2, <1>3, <1>4, <1>5, LogType DEF Channel!vars, log
<1>6. CASE Len(conBuf.msgs) # 0
  <2>1. /\ Len(written) \in Nat /\ Len(conBuf.msgs) \in Nat /\ Len(proBuf.msgs) \in Nat
        /\ Len(log) = Len(written) + Len(conBuf.msgs) + Len(proBuf.msgs)
    BY LogType
  <2>2. \A a, b, c \in Nat : b # 0 => a + b \in a + 1 .. a + b + c
    OBVIOUS
  <2>3. Len(written') \in Len(written) + 1 .. Len(log)
    BY <2>1, <2>2, <1>4, <1>6, Zenon
  <2> QED
    BY <2>3, <1>2, <1>3 DEF Channel!Write, log
<1> QED
  BY <1>5, <1>6

(***************************************************************************)
(* The worker leaves when all of the log is written.                       *)
(***************************************************************************)
LEMMA ExitCloses ==
  ASSUME IInv, Top, worker' = "exited"
  PROVE  Channel!Close
<1> USE DEF IInv
<1>1. /\ worker = "top" /\ empty(proBuf)
      /\ UNCHANGED <<written, proBuf, conBuf>>
  BY DEF Top, Swap, BeginWait
<1>2. conBuf.msgs = << >> /\ proBuf.msgs = << >>
  BY <1>1 DEF Control, Drained, EmptyHasNothing
<1>3. Len(written) = Len(log)
  BY <1>2, LogType
<1> QED
  BY <1>1, <1>3 DEF Channel!Close, log

(***************************************************************************)
(* Every step of the looper is one of the channel, or none.                *)
(***************************************************************************)
LEMMA RefinementStep ==
  ASSUME IInv, [Next]_vars
  PROVE  [Channel!Next]_Channel!vars
<1>1. ASSUME NEW p \in Producers, push(p), PushStores(p) PROVE Channel!Next
  BY <1>1, PushAccepts DEF Channel!Next
<1>2. CASE Flush
  BY <1>2, FlushWrites DEF Channel!Next
<1>3. CASE Top /\ worker' = "exited"
  BY <1>3, ExitCloses DEF Channel!Next
<1>4. ASSUME \A p \in Producers : ~(push(p) /\ PushStores(p)),
             ~Flush, ~(Top /\ worker' = "exited")
      PROVE  UNCHANGED Channel!vars
  <2>1. log' = log
    BY <1>4, LogIsKept DEF IInv
  <2>2. written' = written /\ (worker = "exited" <=> worker' = "exited")
    BY <1>4 DEF Next, push, PushWaits, ProducerSpuriousWake, threadEntry, Top, Block,
       SpuriousWake,
           Timeout, Woken, TimedOut, Swap, BeginWait, Constructed, StopSet, StopNotify, StopJoin,
           NotifyWorker, bufferVars, vars
  <2> QED
    BY <2>1, <2>2 DEF Channel!vars, log
<1> QED
  BY <1>1, <1>2, <1>3, <1>4

(***************************************************************************)
(* Two buffers that change places, two condition variables and a worker    *)
(* that writes without the lock implement the abstract log: every message  *)
(* once, each producer's in order, and all of it written at the end.       *)
(***************************************************************************)
THEOREM LooperImplementsLogChannel == Spec => ImplementsLogChannel
<1>1. Init => Channel!Init
  <2> SUFFICES ASSUME Init PROVE Channel!Init
    OBVIOUS
  <2>1. log = << >> /\ written = << >> /\ worker # "exited"
    BY EmptySeq, ConcatEmptySeq DEF Init, EmptyBuffer, log
  <2>2. Len(written) = 0
    BY <2>1, EmptySeq
  <2> QED
    BY <2>1, <2>2 DEF Channel!Init, log
<1>2. IInv /\ [Next]_vars => [Channel!Next]_Channel!vars
  BY RefinementStep
<1> QED
  BY <1>1, <1>2, Invariance, PTL DEF Spec, ImplementsLogChannel, Channel!Spec
=============================================================================
