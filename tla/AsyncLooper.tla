----------------------------- MODULE AsyncLooper -----------------------------
(***************************************************************************)
(* The engine of zlog's asynchronous logger: producers append to proBuf_,  *)
(* one worker thread swaps it with conBuf_ and hands that to the sinks.    *)
(* Two condition variables on one mutex: condPro_ for producers that find  *)
(* no room (ASYNC_SAFE, fixed buffers), condCon_ for the worker that waits *)
(* for half a buffer of data, for stop, or for its timeout.                *)
(*                                                                         *)
(* A step is a critical section of mutex_, with two exceptions: the worker *)
(* evaluates its wait predicate in one step and blocks in the next, with   *)
(* mutex_ held in between, because stop() sets stop_ and notifies without  *)
(* that lock.                                                              *)
(***************************************************************************)
EXTENDS Naturals, Sequences, SequencesExt, FiniteSets

CONSTANTS
  Producers,    (* the threads that log                                    *)
  Scripts,      (* what they may log: for each, the lengths of its messages*)
  BufferSize,   (* DEFAULT_BUFFER_SIZE                                     *)
  Threshold,    (* THRESHOLD_BUFFER_SIZE                                   *)
  Increment     (* INCREMENT_BUFFER_SIZE                                   *)

ASSUME LooperAssumption ==
  /\ BufferSize \in Nat \ {0} /\ Threshold \in Nat /\ Increment \in Nat
  /\ \A s \in Scripts : s \in [Producers -> Seq(Nat \ {0})]

FlushSize == BufferSize \div 2

VARIABLES
  config,    (* looperType_ and what the producers will log                *)
  proBuf,    (* proBuf_: its messages, the size of its vector, writerIdx_  *)
  conBuf,    (* conBuf_                                                    *)
  pushed,    (* how many messages each producer has pushed                 *)
  producer,  (* where each producer is in push                             *)
  worker,    (* where the worker is in threadEntry                         *)
  patience,  (* does the wait_for it is in ever time out                   *)
  stop,      (* stop_                                                      *)
  owner,     (* where the owner of the looper is: constructor ... stop     *)
  written    (* history: what callBack_ was given                          *)

vars == <<config, proBuf, conBuf, pushed, producer, worker, patience, stop,
          owner, written>>
bufferVars == <<proBuf, conBuf, written>>
ownerVars  == <<stop, owner>>

Safe == config.looperType = "ASYNC_SAFE"

(* A message is <<producer, number>>; its length is in the script.         *)
Message == Producers \X (Nat \ {0})
LengthOf(m) == config.script[m[1]][m[2]]
NextMessage(p) == <<p, pushed[p] + 1>>

Buffer == [msgs : Seq(Message), size : Nat, writerIdx : Nat]

TypeOK ==
  /\ config \in [looperType : {"ASYNC_SAFE", "ASYNC_UNSAFE"}, script : Scripts]
  /\ proBuf \in Buffer /\ proBuf.size >= BufferSize
  /\ conBuf \in Buffer /\ conBuf.size >= BufferSize
  /\ pushed \in [Producers -> Nat]
  /\ \A p \in Producers : pushed[p] <= Len(config.script[p])
  /\ producer \in [Producers -> {"run", "waiting", "woken"}]
  /\ worker \in {"top", "blocking", "blocked", "woken", "timedout", "flush", "exited"}
  /\ patience \in {"finite", "unbounded"}
  /\ stop \in BOOLEAN
  /\ owner \in {"constructing", "logging", "stopping", "joining", "destroyed"}
  /\ written \in Seq(Message)

EmptyBuffer == [msgs |-> << >>, size |-> BufferSize, writerIdx |-> 0]

(* The thread starts inside the constructor, at the member thread_.        *)
Init ==
  /\ config \in [looperType : {"ASYNC_SAFE", "ASYNC_UNSAFE"}, script : Scripts]
  /\ proBuf = EmptyBuffer
  /\ conBuf = EmptyBuffer
  /\ pushed = [p \in Producers |-> 0]
  /\ producer = [p \in Producers |-> "run"]
  /\ worker = "top"
  /\ patience = "finite"
  /\ stop = FALSE
  /\ owner = "constructing"
  /\ written = << >>

-----------------------------------------------------------------------------
(* Buffer.  readerIdx_ is always 0: nobody calls moveReader.               *)

readAbleSize(b)  == b.writerIdx
writeAbleSize(b) == b.size - b.writerIdx
empty(b) == b.writerIdx = 0

(* Mutant: resize to the length of the message alone.                      *)
GrownToLength(b, len) == IF len <= writeAbleSize(b) THEN b.size ELSE len

(* ensureEnoughSize: double below the threshold, then grow by steps.       *)
Grown(b, len) ==
  IF len <= writeAbleSize(b) THEN b.size
  ELSE IF b.size < Threshold THEN b.size * 2 + len
  ELSE b.size + Increment + len

Pushed(b, m) ==
  [msgs      |-> Append(b.msgs, m),
   size      |-> Grown(b, LengthOf(m)),
   writerIdx |-> b.writerIdx + LengthOf(m)]

Reset(b) == [b EXCEPT !.msgs = << >>, !.writerIdx = 0]

-----------------------------------------------------------------------------
(* push, and the worker that holds mutex_ across two steps.                *)

MutexFree == worker # "blocking"

(* condCon_.notify_one / notify_all: only the worker waits on condCon_.    *)
NotifyWorker == worker' = IF worker = "blocked" THEN "woken" ELSE worker

(* Mutant: any room is room enough.                                        *)
HasSomeRoom(p) == ~Safe \/ writeAbleSize(proBuf) > 0

HasRoom(p) == ~Safe \/ writeAbleSize(proBuf) >= LengthOf(NextMessage(p))

PushWaits(p) ==
  /\ ~HasRoom(p)
  /\ producer' = [producer EXCEPT ![p] = "waiting"]
  /\ UNCHANGED <<proBuf, pushed, worker>>

PushStores(p) ==
  /\ HasRoom(p)
  /\ proBuf' = Pushed(proBuf, NextMessage(p))
  /\ pushed' = [pushed EXCEPT ![p] = @ + 1]
  /\ producer' = [producer EXCEPT ![p] = "run"]
  /\ IF readAbleSize(proBuf') >= FlushSize THEN NotifyWorker ELSE UNCHANGED worker

push(p) ==
  /\ producer[p] \in {"run", "woken"} /\ MutexFree
  /\ owner = "logging" /\ pushed[p] < Len(config.script[p])
  /\ PushWaits(p) \/ PushStores(p)
  /\ UNCHANGED <<config, conBuf, patience, ownerVars, written>>

ProducerSpuriousWake(p) ==
  /\ producer[p] = "waiting"
  /\ producer' = [producer EXCEPT ![p] = "woken"]
  /\ UNCHANGED <<config, bufferVars, pushed, worker, patience, ownerVars>>

-----------------------------------------------------------------------------
(* threadEntry.                                                            *)

Ready == readAbleSize(proBuf) >= FlushSize \/ stop

(* condPro_.notify_one, which only an ASYNC_SAFE looper calls.             *)
Waiting == {p \in Producers : producer[p] = "waiting"}

(* Mutant: the swap wakes no producer.                                     *)
NotifyNobody == UNCHANGED producer

NotifyProducer ==
  \/ /\ ~Safe \/ Waiting = {}
     /\ UNCHANGED producer
  \/ /\ Safe
     /\ \E p \in Waiting : producer' = [producer EXCEPT ![p] = "woken"]

Swap ==
  /\ proBuf' = conBuf
  /\ conBuf' = proBuf
  /\ NotifyProducer
  /\ worker' = "flush"
  /\ UNCHANGED patience

(***************************************************************************)
(* milliseco_ is initialized after thread_: a wait_for that begins before  *)
(* the constructor is done reads an indeterminate timeout.                 *)
(***************************************************************************)
BeginWait ==
  /\ worker' = "blocking"
  /\ patience' \in (IF owner = "constructing" THEN {"finite", "unbounded"} ELSE {"finite"})
  /\ UNCHANGED <<proBuf, conBuf, producer>>

(* Mutants: the worker leaves as soon as stop_ is set, ...                 *)
TopExitsEarly ==
  /\ worker = "top"
  /\ \/ /\ stop
        /\ worker' = "exited"
        /\ UNCHANGED <<proBuf, conBuf, producer, patience>>
     \/ ~stop /\ Ready /\ Swap
     \/ ~Ready /\ BeginWait
  /\ UNCHANGED <<config, pushed, ownerVars, written>>

(* ... or only while there is data.                                        *)
TopExitsWithData ==
  /\ worker = "top"
  /\ \/ /\ ~empty(proBuf) /\ stop
        /\ worker' = "exited"
        /\ UNCHANGED <<proBuf, conBuf, producer, patience>>
     \/ ~(~empty(proBuf) /\ stop) /\ Ready /\ Swap
     \/ ~Ready /\ BeginWait
  /\ UNCHANGED <<config, pushed, ownerVars, written>>

Top ==
  /\ worker = "top"
  /\ \/ /\ empty(proBuf) /\ stop
        /\ worker' = "exited"
        /\ UNCHANGED <<proBuf, conBuf, producer, patience>>
     \/ ~(empty(proBuf) /\ stop) /\ Ready /\ Swap
     \/ ~Ready /\ BeginWait
  /\ UNCHANGED <<config, pushed, ownerVars, written>>

Block ==
  /\ worker = "blocking"
  /\ worker' = "blocked"
  /\ UNCHANGED <<config, bufferVars, pushed, producer, patience, ownerVars>>

SpuriousWake ==
  /\ worker = "blocked"
  /\ worker' = "woken"
  /\ UNCHANGED <<config, bufferVars, pushed, producer, patience, ownerVars>>

Timeout ==
  /\ worker = "blocked" /\ patience = "finite"
  /\ worker' = "timedout"
  /\ UNCHANGED <<config, bufferVars, pushed, producer, patience, ownerVars>>

(* Awake with mutex_: the predicate decides, or the wait goes on.          *)
Woken ==
  /\ worker = "woken"
  /\ \/ Ready /\ Swap
     \/ /\ ~Ready
        /\ worker' = "blocking"
        /\ UNCHANGED <<proBuf, conBuf, producer, patience>>
  /\ UNCHANGED <<config, pushed, ownerVars, written>>

(* Mutant: after the timeout less than half a buffer is left alone.        *)
TimedOutKeeps ==
  /\ worker = "timedout"
  /\ \/ Ready /\ Swap
     \/ /\ ~Ready
        /\ worker' = "top"
        /\ UNCHANGED <<proBuf, conBuf, producer, patience>>
  /\ UNCHANGED <<config, pushed, ownerVars, written>>

(* After the timeout whatever is there is flushed.                         *)
TimedOut ==
  /\ worker = "timedout"
  /\ \/ /\ Ready \/ ~empty(proBuf)
        /\ Swap
     \/ /\ ~Ready /\ empty(proBuf)
        /\ worker' = "top"
        /\ UNCHANGED <<proBuf, conBuf, producer, patience>>
  /\ UNCHANGED <<config, pushed, ownerVars, written>>

(* callBack_ and reset, without mutex_.                                    *)
Flush ==
  /\ worker = "flush"
  /\ written' = written \o conBuf.msgs
  /\ conBuf' = Reset(conBuf)
  /\ worker' = "top"
  /\ UNCHANGED <<config, proBuf, pushed, producer, patience, ownerVars>>

threadEntry ==
  Top \/ Block \/ SpuriousWake \/ Timeout \/ Woken \/ TimedOut \/ Flush

-----------------------------------------------------------------------------
(* The owner: constructor and destructor.                                  *)

Constructed ==
  /\ owner = "constructing"
  /\ owner' = "logging"
  /\ UNCHANGED <<config, bufferVars, pushed, producer, worker, patience, stop>>

(* Nobody logs any more: every producer has dropped its reference.         *)
StopSet ==
  /\ owner = "logging"
  /\ \A p \in Producers : pushed[p] = Len(config.script[p])
  /\ stop' = TRUE
  /\ owner' = "stopping"
  /\ UNCHANGED <<config, bufferVars, pushed, producer, worker, patience>>

StopNotify ==
  /\ owner = "stopping"
  /\ NotifyWorker
  /\ owner' = "joining"
  /\ UNCHANGED <<config, bufferVars, pushed, producer, patience, stop>>

StopJoin ==
  /\ owner = "joining" /\ worker = "exited"
  /\ owner' = "destroyed"
  /\ UNCHANGED <<config, bufferVars, pushed, producer, worker, patience, stop>>

Next ==
  \/ \E p \in Producers : push(p) \/ ProducerSpuriousWake(p)
  \/ threadEntry
  \/ Constructed \/ StopSet \/ StopNotify \/ StopJoin

Spec == Init /\ [][Next]_vars

(***************************************************************************)
(* The worker and the owner run when they can.  A bounded wait ends: all   *)
(* the wakeups inside one wait_for share its deadline (strong fairness of  *)
(* Timeout).  A producer that was notified inside push gets mutex_         *)
(* eventually, although others take it again and again (strong fairness).  *)
(* Nobody has to log.                                                      *)
(***************************************************************************)
FairSpec ==
  /\ Spec
  /\ WF_vars(Constructed) /\ WF_vars(StopNotify) /\ WF_vars(StopJoin)
  /\ WF_vars(Top \/ Block \/ Woken \/ TimedOut \/ Flush)
  /\ SF_vars(Timeout)
  /\ \A p \in Producers : SF_vars(producer[p] = "woken" /\ push(p))

-----------------------------------------------------------------------------
(***************************************************************************)
(* Exactly once, in order, nothing lost at the end: the looper implements  *)
(* the abstract channel, whose log is what has been written, what is being *)
(* written, and what waits in the production buffer.                       *)
(***************************************************************************)
Channel == INSTANCE LogChannel
  WITH log <- written \o conBuf.msgs \o proBuf.msgs,
       written <- Len(written),
       closed <- worker = "exited"

ImplementsLogChannel == Channel!Spec

(***************************************************************************)
(* Data stays inside the vector it is copied to, and the vectors of an     *)
(* ASYNC_SAFE looper keep their fixed length.                              *)
(***************************************************************************)
BuffersHold ==
  \A b \in {proBuf, conBuf} :
    readAbleSize(b) <= b.size /\ (Safe => b.size = BufferSize)

(***************************************************************************)
(* One notify_one per swap is enough: while a producer waits for room, the *)
(* production buffer has data that will be swapped, or another producer is *)
(* awake to fill it.  This needs messages that fit into a buffer: one that *)
(* does not would consume the wakeup and wait again.                       *)
(***************************************************************************)
Fits(p) == \A n \in DOMAIN config.script[p] : config.script[p][n] <= BufferSize

NoProducerStranded ==
  (\A p \in Producers : Fits(p)) /\ Waiting # {} =>
    ~empty(proBuf) \/ \E p \in Producers : producer[p] = "woken"

Numbers == UNION {DOMAIN s[p] : s \in Scripts, p \in Producers}
Written(p, n) == <<p, n>> \in ToSet(written)

(***************************************************************************)
(* What was pushed is written, even when nothing more is ever pushed, as   *)
(* long as the worker's waits are bounded, that is, unless its first wait  *)
(* read milliseco_ before the constructor wrote it.                        *)
(***************************************************************************)
FlushedWhileBounded ==
  \A p \in Producers : \A n \in Numbers :
    pushed[p] >= n ~> Written(p, n) \/ patience = "unbounded"

(***************************************************************************)
(* A push that waits for room returns, if the messages fit.                *)
(***************************************************************************)
PushReturnsWhileBounded ==
  \A p \in Producers :
    producer[p] # "run" /\ (\A q \in Producers : Fits(q)) ~>
      producer[p] = "run" \/ patience = "unbounded"

(***************************************************************************)
(* The destructor returns: a notification that stop() sends before the     *)
(* worker blocks is made up for by the timeout.                            *)
(***************************************************************************)
StopReturnsWhileBounded ==
  owner = "stopping" ~> owner = "destroyed" \/ patience = "unbounded"
=============================================================================
