------------------------------- MODULE Logging -------------------------------
(***************************************************************************)
(* The synchronous loggers of zlog: any number of threads log through      *)
(* them at once.  A call takes a LogMessage from the MessagePool, formats  *)
(* it as the logger's pattern says into a buffer of its thread, gives the  *)
(* message back, and writes the buffer to the logger's sink, a             *)
(* RollBySizeSink, under the logger's mutex.  The process may crash and be *)
(* started again: the files stay, without what the stream still buffered.  *)
(*                                                                         *)
(* A pattern is a sequence of tokens: literal text, "%%", a conversion     *)
(* with its sub-pattern, or a piece that parsePattern refuses.  What       *)
(* AsyncLogger does with the formatted buffer is the subject of            *)
(* AsyncLooper.                                                            *)
(***************************************************************************)
EXTENDS MessagePool, Sequences, SequencesExt

CONSTANTS
  Loggers,
  Patterns,    (* the patterns the loggers may have, as one function each  *)
  Calls,       (* of each thread: the calls [logger, payload] it makes     *)
  MaxSize,     (* maxSize_ of the sinks                                    *)
  MaxTime,     (* bound: the clock, in seconds                             *)
  MaxRestarts  (* bound: how often the process is started again            *)

ASSUME LoggingAssumption ==
  /\ \A t \in Threads : /\ Calls[t] \in Seq({Calls[t][i] : i \in DOMAIN Calls[t]})
                        /\ \A i \in DOMAIN Calls[t] : /\ Calls[t][i].logger \in Loggers
                                                     /\ Calls[t][i].payload.bytes \in Nat
  /\ \A p \in Patterns : \A l \in Loggers :
       /\ p[l] \in Seq({p[l][i] : i \in DOMAIN p[l]})
       /\ \A i \in DOMAIN p[l] : \/ p[l][i].kind \in {"text", "conv"}
                                 \/ p[l][i] = [kind |-> "broken"]
  /\ MaxSize \in Nat /\ MaxTime \in Nat /\ MaxRestarts \in Nat

VARIABLES
  pattern,                  (* pattern_ of each logger's Formmatter ...    *)
  items_,                   (* ... and the items it was parsed into        *)
  made,                     (* how many of its calls each thread has begun *)
  line,                     (* the thread's buffer of formatted pieces     *)
  last_cached, cached_time, (* the thread's cache of formatted times       *)
  now,                      (* the clock                                   *)
  files,                    (* of each logger: the files on disk           *)
  open,                     (* which of them the sink writes to            *)
  ofs_,                     (* what the stream has not written yet         *)
  curSize_, nameCount_,
  logged,                   (* history: each line written, and its message *)
  restarts

formatters == <<pattern, items_>>
threadVars == <<made, line, last_cached, cached_time>>
sinkVars   == <<files, open, ofs_, curSize_, nameCount_, logged>>
vars == <<poolVars, at, formatters, threadVars, now, sinkVars, restarts>>

Message(t, payload) ==
  [kind |-> "message", curtime |-> now, payload |-> payload, by |-> t]

Call(t) == Calls[t][made[t]]

-----------------------------------------------------------------------------
(* Formmatter.                                                             *)

Text(x)       == [kind |-> "text", text |-> x]
Conv(k, sub)  == [kind |-> "conv", key |-> k, sub |-> sub]
Percent       == [kind |-> "text", text |-> "%"]
Broken        == [kind |-> "broken"]

TimeFormatDefault == "%H:%M:%S"
TimeFormatOf(item) == IF item.sub = "" THEN TimeFormatDefault ELSE item.sub

(* Mutant: the literal text is not cleared when it has become an item.     *)
ParseTokenKeepsText(parse, token) ==
  IF token.kind = "text" THEN [parse EXCEPT !.val = Append(@, token)]
  ELSE [parse EXCEPT !.items = @ \o parse.val \o <<token>>]

(* One round of parsePattern's loop: text is gathered in val until the     *)
(* next conversion makes an item of it.                                    *)
ParseToken(parse, token) ==
  IF token.kind = "text" THEN [parse EXCEPT !.val = Append(@, token)]
  ELSE [val |-> << >>, items |-> parse.items \o parse.val \o <<token>>]

(* items_: none at all if the pattern is refused, and without the text     *)
(* that follows the last conversion.                                       *)
Parsed(p) ==
  LET parse[n \in 0 .. Len(p)] ==
        IF n = 0 THEN [val |-> << >>, items |-> << >>] ELSE ParseToken(parse[n - 1], p[n])
  IN  parse

parsePattern(p) == IF Contains(p, Broken) THEN << >> ELSE Parsed(p)[Len(p)].items

(* What an item appends; time is the text the thread has in its cache.     *)
Piece(item, message, time) ==
  IF item.kind = "text" THEN item
  ELSE IF item.key = "d" THEN [kind |-> "time", time |-> time]
  ELSE [kind |-> "conv", key |-> item.key, message |-> message]

IsTime(item) == item.kind = "conv" /\ item.key = "d"
HasTime(items) == \E i \in DOMAIN items : IsTime(items[i])
FirstTime(items) ==
  CHOOSE i \in DOMAIN items : IsTime(items[i]) /\ \A j \in DOMAIN items : j < i => ~IsTime(items[j])

(* strftime.                                                               *)
Formatted(format, second) == [format |-> format, second |-> second]

(* Mutant: the cache is not looked at, only filled once.                   *)
TimeCachedOnce(t, items, message) ==
  IF HasTime(items) /\ last_cached[t] = Null
    THEN [last |-> message.curtime,
          text |-> Formatted(TimeFormatOf(items[FirstTime(items)]), message.curtime)]
    ELSE [last |-> last_cached[t], text |-> cached_time[t]]

(* TimeFormatItem: its cache is one for all the items of a thread, and is  *)
(* filled by the first of them that meets a new second.                    *)
TimeCached(t, items, message) ==
  IF HasTime(items) /\ last_cached[t] # message.curtime
    THEN [last |-> message.curtime,
          text |-> Formatted(TimeFormatOf(items[FirstTime(items)]), message.curtime)]
    ELSE [last |-> last_cached[t], text |-> cached_time[t]]

(* The bytes of a line, of which fmt takes as many characters.             *)
Total(sizes) ==
  LET total[n \in 0 .. Len(sizes)] == IF n = 0 THEN 0 ELSE total[n - 1] + sizes[n]
  IN  total[Len(sizes)]

BytesOf(p) == IF p.kind = "conv" /\ p.key = "m" THEN p.message.payload.bytes ELSE 1
Bytes(l) == Total([i \in DOMAIN l |-> BytesOf(l[i])])
IsWide(p) == p.kind = "conv" /\ p.message.payload.wide

-----------------------------------------------------------------------------
(* RollBySizeSink.                                                         *)

Name(count) == <<now, count>>

(* Files are opened for appending, so one of the same name goes on.        *)
IndexOf(fs, name) == CHOOSE i \in DOMAIN fs : fs[i].name = name

Opened(fs, name) ==
  IF \E i \in DOMAIN fs : fs[i].name = name
    THEN [fs EXCEPT ![IndexOf(fs, name)].opened = @ + 1]
    ELSE Append(fs, [name |-> name, lines |-> << >>, opened |-> 1])

(* A stream writes what it has.                                            *)
Flushed(l, lines) == [files[l] EXCEPT ![open[l]].lines = @ \o lines]

(* Mutant: the size of the new line is not thought of.                     *)
RollsLate(l, size) == curSize_[l] > MaxSize

Rolls(l, size) == curSize_[l] + size > MaxSize

(* SyncLogger::log, under the mutex: the sink rolls over to a new file,    *)
(* then writes as many characters as the line has bytes.  A line with wide *)
(* characters has fewer, and what lies behind it in the buffer follows.    *)
SinkLog(l, written, size) ==
  /\ \/ /\ Rolls(l, size)
        /\ files' = [files EXCEPT ![l] = Opened(Flushed(l, ofs_[l]), Name(nameCount_[l]))]
        /\ open' = [open EXCEPT ![l] = IndexOf(files'[l], Name(nameCount_[l]))]
        /\ nameCount_' = [nameCount_ EXCEPT ![l] = @ + 1]
        /\ ofs_' = [ofs_ EXCEPT ![l] = <<written>>]
        /\ curSize_' = [curSize_ EXCEPT ![l] = size]
     \/ /\ ~Rolls(l, size)
        /\ ofs_' = [ofs_ EXCEPT ![l] = Append(@, written)]
        /\ curSize_' = [curSize_ EXCEPT ![l] = @ + size]
        /\ UNCHANGED <<files, open, nameCount_>>
  /\ logged' = [logged EXCEPT ![l] = Append(@, written)]

-----------------------------------------------------------------------------
Init ==
  /\ PoolInit
  /\ at = [t \in Threads |-> "idle"]
  /\ pattern \in Patterns
  /\ items_ = [l \in Loggers |-> parsePattern(pattern[l])]
  /\ made = [t \in Threads |-> 0]
  /\ line = [t \in Threads |-> << >>]
  /\ last_cached = [t \in Threads |-> Null]
  /\ cached_time = [t \in Threads |-> Null]
  /\ now = 0
  /\ files = [l \in Loggers |-> Opened(<< >>, Name(0))]
  /\ open = [l \in Loggers |-> 1]
  /\ ofs_ = [l \in Loggers |-> << >>]
  /\ curSize_ = [l \in Loggers |-> 0]
  /\ nameCount_ = [l \in Loggers |-> 1]
  /\ logged = [l \in Loggers |-> << >>]
  /\ restarts = 0

(* logImplHelper and serialize: the bucket depends on the line of the call *)
(* and a counter, so it may be any.                                        *)
LogImpl(t) ==
  /\ at[t] = "idle" /\ made[t] < Len(Calls[t])
  /\ made' = [made EXCEPT ![t] = @ + 1]
  /\ \E b \in Buckets : bucket' = [bucket EXCEPT ![t] = b]
  /\ at' = [at EXCEPT ![t] = "alloc"]
  /\ UNCHANGED <<pageVars, slot, formatters, line, last_cached, cached_time, now,
                 sinkVars, restarts>>

AllocMessage(t) ==
  /\ AllocObject(t)
  /\ UNCHANGED <<formatters, threadVars, now, sinkVars, restarts>>

ConstructMessage(t) ==
  /\ Construct(t, Message(t, Call(t).payload))
  /\ UNCHANGED <<formatters, threadVars, now, sinkVars, restarts>>

(* Mutant: what was formatted before is still in the buffer.               *)
FormatAppends(t) ==
  LET message == mem[bucket[t]][slot[t]]
      items   == items_[Call(t).logger]
      cache   == TimeCached(t, items, message)
  IN  /\ at[t] = "format"
      /\ line' = [line EXCEPT ![t] =
                    @ \o [i \in DOMAIN items |-> Piece(items[i], message, cache.text)]]
      /\ last_cached' = [last_cached EXCEPT ![t] = cache.last]
      /\ cached_time' = [cached_time EXCEPT ![t] = cache.text]
      /\ at' = [at EXCEPT ![t] = "dealloc"]
      /\ UNCHANGED <<poolVars, formatters, made, now, sinkVars, restarts>>

(* Formmatter::format, every item in turn.                                 *)
Format(t) ==
  LET message == mem[bucket[t]][slot[t]]
      items   == items_[Call(t).logger]
      cache   == TimeCached(t, items, message)
  IN  /\ at[t] = "format"
      /\ line' = [line EXCEPT ![t] =
                    [i \in DOMAIN items |-> Piece(items[i], message, cache.text)]]
      /\ last_cached' = [last_cached EXCEPT ![t] = cache.last]
      /\ cached_time' = [cached_time EXCEPT ![t] = cache.text]
      /\ at' = [at EXCEPT ![t] = "dealloc"]
      /\ UNCHANGED <<poolVars, formatters, made, now, sinkVars, restarts>>

DeallocMessage(t) ==
  /\ Dealloc(t)
  /\ UNCHANGED <<formatters, threadVars, now, sinkVars, restarts>>

Log(t) ==
  LET l == Call(t).logger IN
  /\ at[t] = "log"
  /\ \E junk \in IF \E i \in DOMAIN line[t] : IsWide(line[t][i]) THEN BOOLEAN ELSE {FALSE} :
       SinkLog(l, [call |-> <<t, made[t]>>, line |-> line[t], junk |-> junk],
               Bytes(line[t]))
  /\ at' = [at EXCEPT ![t] = "idle"]
  /\ UNCHANGED <<poolVars, formatters, threadVars, now, restarts>>

Tick ==
  /\ now < MaxTime
  /\ now' = now + 1
  /\ UNCHANGED <<poolVars, at, formatters, threadVars, sinkVars, restarts>>

(* The process ends without a word and is started again: of what a stream  *)
(* has not written, a part may still have reached the file.                *)
Restart ==
  /\ restarts < MaxRestarts
  /\ restarts' = restarts + 1
  /\ \E kept \in [Loggers -> UNION {0 .. Len(ofs_[l]) : l \in Loggers}] :
       /\ \A l \in Loggers : kept[l] <= Len(ofs_[l])
       /\ files' = [l \in Loggers |->
                      Opened(Flushed(l, SubSeq(ofs_[l], 1, kept[l])), Name(0))]
  /\ open' = [l \in Loggers |-> IndexOf(files'[l], Name(0))]
  /\ ofs_' = [l \in Loggers |-> << >>]
  /\ curSize_' = [l \in Loggers |-> 0]
  /\ nameCount_' = [l \in Loggers |-> 1]
  /\ PoolRestarts
  /\ at' = [t \in Threads |-> "idle"]
  /\ line' = [t \in Threads |-> << >>]
  /\ last_cached' = [t \in Threads |-> Null]
  /\ cached_time' = [t \in Threads |-> Null]
  /\ UNCHANGED <<formatters, made, now, logged>>

InCall(t) ==
  AllocMessage(t) \/ ConstructMessage(t) \/ Format(t) \/ DeallocMessage(t) \/ Log(t)

Next == (\E t \in Threads : LogImpl(t) \/ InCall(t)) \/ Tick \/ Restart

Spec == Init /\ [][Next]_vars

-----------------------------------------------------------------------------
TypeOK ==
  /\ PoolTypeOK
  /\ at \in [Threads -> {"idle", "alloc", "waiting", "construct", "format", "dealloc",
                         "log", "crashed"}]
  /\ pattern \in Patterns
  /\ \A t \in Threads : made[t] \in 0 .. Len(Calls[t])
  /\ last_cached \in [Threads -> 0 .. MaxTime \cup {Null}]
  /\ now \in 0 .. MaxTime
  /\ \A l \in Loggers : open[l] \in DOMAIN files[l]
  /\ curSize_ \in [Loggers -> Nat] /\ nameCount_ \in [Loggers -> Nat]
  /\ restarts \in 0 .. MaxRestarts

(* What a pattern stands for.                                              *)
Meaning(p, message) ==
  [i \in DOMAIN p |->
     Piece(p[i], message,
       IF IsTime(p[i]) THEN Formatted(TimeFormatOf(p[i]), message.curtime) ELSE Null)]

EndsInConversion(p) == Last(p).kind = "conv" /\ ~Contains(p, Broken)

TimeFormats ==
  {TimeFormatOf(item) : item \in UNION {{x \in ToSet(pattern[l]) : IsTime(x)} : l \in Loggers}}

(***************************************************************************)
(* What a sink gets for a call is the call's own message, written as the   *)
(* logger's pattern says, whatever other threads log meanwhile in the same *)
(* bucket.  This is so if the pattern ends in a conversion (text after the *)
(* last one is dropped), if all loggers use one time format (the cached    *)
(* time is that of whichever was first in a second), and if all characters *)
(* are one byte wide (else leftovers of the buffer are written as well).   *)
(***************************************************************************)
LineIsRight ==
  \A l \in Loggers : \A i \in DOMAIN logged[l] :
    LET e == logged[l][i]
        t == e.call[1]
    IN  EndsInConversion(pattern[l]) /\ (\A f, g \in TimeFormats : f = g) /\ ~e.junk =>
          \E second \in 0 .. MaxTime :
            e.line = Meaning(pattern[l],
                       [kind |-> "message", curtime |-> second, by |-> t,
                        payload |-> Calls[t][e.call[2]].payload])

(***************************************************************************)
(* A file stays within maxSize_ if every line does, if its lines are one   *)
(* byte per character, and if only one process opened it: a process that   *)
(* is started in the second in which another one started appends to the    *)
(* other one's file and does not count what is in it.                      *)
(***************************************************************************)
FilesBounded ==
  \A l \in Loggers : \A i \in DOMAIN files[l] :
    LET lines == files[l][i].lines \o (IF i = open[l] THEN ofs_[l] ELSE << >>)
    IN  /\ files[l][i].opened = 1
        /\ \A k \in DOMAIN lines : ~lines[k].junk /\ Bytes(lines[k].line) <= MaxSize
        => Total([k \in DOMAIN lines |-> Bytes(lines[k].line)]) <= MaxSize
=============================================================================
