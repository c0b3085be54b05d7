-------------------------------- MODULE Logs ---------------------------------
(***************************************************************************)
(* The log pipeline (api/app/logs/, api/logs.py, api/settings.py and the   *)
(* browser's live console): records of the loggers of the process go       *)
(* through one handler into a ring buffer and the queues of its            *)
(* subscribers, which are the SSE streams and the task that forwards       *)
(* events to a file, when the stored setting says so.                      *)
(*                                                                         *)
(* A step of a task between two awaits is one action.  Time passes in      *)
(* ticks of five seconds, the timeout of the forwarder's get, and only     *)
(* while the forwarder waits: its own work takes no time.                  *)
(***************************************************************************)
EXTENDS Integers, Sequences, FiniteSets

CONSTANTS
  BufferSize, QueueMax, ConsoleMax, HistoryLimit,   \* BUFFER_SIZE, _QUEUE_MAX, 3000, 300
  Lines,           \* what the program logs: logger and level
  Ancestry,        \* a logger's chain of parents, itself first and "root" last
  Direct,          \* _DIRECT_ATTACH_LOGGERS
  Source,          \* the source tag of a logger
  Own,             \* the logger of the forwarder and of the settings
  Threshold,       \* LANGPERF_LOG_LEVEL
  Streams, NoStream,
  Filters,         \* source and level of /recent and /stream
  Configs,         \* settings users store
  NoConfig,
  ReloadTicks,     \* _RELOAD_INTERVAL_SECONDS
  MaxRecords, MaxDay   \* bounds on what is logged and on the days that pass

(* What nothing checks of the path of a file: that it has a name, unlike   *)
(* an empty one or "/", and that its directory can be listed.              *)
Paths == {"good", "nameless", "unlistable"}

ASSUME LogsAssumption ==
  /\ {BufferSize, QueueMax, ConsoleMax, HistoryLimit, ReloadTicks} \subseteq Nat \ {0}
  /\ HistoryLimit <= ConsoleMax /\ {MaxRecords, MaxDay, Threshold} \subseteq Nat
  /\ NoStream \notin Streams /\ NoConfig \notin Configs
  /\ "forwarder" \notin Streams
  /\ Configs \subseteq [enabled : BOOLEAN, rotate : BOOLEAN, keep : Int, path : Paths]

(* Parents of loggers form a tree under the root logger, which is not one  *)
(* of those that may get a handler of their own.                           *)
ASSUME LoggersAssumption ==
  /\ Lines \subseteq [logger : DOMAIN Ancestry, level : Nat] /\ Own \in DOMAIN Ancestry
  /\ Source \in [DOMAIN Ancestry -> STRING] /\ "root" \notin Direct
  /\ \A l \in DOMAIN Ancestry :
       LET chain == Ancestry[l] IN
       /\ chain \in Seq(STRING) \ {<<>>} /\ chain[Len(chain)] = "root"
       /\ \A i, j \in DOMAIN chain : chain[i] = chain[j] => i = j

VARIABLES
  up,             \* the process runs
  propagating,    \* the Direct loggers whose propagate flag is set
  attached,       \* the loggers that hold the handler
  rec, seq,       \* records logged since ever, events since the start
  events,         \* LogBuffer._events
  subscribers,    \* LogBuffer._subscribers
  queues,         \* the queue of each
  stored,         \* the log_forwarding row of workspace_settings
  offFor,         \* ticks since it last had the file enabled, up to a cap
  fwd,            \* the forwarder task
  files,          \* the files it has written, by the day in their name, or Undated
  day,
  page,           \* the live console of a browser
  scene           \* who uses the API in this behaviour, "admin" or "console"

logVars == <<rec, seq, events, queues>>
vars == <<up, propagating, attached, rec, seq, events, subscribers, queues,
          stored, offFor, fwd, files, day, page, scene>>

Readers == Streams \cup {"forwarder"}
Default == [enabled |-> FALSE, rotate |-> TRUE, keep |-> 14, path |-> "good"]
Undated == -1                \* the file of a path that is not rotated
Names == {Undated} \cup 0 .. MaxDay

LogEvent == [rec : 1 .. MaxRecords + 1, seq : Nat, source : STRING, level : Nat]

Stale == ReloadTicks + 1    \* the oldest a configuration in use may be
NoFile == [lines |-> <<>>, written |-> -1]
Idle == [at |-> "off", config |-> NoConfig, age |-> 0, waited |-> 0, pruned |-> -1]

TypeOK ==
  /\ up \in BOOLEAN /\ propagating \subseteq Direct /\ day \in 0 .. MaxDay
  /\ rec \in 0 .. MaxRecords + 1 /\ seq \in Nat
  /\ events \in Seq(LogEvent) /\ Len(events) <= BufferSize
  /\ subscribers \subseteq Readers
  /\ \A r \in Readers : queues[r] \in Seq(LogEvent) /\ Len(queues[r]) <= QueueMax
  /\ \A r \in Readers \ subscribers : queues[r] = <<>>
  /\ stored \in Configs \cup {NoConfig} /\ offFor \in 0 .. Stale + 1
  /\ fwd.at \in {"off", "starting", "check", "get", "dead"}
  /\ fwd.config \in Configs \cup {NoConfig, Default} /\ fwd.age \in 0 .. Stale /\ fwd.waited \in 0 .. 1
  /\ \A n \in Names : \A i \in DOMAIN files[n].lines : files[n].lines[i] \in 1 .. rec
  /\ page.shown \in Seq(LogEvent) /\ Len(page.shown) <= ConsoleMax
  /\ page.stream \in Streams \cup {NoStream}

Init ==
  /\ up = FALSE /\ propagating \in SUBSET Direct /\ attached = {}
  /\ rec = 0 /\ seq = 0 /\ events = <<>>
  /\ subscribers = {} /\ queues = [r \in Readers |-> <<>>]
  /\ stored \in Configs \cup {NoConfig} /\ offFor = 0
  /\ fwd = Idle /\ files = [n \in Names |-> NoFile] /\ day = 0
  /\ scene \in {"admin", "console"} /\ (scene = "console" => stored = NoConfig /\ propagating = Direct)
  /\ page \in [shown : {<<>>}, stream : {NoStream}, wire : {<<>>},
                asked : {"no"}, rows : {<<>>},
                filter : IF scene = "console" THEN Filters ELSE {[sources |-> {}, min |-> 0]}]

-----------------------------------------------------------------------------
(* The ring buffer. *)
(* Mutant: the deque has no maxlen. *)
LastOf_All(s, n) == s

LastOf(s, n) == SubSeq(s, IF Len(s) > n THEN Len(s) - n + 1 ELSE 1, Len(s))
FirstOf(s, n) == SubSeq(s, 1, IF Len(s) > n THEN n ELSE Len(s))

Mutes(l) == l \in Direct \ propagating

(* How often the handler sees a record: once for each logger that holds it *)
(* on the way to the first that does not propagate.                        *)
Handled(line) ==
  IF line.level < Threshold THEN 0
  ELSE LET chain == Ancestry[line.logger] IN
       Cardinality({i \in DOMAIN chain :
         chain[i] \in attached /\ \A j \in 1 .. i - 1 : ~Mutes(chain[j])})

Room(n) == rec + n <= MaxRecords

(* Records of one line, logged by a step that leaves the queues as old,    *)
(* reach the buffer, and the queues that have room of those who still      *)
(* listen.                                                                 *)
Publish(listeners, line, times, old) ==
  LET n == Handled(line)
      new == [i \in 1 .. n * times |->
               [rec |-> rec + 1 + (i - 1) \div n, seq |-> seq + i,
                source |-> Source[line.logger], level |-> line.level]]
  IN
  /\ rec' = rec + times
  /\ seq' = seq + Len(new)
  /\ events' = LastOf(events \o new, BufferSize)
  /\ queues' = [r \in Readers |-> IF r \in listeners THEN FirstOf(old[r] \o new, QueueMax) ELSE <<>>]

Record(line, times, old) == Publish(subscribers, line, times, old)
Log(line) == Record(line, 1, queues)

Warning == [logger |-> Own, level |-> 30]
Info == [logger |-> Own, level |-> 20]

Emit ==
  /\ up /\ Room(1) /\ \E line \in Lines : Log(line)
  /\ UNCHANGED <<up, propagating, attached, subscribers, stored, offFor, fwd, files, day, page, scene>>

-----------------------------------------------------------------------------
(* The process. *)
(* Mutant: the handler is put on every known logger. *)
AttachHandler_All == attached' = {"root"} \cup Direct

AttachHandler == attached' = {"root"} \cup (Direct \ propagating)

Start ==
  /\ ~up /\ Room(1)
  /\ up' = TRUE /\ AttachHandler
  /\ fwd' = [Idle EXCEPT !.at = "starting"]
  /\ UNCHANGED <<propagating, subscribers, stored, offFor, files, day, page, scene>> /\ UNCHANGED logVars

(* The process ends, in order or not: what is in memory is gone. *)
Stop ==
  /\ up /\ up' = FALSE /\ attached' = {}
  /\ seq' = 0 /\ events' = <<>> /\ subscribers' = {} /\ queues' = [r \in Readers |-> <<>>]
  /\ fwd' = Idle
  /\ page' = [page EXCEPT !.stream = NoStream, !.wire = <<>>]
  /\ UNCHANGED <<propagating, rec, stored, offFor, files, day, scene>>

(* The row is written and committed, then a line says so. *)
PutLogForwarding ==
  /\ up /\ scene = "admin" /\ Room(1)
  /\ \E cfg \in Configs :
       /\ stored' = cfg
       /\ offFor' = IF cfg.enabled THEN 0 ELSE offFor
  /\ Log(Info)
  /\ UNCHANGED <<up, propagating, attached, subscribers, fwd, files, day, page, scene>>

-----------------------------------------------------------------------------
(* The file forwarder. *)
Enabled(cfg) == cfg # NoConfig /\ cfg.enabled

Begin ==
  /\ fwd.at = "starting"
  /\ subscribers' = subscribers \cup {"forwarder"}
  /\ Log(Info)
  /\ fwd' = [fwd EXCEPT !.at = "check"]
  /\ UNCHANGED <<up, propagating, attached, stored, offFor, files, day, page, scene>>

(* The configuration is read again when it is older than the interval; a   *)
(* failure turns forwarding off until the next time.                       *)
Check ==
  /\ fwd.at = "check"
  /\ \/ /\ fwd.config # NoConfig /\ fwd.age <= ReloadTicks
        /\ fwd' = [fwd EXCEPT !.at = "get", !.waited = 0]
        /\ UNCHANGED logVars
     \/ /\ fwd.config = NoConfig \/ fwd.age > ReloadTicks
        /\ \/ /\ fwd' = [fwd EXCEPT !.at = "get", !.waited = 0, !.age = 0,
                                    !.config = IF stored = NoConfig THEN Default ELSE stored]
              /\ UNCHANGED logVars
           \/ /\ fwd' = [fwd EXCEPT !.at = "get", !.waited = 0, !.age = 0, !.config = Default]
              /\ Room(1) /\ Log(Warning)
  /\ UNCHANGED <<up, propagating, attached, subscribers, stored, offFor, files, day, page, scene>>

RotatePath(cfg) == IF cfg.rotate THEN day ELSE Undated

(* _prune: the names it looks at are those that begin and end like the     *)
(* path's, the path itself among them.  A file last written keep days ago  *)
(* may be older than keep times 24 hours, or not yet.                      *)
Prunable(cfg) ==
  IF cfg.keep <= 0 THEN {}
  ELSE {n \in Names : files[n] # NoFile /\ day - files[n].written >= cfg.keep}

Overdue(cfg) == {n \in Prunable(cfg) : day - files[n].written > cfg.keep}

Prunes(cfg) == cfg.enabled /\ cfg.rotate /\ fwd.pruned # day

(* The files after the event at the head of the queue was written, unless  *)
(* that failed, and some were pruned.                                      *)
Written(failed, gone) ==
  LET path == RotatePath(fwd.config)
      line == [lines |-> Append(files[path].lines, Head(queues["forwarder"]).rec), written |-> day]
  IN [n \in Names |-> IF n = path /\ fwd.config.enabled /\ ~failed THEN line
                      ELSE IF n \in gone THEN NoFile ELSE files[n]]

(* Mutant: a write that fails ends the task. *)
Take_Dies ==
  /\ fwd.at = "get" /\ queues["forwarder"] # <<>>
  /\ \E failed \in BOOLEAN :
       /\ failed => fwd.config.enabled
       /\ files' = Written(failed, {})
       /\ fwd' = IF failed THEN [Idle EXCEPT !.at = "dead"] ELSE [fwd EXCEPT !.at = "check"]
  /\ Record(Warning, 0, [queues EXCEPT !["forwarder"] = Tail(@)])
  /\ UNCHANGED <<up, propagating, attached, subscribers, stored, offFor, day, page, scene>>

(* An event is taken from the queue and written; the first one of a day    *)
(* prunes.  What fails is logged, and so will be written in its turn.      *)
Take ==
  /\ fwd.at = "get" /\ queues["forwarder"] # <<>>
  /\ LET cfg == fwd.config IN
     \E failed \in BOOLEAN, gone \in SUBSET Prunable(cfg) :
       LET kept == IF Prunes(cfg) THEN Cardinality(Overdue(cfg) \ gone) ELSE 0 IN
       /\ failed => cfg.enabled
       /\ cfg.enabled /\ cfg.path = "nameless" => failed /\ ~cfg.rotate
       /\ ~Prunes(cfg) => gone = {}
       /\ ~failed => RotatePath(cfg) \notin gone    \* just written
       /\ files' = Written(failed, gone)
       /\ failed \/ kept > 0 => Room(kept + (IF failed THEN 1 ELSE 0))
       /\ Record(Warning, kept + (IF failed THEN 1 ELSE 0), [queues EXCEPT !["forwarder"] = Tail(@)])
       /\ fwd' = [fwd EXCEPT !.at = "check", !.pruned = IF Prunes(cfg) THEN day ELSE @]
  /\ UNCHANGED <<up, propagating, attached, subscribers, stored, offFor, day, page, scene>>

(* What is outside any try ends the task: a name for the day cannot be     *)
(* made of a path without a name, or a directory cannot be listed to the   *)
(* end when it is pruned.  Nothing starts the task again.                  *)
Die ==
  /\ fwd.at = "get" /\ queues["forwarder"] # <<>>
  /\ LET cfg == fwd.config
         Last(n) == Publish(subscribers \ {"forwarder"}, Warning, n, queues)
     IN
     \/ /\ cfg.enabled /\ cfg.rotate /\ cfg.path = "nameless"
        /\ Last(0) /\ UNCHANGED files
     \/ /\ Prunes(cfg) /\ cfg.path = "unlistable"
        /\ \E failed \in BOOLEAN, gone \in SUBSET Prunable(cfg) :
           \E kept \in 0 .. Cardinality(Overdue(cfg) \ gone) :
             LET n == kept + (IF failed THEN 1 ELSE 0) IN
             /\ ~failed => RotatePath(cfg) \notin gone
             /\ files' = Written(failed, gone)
             /\ (n > 0 => Room(n)) /\ Last(n)
  /\ fwd' = [Idle EXCEPT !.at = "dead"]
  /\ subscribers' = subscribers \ {"forwarder"}
  /\ UNCHANGED <<up, propagating, attached, stored, offFor, day, page, scene>>

Timeout ==
  /\ fwd.at = "get" /\ fwd.waited = 1 /\ queues["forwarder"] = <<>>
  /\ fwd' = [fwd EXCEPT !.at = "check"]
  /\ UNCHANGED <<up, propagating, attached, subscribers, stored, offFor, files, day, page, scene>>
  /\ UNCHANGED logVars

Forwards == up /\ fwd.at # "dead"
Capped(n, max) == IF n > max THEN max ELSE n

(* Mutant: the get waits for as long as it takes. *)
Tick_NoTimeout ==
  /\ scene = "admin"
  /\ Forwards => fwd.at = "get" /\ queues["forwarder"] = <<>>
  /\ fwd' = IF Forwards THEN [fwd EXCEPT !.age = Capped(@ + 1, Stale)] ELSE fwd
  /\ offFor' = IF Enabled(stored) THEN 0 ELSE Capped(offFor + 1, Stale + 1)
  /\ UNCHANGED <<up, propagating, attached, subscribers, stored, files, day, page, scene>>
  /\ UNCHANGED logVars

(* Five seconds pass while the forwarder waits, or while it does not run. *)
Tick ==
  /\ scene = "admin"
  /\ Forwards => fwd.at = "get" /\ queues["forwarder"] = <<>> /\ fwd.waited = 0
  /\ fwd' = IF Forwards THEN [fwd EXCEPT !.waited = 1, !.age = Capped(@ + 1, Stale)] ELSE fwd
  /\ offFor' = IF Enabled(stored) THEN 0 ELSE Capped(offFor + 1, Stale + 1)
  /\ UNCHANGED <<up, propagating, attached, subscribers, stored, files, day, page, scene>>
  /\ UNCHANGED logVars

NextDay ==
  /\ scene = "admin" /\ day < MaxDay /\ day' = day + 1
  /\ UNCHANGED <<up, propagating, attached, subscribers, stored, offFor, fwd, files, page, scene>>
  /\ UNCHANGED logVars

Forwarder == Begin \/ Check \/ Take \/ Die \/ Timeout

-----------------------------------------------------------------------------
(* /api/logs. *)
Matches(f, e) == (f.sources # {} => e.source \in f.sources) /\ e.level >= f.min

(* Of the newest 4 * limit events those that match, at most limit of them, *)
(* the newest.                                                             *)
Recent(f, limit) ==
  LET newest   == LastOf(events, 4 * limit)
      passing  == {i \in DOMAIN newest : Matches(f, newest[i])}
      After(i) == Cardinality({j \in passing : j > i})
      kept     == Capped(Cardinality(passing), limit)
  IN [k \in 1 .. kept |-> newest[CHOOSE i \in passing : After(i) = kept - k]]

pageless == <<up, propagating, attached, stored, offFor, fwd, files, day, scene>>

(* Mutant: a new stream begins with what the buffer holds. *)
OpenStream_Replays(s) ==
  /\ up /\ page.stream = NoStream /\ s \notin subscribers
  /\ subscribers' = subscribers \cup {s} /\ queues' = [queues EXCEPT ![s] = events]
  /\ page' = [page EXCEPT !.stream = s]
  /\ UNCHANGED <<rec, seq, events>> /\ UNCHANGED pageless

(* A stream of the server's; the browser listens to the last it opened. *)
OpenStream(s) ==
  /\ up /\ page.stream = NoStream /\ s \notin subscribers
  /\ subscribers' = subscribers \cup {s}
  /\ page' = [page EXCEPT !.stream = s]
  /\ UNCHANGED logVars /\ UNCHANGED pageless

(* An event that matches goes out, if there is still a client. *)
SendEvent(s) ==
  /\ s \in subscribers /\ queues[s] # <<>>
  /\ queues' = [queues EXCEPT ![s] = Tail(@)]
  /\ page' = IF page.stream = s /\ Matches(page.filter, Head(queues[s]))
             THEN [page EXCEPT !.wire = Append(@, Head(queues[s]))] ELSE page
  /\ UNCHANGED <<rec, seq, events, subscribers>> /\ UNCHANGED pageless

(* The connection breaks; the generator finds out when it looks next, and  *)
(* the browser opens another.                                              *)
LoseStream ==
  /\ page.stream # NoStream
  /\ page' = [page EXCEPT !.stream = NoStream, !.wire = <<>>]
  /\ UNCHANGED subscribers /\ UNCHANGED logVars /\ UNCHANGED pageless

CloseStream(s) ==
  /\ s \in subscribers /\ page.stream # s
  /\ subscribers' = subscribers \ {s} /\ queues' = [queues EXCEPT ![s] = <<>>]
  /\ UNCHANGED <<rec, seq, events, page>> /\ UNCHANGED pageless

-----------------------------------------------------------------------------
(* The live console. *)
(* The answer of /recent, on its way to the page; or none. *)
AnswerHistory ==
  /\ page.asked = "no"
  /\ \/ up /\ page' = [page EXCEPT !.asked = "answered", !.rows = Recent(page.filter, HistoryLimit)]
     \/ page' = [page EXCEPT !.asked = "shown"]    \* caught: nothing is shown
  /\ UNCHANGED subscribers /\ UNCHANGED logVars /\ UNCHANGED pageless

ShowHistory ==
  /\ page.asked = "answered"
  /\ page' = [page EXCEPT !.asked = "shown", !.rows = <<>>, !.shown = page.rows]
  /\ UNCHANGED subscribers /\ UNCHANGED logVars /\ UNCHANGED pageless

(* A line is shown unless the console is paused or its last line has the   *)
(* same number.                                                            *)
Receive ==
  /\ page.wire # <<>>
  /\ \E paused \in BOOLEAN :
       LET e == Head(page.wire)
           n == Len(page.shown)
           repeats == n > 0 /\ page.shown[n].seq = e.seq
       IN page' = [page EXCEPT
            !.wire = Tail(@),
            !.shown = IF paused \/ repeats THEN @ ELSE LastOf(Append(@, e), ConsoleMax)]
  /\ UNCHANGED subscribers /\ UNCHANGED logVars /\ UNCHANGED pageless

Clear ==
  /\ page.shown # <<>> /\ page' = [page EXCEPT !.shown = <<>>]
  /\ UNCHANGED subscribers /\ UNCHANGED logVars /\ UNCHANGED pageless

Console ==
  /\ scene = "console"
  /\ \/ \E s \in Streams : OpenStream(s) \/ SendEvent(s) \/ CloseStream(s)
     \/ LoseStream \/ AnswerHistory \/ ShowHistory \/ Receive \/ Clear

Next == Emit \/ Start \/ Stop \/ PutLogForwarding \/ Forwarder \/ Tick \/ NextDay \/ Console

(* The event loop runs a task that can go on. *)
Spec == Init /\ [][Next]_vars /\ WF_vars(Forwarder)

-----------------------------------------------------------------------------
Recs(s) == {s[i].rec : i \in DOMAIN s}

(* A record is in the buffer once, in a queue once, and once in all the    *)
(* files ever written together, restarts and failing writes included:      *)
(* whichever known loggers propagate, attach_handler gives each record one *)
(* way to the handler, and the forwarder takes an event once.              *)
RecordsOnce ==
  /\ \A r \in Readers : Cardinality(Recs(queues[r])) = Len(queues[r])
  /\ Cardinality(Recs(events)) = Len(events)
  /\ \A m, n \in Names : \A i \in DOMAIN files[m].lines, j \in DOMAIN files[n].lines :
       files[m].lines[i] = files[n].lines[j] => m = n /\ i = j

(* After the setting has been turned off, the forwarder writes for no      *)
(* longer than the reload interval and one timeout of its get: what it     *)
(* would write with is that young, even if no event wakes it in between.   *)
OffMeansOff ==
  fwd.at = "get" /\ Enabled(fwd.config) => Enabled(stored) \/ offFor <= Stale

(* What the console shows is in order but for one seam, where the stream   *)
(* repeats what the history has answered: a line is shown twice at most,   *)
(* whichever of them comes first and however often the stream breaks.      *)
OneSeam ==
  Cardinality({i \in 1 .. Len(page.shown) - 1 : page.shown[i].rec >= page.shown[i + 1].rec}) <= 1

Waits == fwd.at = "get" /\ queues["forwarder"] = <<>>

(* The forwarder empties its queue again and again as long as the process  *)
(* lives and the files it is told to write have paths that are good:       *)
(* neither a failed reload nor a failed write, whose warnings it is sent   *)
(* itself, stops it or keeps it busy once failures end.  Other paths end   *)
(* it for good (Die), against "without requiring a restart" and "bg task   *)
(* must not die" (logs/file_forwarder.py:5, :86).                          *)
CatchesUp ==
  [](Enabled(fwd.config) => fwd.config.path = "good") => []<>(up => Waits)
=============================================================================
