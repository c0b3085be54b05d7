----------------------------- MODULE LogsProofs ------------------------------
(***************************************************************************)
(* What the log pipeline keeps, for any loggers, sizes of the buffers,     *)
(* streams, filters and stored settings: a record goes one way to the      *)
(* handler, so the records of every queue, answer and file are in order.   *)
(***************************************************************************)
EXTENDS Logs, FiniteSetTheorems, FunctionTheorems, SequenceTheorems, TLAPS

-----------------------------------------------------------------------------
(* Sequences of events in the order they were logged. *)
Ordered(s) == s \in Seq(LogEvent) /\ \A i, j \in DOMAIN s : i < j => s[i].rec < s[j].rec

UpTo(n, s) == \A i \in DOMAIN s : s[i].rec <= n
Past(n, s) == \A i \in DOMAIN s : n < s[i].rec

(* Where a line is not newer than the one before. *)
Descents(s) == {i \in 1 .. Len(s) - 1 : s[i].rec >= s[i + 1].rec}

LEMMA RecsAreNumbers == \A e \in LogEvent : e.rec \in Nat \ {0} /\ e.rec <= MaxRecords + 1
  BY LogsAssumption DEF LogEvent

LEMMA NoEvents == Ordered(<<>>) /\ Len(<<>>) = 0 /\ \A n : UpTo(n, <<>>) /\ Past(n, <<>>)
  BY DEF Ordered, UpTo, Past

(* A part of a sequence in order is in order. *)
LEMMA CutOrdered ==
  ASSUME NEW s, Ordered(s), NEW a \in Nat \ {0}, NEW b \in 0 .. Len(s)
  PROVE  /\ Ordered(SubSeq(s, a, b))
         /\ Len(SubSeq(s, a, b)) = IF a <= b THEN b - a + 1 ELSE 0
         /\ \A n : UpTo(n, s) => UpTo(n, SubSeq(s, a, b))
         /\ \A n : Past(n, s) => Past(n, SubSeq(s, a, b))
<1> DEFINE t == SubSeq(s, a, b)
<1>1. s \in Seq(LogEvent) /\ DOMAIN s = 1 .. Len(s) /\ Len(s) \in Nat
  BY DEF Ordered
<1>2. \A i \in a .. b : s[i] \in LogEvent
  BY <1>1
<1>3. t \in Seq(LogEvent) /\ Len(t) = (IF a <= b THEN b - a + 1 ELSE 0)
      /\ \A i \in 1 .. b - a + 1 : t[i] = s[a + i - 1]
  BY <1>1, <1>2, SubSeqProperties
<1>4. DOMAIN t = 1 .. Len(t)
  BY <1>3
<1> HIDE DEF t
<1>5. \A i \in DOMAIN t : i \in Nat /\ a + i - 1 \in DOMAIN s /\ t[i] = s[a + i - 1]
  BY <1>1, <1>3, <1>4
<1>6. Ordered(t)
  <2> SUFFICES ASSUME NEW i \in DOMAIN t, NEW j \in DOMAIN t, i < j PROVE t[i].rec < t[j].rec
    BY <1>3 DEF Ordered
  <2>1. a + i - 1 < a + j - 1
    BY <1>5
  <2> QED BY <1>5, <2>1 DEF Ordered
<1>7. \A n : UpTo(n, s) => UpTo(n, t)
  BY <1>5 DEF UpTo
<1>8. \A n : Past(n, s) => Past(n, t)
  BY <1>5 DEF Past
<1> QED BY <1>3, <1>6, <1>7, <1>8 DEF t

LEMMA LastOrdered ==
  ASSUME NEW s, Ordered(s), NEW n \in Nat \ {0}
  PROVE  /\ Ordered(LastOf(s, n)) /\ Len(LastOf(s, n)) <= n
         /\ \A m : UpTo(m, s) => UpTo(m, LastOf(s, n))
         /\ \A m : Past(m, s) => Past(m, LastOf(s, n))
<1>1. Len(s) \in Nat
  BY DEF Ordered
<1>2. PICK a : a = IF Len(s) > n THEN Len(s) - n + 1 ELSE 1
  OBVIOUS
<1>3. LastOf(s, n) = SubSeq(s, a, Len(s))
  BY <1>2 DEF LastOf
<1>4. a \in Nat \ {0} /\ Len(s) \in 0 .. Len(s)
  BY <1>1, <1>2
<1>5. Len(SubSeq(s, a, Len(s))) <= n
  BY <1>1, <1>2, <1>4, CutOrdered
<1> QED BY <1>3, <1>4, <1>5, CutOrdered

LEMMA FirstOrdered ==
  ASSUME NEW s, Ordered(s), NEW n \in Nat \ {0}
  PROVE  /\ Ordered(FirstOf(s, n)) /\ Len(FirstOf(s, n)) <= n
         /\ \A m : UpTo(m, s) => UpTo(m, FirstOf(s, n))
         /\ \A m : Past(m, s) => Past(m, FirstOf(s, n))
<1>1. Len(s) \in Nat
  BY DEF Ordered
<1>2. PICK b : b = IF Len(s) > n THEN n ELSE Len(s)
  OBVIOUS
<1>3. FirstOf(s, n) = SubSeq(s, 1, b)
  BY <1>2 DEF FirstOf
<1>4. b \in 0 .. Len(s) /\ b <= n /\ 1 \in Nat \ {0}
  BY <1>1, <1>2
<1>5. Len(SubSeq(s, 1, b)) <= n
  BY <1>1, <1>4, CutOrdered
<1> QED BY <1>3, <1>4, <1>5, CutOrdered

(* What is at the head of a queue is older than the rest. *)
LEMMA HeadFirst ==
  ASSUME NEW s, Ordered(s), s # <<>>
  PROVE  /\ Head(s) \in LogEvent /\ Ordered(Tail(s)) /\ Len(Tail(s)) = Len(s) - 1
         /\ Past(Head(s).rec, Tail(s))
         /\ \A n : UpTo(n, s) => Head(s).rec <= n /\ UpTo(n, Tail(s))
         /\ \A n : Past(n, s) => n < Head(s).rec /\ Past(n, Tail(s))
<1>1. /\ s \in Seq(LogEvent) /\ DOMAIN s = 1 .. Len(s) /\ Len(s) \in Nat /\ Len(s) >= 1
      /\ Head(s) = s[1] /\ s[1] \in LogEvent
  BY DEF Ordered
<1>2. /\ Tail(s) \in Seq(LogEvent) /\ Len(Tail(s)) = Len(s) - 1 /\ DOMAIN Tail(s) = 1 .. Len(Tail(s))
      /\ \A i \in 1 .. Len(Tail(s)) : Tail(s)[i] = s[i + 1]
  BY <1>1, HeadTailProperties
<1>3. PICK t : t = Tail(s)
  OBVIOUS
<1>4. \A i \in DOMAIN t : i \in Nat \ {0} /\ i + 1 \in DOMAIN s /\ t[i] = s[i + 1] /\ 1 < i + 1
  BY <1>1, <1>2, <1>3
<1>5. Ordered(t)
  <2> SUFFICES ASSUME NEW i \in DOMAIN t, NEW j \in DOMAIN t, i < j PROVE t[i].rec < t[j].rec
    BY <1>2, <1>3 DEF Ordered
  <2>1. i + 1 < j + 1
    BY <1>4
  <2> QED BY <1>4, <2>1 DEF Ordered
<1>6. 1 \in DOMAIN s
  BY <1>1
<1>7. Past(s[1].rec, t)
  BY <1>4, <1>6 DEF Past, Ordered
<1>8. \A n : UpTo(n, s) => s[1].rec <= n /\ UpTo(n, t)
  BY <1>4, <1>6 DEF UpTo
<1>9. \A n : Past(n, s) => n < s[1].rec /\ Past(n, t)
  BY <1>4, <1>6 DEF Past
<1> QED BY <1>1, <1>2, <1>3, <1>5, <1>7, <1>8, <1>9

LEMMA JoinOrdered ==
  ASSUME NEW s, Ordered(s), NEW t, Ordered(t), NEW n \in Int, UpTo(n, s), Past(n, t)
  PROVE  /\ Ordered(s \o t) /\ Len(s \o t) = Len(s) + Len(t)
         /\ \A m : UpTo(m, s) /\ UpTo(m, t) => UpTo(m, s \o t)
         /\ \A m : Past(m, s) /\ Past(m, t) => Past(m, s \o t)
<1>1. /\ s \in Seq(LogEvent) /\ DOMAIN s = 1 .. Len(s) /\ Len(s) \in Nat
      /\ t \in Seq(LogEvent) /\ DOMAIN t = 1 .. Len(t) /\ Len(t) \in Nat
  BY DEF Ordered
<1>2. PICK u : u = s \o t
  OBVIOUS
<1>3. /\ u \in Seq(LogEvent) /\ Len(u) = Len(s) + Len(t) /\ DOMAIN u = 1 .. Len(u)
      /\ \A i \in 1 .. Len(s) + Len(t) : u[i] = IF i <= Len(s) THEN s[i] ELSE t[i - Len(s)]
  BY <1>1, <1>2, ConcatProperties
<1>4. \A i \in DOMAIN u : \/ i \in DOMAIN s /\ u[i] = s[i]
                          \/ i \in Nat /\ i > Len(s) /\ i - Len(s) \in DOMAIN t /\ u[i] = t[i - Len(s)]
  BY <1>1, <1>3
<1>5. Ordered(u)
  <2> SUFFICES ASSUME NEW i \in DOMAIN u, NEW j \in DOMAIN u, i < j PROVE u[i].rec < u[j].rec
    BY <1>3 DEF Ordered
  <2>1. CASE i \in DOMAIN s /\ u[i] = s[i] /\ j \in DOMAIN s /\ u[j] = s[j]
    BY <2>1 DEF Ordered
  <2>2. CASE i \in DOMAIN s /\ u[i] = s[i] /\ j - Len(s) \in DOMAIN t /\ u[j] = t[j - Len(s)]
    <3>1. s[i].rec <= n /\ n < t[j - Len(s)].rec
      BY <2>2 DEF UpTo, Past
    <3>2. s[i].rec \in Int /\ t[j - Len(s)].rec \in Int
      BY <1>1, <2>2, RecsAreNumbers
    <3> QED BY <2>2, <3>1, <3>2
  <2>3. CASE i > Len(s) /\ i - Len(s) \in DOMAIN t /\ u[i] = t[i - Len(s)] /\ j - Len(s) \in DOMAIN t /\ u[j] = t[j - Len(s)]
    <3>1. i - Len(s) < j - Len(s)
      BY <1>1, <1>3
    <3> QED BY <2>3, <3>1 DEF Ordered
  <2>4. ~(i > Len(s) /\ j \in DOMAIN s)
    BY <1>1, <1>3
  <2> QED BY <1>4, <2>1, <2>2, <2>3, <2>4
<1>6. \A m : UpTo(m, s) /\ UpTo(m, t) => UpTo(m, u)
  BY <1>4 DEF UpTo
<1>7. \A m : Past(m, s) /\ Past(m, t) => Past(m, u)
  BY <1>4 DEF Past
<1> QED BY <1>2, <1>3, <1>5, <1>6, <1>7

-----------------------------------------------------------------------------
(* Records. *)
Loggable == [logger : DOMAIN Ancestry, level : Nat]

LEMMA LinesLoggable == Lines \cup {Warning, Info} \subseteq Loggable
  BY LoggersAssumption DEF Loggable, Warning, Info

(* The loggers that hold the handler while the process runs. *)
Holders == {"root"} \cup (Direct \ propagating)

(* A record has at most one way to the handler: the root logger is the     *)
(* last of every chain, and another logger that holds it does not          *)
(* propagate.                                                              *)
LEMMA HandledOnce ==
  ASSUME NEW line \in Loggable, attached \in {{}, Holders}
  PROVE  Handled(line) \in {0, 1}
<1> DEFINE chain == Ancestry[line.logger]
           ways  == {i \in DOMAIN chain : chain[i] \in attached /\ \A j \in 1 .. i - 1 : ~Mutes(chain[j])}
<1>1. /\ chain \in Seq(STRING) /\ Len(chain) \in Nat /\ DOMAIN chain = 1 .. Len(chain)
      /\ chain[Len(chain)] = "root" /\ "root" \notin Direct
      /\ \A i, j \in DOMAIN chain : chain[i] = chain[j] => i = j
  BY LoggersAssumption DEF Loggable
<1> HIDE DEF chain
<1>2. ASSUME NEW i \in ways, NEW j \in ways, i < j PROVE FALSE
  <2>1. i \in 1 .. Len(chain) /\ j \in 1 .. Len(chain) /\ i \in 1 .. j - 1 /\ i # Len(chain)
    BY <1>1, <1>2
  <2>2. chain[i] # "root"
    BY <1>1, <2>1
  <2>3. chain[i] \in attached /\ ~Mutes(chain[i])
    BY <2>1
  <2> QED BY <2>2, <2>3 DEF Mutes, Holders
<1>3. \A i, j \in ways : i = j
  BY <1>1, <1>2
<1>4. ways = {} \/ \E i : ways = {i}
  BY <1>3
<1>5. Cardinality(ways) \in {0, 1}
  BY <1>4, FS_EmptySet, FS_Singleton
<1> QED BY <1>5 DEF Handled, chain

LEMMA NumberedOrdered ==
  ASSUME NEW k \in Nat, NEW new \in [1 .. k -> LogEvent], NEW first \in Nat, NEW times \in Nat, k <= times,
         \A i \in 1 .. k : new[i].rec = first + i
  PROVE  Ordered(new) /\ Len(new) = k /\ Past(first, new) /\ UpTo(first + times, new)
<1>1. new \in Seq(LogEvent) /\ Len(new) = k /\ DOMAIN new = 1 .. k
  OBVIOUS
<1>2. \A i, j \in 1 .. k : i < j => new[i].rec < new[j].rec
  OBVIOUS
<1>3. \A i \in 1 .. k : new[i].rec <= first + times /\ first < new[i].rec
  OBVIOUS
<1> QED BY <1>1, <1>2, <1>3 DEF Ordered, UpTo, Past

(* What one step logs, in the order it logs it. *)
LEMMA NewEvents ==
  ASSUME NEW line \in Loggable, NEW n \in {0, 1}, NEW times \in Nat,
         rec \in Nat, seq \in Nat, rec + times <= MaxRecords + 1,
         NEW new, new = [i \in 1 .. n * times |->
                          [rec |-> rec + 1 + (i - 1) \div n, seq |-> seq + i,
                           source |-> Source[line.logger], level |-> line.level]]
  PROVE  Ordered(new) /\ Len(new) \in Nat /\ Past(rec, new) /\ UpTo(rec + times, new)
<1>1. PICK k \in Nat : k = n * times /\ (n = 0 => k = 0) /\ (n = 1 => k = times)
  OBVIOUS
<1>2. DOMAIN new = 1 .. k
  BY <1>1
<1>3. ASSUME NEW i \in 1 .. k
      PROVE  /\ new[i].rec = rec + i /\ i <= times
             /\ new[i] \in LogEvent
  <2>1. n = 1 /\ k = times
    BY <1>1
  <2>2. new[i] = [rec |-> rec + 1 + (i - 1) \div n, seq |-> seq + i,
                  source |-> Source[line.logger], level |-> line.level]
    BY <1>1
  <2>3. (i - 1) \div n = i - 1
    BY <2>1
  <2>4. rec + 1 + (i - 1) = rec + i /\ rec + i \in 1 .. MaxRecords + 1 /\ seq + i \in Nat
    BY <2>1, LogsAssumption
  <2>5. Source[line.logger] \in STRING /\ line.level \in Nat
    BY LoggersAssumption DEF Loggable
  <2> QED BY <2>1, <2>2, <2>3, <2>4, <2>5 DEF LogEvent
<1>4. new \in [1 .. k -> LogEvent]
  BY <1>2, <1>3
<1>5. k <= times
  BY <1>1
<1>6. \A i \in 1 .. k : new[i].rec = rec + i
  BY <1>3, Zenon
<1> QED BY <1>4, <1>5, <1>6, NumberedOrdered

-----------------------------------------------------------------------------
(* The invariant, by parts. *)
(* The buffer and the queues hold events in the order they were logged. *)
Buffered ==
  /\ rec \in 0 .. MaxRecords + 1 /\ seq \in Nat /\ subscribers \subseteq Readers
  /\ Ordered(events) /\ UpTo(rec, events) /\ Len(events) <= BufferSize
  /\ queues \in [Readers -> Seq(LogEvent)]
  /\ \A r \in Readers : Ordered(queues[r]) /\ UpTo(rec, queues[r]) /\ Len(queues[r]) <= QueueMax
  /\ \A r \in Readers \ subscribers : queues[r] = <<>>

(* The handler is where attach_handler put it, as long as the process runs. *)
Forwarders == [at : {"off", "starting", "check", "get", "dead"}, config : Configs \cup {NoConfig, Default},
               age : 0 .. Stale, waited : 0 .. 1, pruned : -1 .. MaxDay]

Running ==
  /\ up \in BOOLEAN /\ propagating \subseteq Direct /\ day \in 0 .. MaxDay
  /\ attached = IF up THEN Holders ELSE {}
  /\ fwd \in Forwarders /\ (~up => fwd = Idle)
  /\ fwd.at = "starting" => rec <= MaxRecords

(* A configuration in use that is not the stored one any more is as old as *)
(* the change, at least, and no older than the interval and one timeout.   *)
Young ==
  /\ stored \in Configs \cup {NoConfig} /\ offFor \in 0 .. Stale + 1
  /\ Enabled(stored) => offFor = 0
  /\ Enabled(fwd.config) /\ ~Enabled(stored) => offFor <= fwd.age
  /\ fwd.at = "get" => fwd.age <= ReloadTicks + fwd.waited
  /\ fwd.at \in {"off", "dead"} => fwd.config = NoConfig

(* What the files have is older than what waits to be written, and was     *)
(* written once.                                                           *)
LogFiles == [Names -> [lines : Seq(Nat), written : Int]]

Filed ==
  /\ files \in LogFiles
  /\ \A n \in Names : \A i \in DOMAIN files[n].lines :
       files[n].lines[i] \in 1 .. rec /\ Past(files[n].lines[i], queues["forwarder"])
  /\ \A m, n \in Names : \A i \in DOMAIN files[m].lines, j \in DOMAIN files[n].lines :
       files[m].lines[i] = files[n].lines[j] => m = n /\ i = j

(* What the page is still sent is newer than what it was sent; what it     *)
(* shows has no seam, or its last line is one it was sent.                 *)
Pages == [shown : Seq(LogEvent), stream : Streams \cup {NoStream}, wire : Seq(LogEvent),
          asked : {"no", "answered", "shown"}, rows : Seq(LogEvent), filter : Filters \cup {[sources |-> {}, min |-> 0]}]

Coming == IF page.stream = NoStream THEN <<>> ELSE queues[page.stream]

Seamed(shown, wire, coming) ==
  \/ Descents(shown) = {}
  \/ /\ \A i, j \in Descents(shown) : i = j
     /\ shown # <<>> /\ Past(shown[Len(shown)].rec, wire) /\ Past(shown[Len(shown)].rec, coming)

PageKeeps(p, newest, coming) ==
  /\ Ordered(p.wire) /\ UpTo(newest, p.wire)
  /\ \A i \in DOMAIN p.wire : Past(p.wire[i].rec, coming)
  /\ Ordered(p.rows) /\ UpTo(newest, p.rows) /\ Len(p.rows) <= HistoryLimit
  /\ UpTo(newest, p.shown) /\ Len(p.shown) <= ConsoleMax
  /\ Seamed(p.shown, p.wire, coming)

Shown ==
  /\ page \in Pages /\ (page.stream = NoStream => page.wire = <<>>)
  /\ PageKeeps(page, rec, Coming)

LInv == Buffered /\ Running /\ Young /\ Filed /\ Shown

-----------------------------------------------------------------------------
LEMMA HoldersWhileUp == Running => attached \in {{}, Holders}
  BY DEF Running

(* What a record does to the buffer and the queues. *)
LEMMA PublishKeeps ==
  ASSUME Buffered, attached \in {{}, Holders}, NEW line \in Loggable, NEW times \in Nat,
         rec + times <= MaxRecords + 1, NEW old, NEW listeners,
         \A r \in Readers : Ordered(old[r]) /\ UpTo(rec, old[r]),
         Publish(listeners, line, times, old)
  PROVE  /\ rec' = rec + times /\ seq' \in Nat
         /\ Ordered(events') /\ UpTo(rec', events') /\ Len(events') <= BufferSize
         /\ queues' \in [Readers -> Seq(LogEvent)]
         /\ \A r \in Readers : Ordered(queues'[r]) /\ UpTo(rec', queues'[r]) /\ Len(queues'[r]) <= QueueMax
         /\ \A r \in Readers \ listeners : queues'[r] = <<>>
         /\ \A r \in Readers : \A k \in 0 .. rec : Past(k, old[r]) => Past(k, queues'[r])
<1> DEFINE made == [i \in 1 .. Handled(line) * times |->
                     [rec |-> rec + 1 + (i - 1) \div Handled(line), seq |-> seq + i,
                      source |-> Source[line.logger], level |-> line.level]]
<1>1. PICK new : new = made
  OBVIOUS
<1>2. /\ rec' = rec + times /\ seq' = seq + Len(new)
      /\ events' = LastOf(events \o new, BufferSize)
      /\ queues' = [r \in Readers |-> IF r \in listeners THEN FirstOf(old[r] \o new, QueueMax) ELSE <<>>]
  BY <1>1 DEF Publish
<1>3. rec \in Nat /\ seq \in Nat /\ Handled(line) \in {0, 1}
      /\ BufferSize \in Nat \ {0} /\ QueueMax \in Nat \ {0}
  BY HandledOnce, LogsAssumption DEF Buffered
<1>4. Ordered(new) /\ Len(new) \in Nat /\ Past(rec, new) /\ UpTo(rec + times, new)
  BY <1>1, <1>3, NewEvents
<1> HIDE DEF made
<1>5. ASSUME NEW s, Ordered(s), UpTo(rec, s)
      PROVE  /\ Ordered(s \o new) /\ UpTo(rec + times, s \o new)
             /\ \A k \in 0 .. rec : Past(k, s) => Past(k, s \o new)
  <2>1. Ordered(s \o new) /\ \A m : UpTo(m, s) /\ UpTo(m, new) => UpTo(m, s \o new)
    BY <1>3, <1>4, <1>5, JoinOrdered
  <2>2. \A m : Past(m, s) /\ Past(m, new) => Past(m, s \o new)
    BY <1>3, <1>4, <1>5, JoinOrdered
  <2>3. \A i \in DOMAIN s : s[i].rec \in Nat
    BY <1>5, RecsAreNumbers DEF Ordered
  <2>4. UpTo(rec + times, s)
    BY <1>3, <1>5, <2>3 DEF UpTo
  <2>5. \A i \in DOMAIN new : new[i].rec \in Nat
    BY <1>4, RecsAreNumbers DEF Ordered
  <2>6. \A k \in 0 .. rec : Past(k, new)
    BY <1>3, <1>4, <2>5 DEF Past
  <2> QED BY <1>4, <2>1, <2>2, <2>4, <2>6
<1>6. Ordered(events') /\ UpTo(rec', events') /\ Len(events') <= BufferSize
  <2>1. Ordered(events \o new) /\ UpTo(rec + times, events \o new)
    BY <1>5 DEF Buffered
  <2> QED BY <1>2, <1>3, <2>1, LastOrdered
<1>7. ASSUME NEW r \in Readers
      PROVE  /\ Ordered(queues'[r]) /\ UpTo(rec', queues'[r]) /\ Len(queues'[r]) <= QueueMax
             /\ r \notin listeners => queues'[r] = <<>>
             /\ \A k \in 0 .. rec : Past(k, old[r]) => Past(k, queues'[r])
  <2>1. CASE r \in listeners
    <3>1. queues'[r] = FirstOf(old[r] \o new, QueueMax)
      BY <1>2, <2>1
    <3>2. Ordered(old[r]) /\ UpTo(rec, old[r])
      OBVIOUS
    <3>3. /\ Ordered(old[r] \o new) /\ UpTo(rec + times, old[r] \o new)
          /\ \A k \in 0 .. rec : Past(k, old[r]) => Past(k, old[r] \o new)
      BY <1>5, <3>2
    <3> QED BY <1>2, <1>3, <2>1, <3>1, <3>3, FirstOrdered
  <2>2. CASE r \notin listeners
    <3>1. queues'[r] = <<>>
      BY <1>2, <2>2
    <3>2. Len(<<>>) <= QueueMax
      BY <1>3, NoEvents
    <3> QED BY <2>2, <3>1, <3>2, NoEvents
  <2> QED BY <2>1, <2>2
<1>8. queues' \in [Readers -> Seq(LogEvent)]
  <2>1. \A r \in Readers : queues'[r] \in Seq(LogEvent)
    BY <1>7 DEF Ordered
  <2>2. DOMAIN queues' = Readers /\ queues' = [r \in Readers |-> queues'[r]]
    BY <1>2
  <2> QED BY <2>1, <2>2
<1> QED BY <1>2, <1>3, <1>4, <1>6, <1>7, <1>8

LEMMA RecordKeeps ==
  ASSUME Buffered, attached \in {{}, Holders}, NEW line \in Loggable, NEW times \in Nat,
         rec + times <= MaxRecords + 1, NEW old,
         \A r \in Readers : Ordered(old[r]) /\ UpTo(rec, old[r]),
         Record(line, times, old)
  PROVE  /\ rec' = rec + times /\ seq' \in Nat
         /\ Ordered(events') /\ UpTo(rec', events') /\ Len(events') <= BufferSize
         /\ queues' \in [Readers -> Seq(LogEvent)]
         /\ \A r \in Readers : Ordered(queues'[r]) /\ UpTo(rec', queues'[r]) /\ Len(queues'[r]) <= QueueMax
         /\ \A r \in Readers \ subscribers : queues'[r] = <<>>
         /\ \A r \in Readers : \A k \in 0 .. rec : Past(k, old[r]) => Past(k, queues'[r])
  BY PublishKeeps DEF Record

(* Every step logs what it logs after all there is. *)
Grown ==
  /\ rec' \in Nat /\ rec \in 0 .. rec'
  /\ \A r \in Readers : \A k \in 0 .. rec : Past(k, queues[r]) => Past(k, queues'[r])

(* A step that logs one line. *)
LEMMA LogKeeps ==
  ASSUME Buffered, attached \in {{}, Holders}, NEW line \in Loggable, rec <= MaxRecords, Log(line),
         subscribers' \in SUBSET Readers, subscribers \subseteq subscribers'
  PROVE  Buffered' /\ Grown /\ rec' = rec + 1
<1>1. 1 \in Nat /\ rec \in Nat /\ rec + 1 <= MaxRecords + 1 /\ Record(line, 1, queues)
  BY LogsAssumption DEF Buffered, Log
<1>2. \A r \in Readers : Ordered(queues[r]) /\ UpTo(rec, queues[r])
  BY DEF Buffered
<1>3. /\ rec' = rec + 1 /\ seq' \in Nat
      /\ Ordered(events') /\ UpTo(rec', events') /\ Len(events') <= BufferSize
      /\ queues' \in [Readers -> Seq(LogEvent)]
      /\ \A r \in Readers : Ordered(queues'[r]) /\ UpTo(rec', queues'[r]) /\ Len(queues'[r]) <= QueueMax
      /\ \A r \in Readers \ subscribers : queues'[r] = <<>>
      /\ \A r \in Readers : \A k \in 0 .. rec : Past(k, queues[r]) => Past(k, queues'[r])
  BY <1>1, <1>2, RecordKeeps
<1>4. rec' \in 0 .. MaxRecords + 1 /\ rec \in 0 .. rec'
  BY <1>1, <1>3, LogsAssumption
<1>5. \A r \in Readers \ subscribers' : queues'[r] = <<>>
  BY <1>3
<1> QED BY <1>3, <1>4, <1>5 DEF Buffered, Grown

LEMMA QuietKeeps ==
  ASSUME Buffered, UNCHANGED <<logVars, subscribers>>
  PROVE  Buffered' /\ Grown
<1>1. Buffered'
  BY DEF Buffered, logVars, UpTo, Ordered
<1>2. rec' = rec /\ queues' = queues /\ rec \in Nat
  BY DEF Buffered, logVars
<1> QED BY <1>1, <1>2 DEF Grown

LEMMA StopKeeps == Buffered /\ Stop => Buffered' /\ Grown
<1> SUFFICES ASSUME Buffered, Stop PROVE Buffered' /\ Grown
  OBVIOUS
<1>1. PICK none : none = <<>>
  OBVIOUS
<1>2. /\ rec' = rec /\ seq' = 0 /\ events' = none /\ subscribers' = {}
      /\ queues' = [r \in Readers |-> none]
  BY <1>1 DEF Stop
<1>3. Ordered(none) /\ Len(none) = 0 /\ \A n : UpTo(n, none) /\ Past(n, none)
  BY <1>1, NoEvents
<1>4. none \in Seq(LogEvent) /\ rec \in Nat /\ BufferSize \in Nat /\ QueueMax \in Nat
  BY <1>3, LogsAssumption DEF Ordered, Buffered
<1>5. \A r \in Readers : queues'[r] = none
  BY <1>2
<1>6. Buffered'
  BY <1>1, <1>2, <1>3, <1>4, <1>5 DEF Buffered
<1>7. Grown
  BY <1>2, <1>3, <1>4, <1>5 DEF Grown
<1> QED BY <1>6, <1>7

LEMMA OverdueIsFinite == \A gone : Cardinality(Overdue(fwd.config) \ gone) \in Nat
<1>1. IsFiniteSet(Names)
  <2>1. IsFiniteSet(0 .. MaxDay)
    BY FS_Interval, LogsAssumption
  <2>2. Names = (0 .. MaxDay) \cup {Undated}
    BY DEF Names
  <2> QED BY <2>1, <2>2, FS_AddElement
<1>2. \A gone : Overdue(fwd.config) \ gone \subseteq Names
  BY DEF Overdue, Prunable
<1> QED BY <1>1, <1>2, FS_Subset, FS_CardinalityType

LEMMA TakeKeeps ==
  ASSUME Buffered, Running, Take
  PROVE  /\ Buffered' /\ Grown
         /\ \A k \in 0 .. rec : Past(k, Tail(queues["forwarder"])) => Past(k, queues'["forwarder"])
<1>1. PICK rest : rest = [queues EXCEPT !["forwarder"] = Tail(@)]
  OBVIOUS
<1>2. queues["forwarder"] # <<>> /\ subscribers' = subscribers /\ "forwarder" \in Readers
  BY DEF Take, Readers
<1> DEFINE overdue(gone) == IF Prunes(fwd.config) THEN Cardinality(Overdue(fwd.config) \ gone) ELSE 0
<1>3. PICK failed \in BOOLEAN, gone \in SUBSET Prunable(fwd.config) :
        /\ failed \/ overdue(gone) > 0 => Room(overdue(gone) + (IF failed THEN 1 ELSE 0))
        /\ Record(Warning, overdue(gone) + (IF failed THEN 1 ELSE 0), rest)
  BY <1>1 DEF Take
<1>4. PICK kept : kept = overdue(gone)
  OBVIOUS
<1>5. PICK times : times = kept + (IF failed THEN 1 ELSE 0)
  OBVIOUS
<1>6. kept \in Nat
  BY <1>4, OverdueIsFinite
<1>7. times \in Nat /\ (times > 0 => rec + times <= MaxRecords) /\ rec \in 0 .. MaxRecords + 1
  BY <1>3, <1>4, <1>5, <1>6 DEF Room, Buffered
<1>8. rec + times <= MaxRecords + 1
  BY <1>7, LogsAssumption
<1>9. ASSUME NEW r \in Readers
      PROVE  /\ Ordered(rest[r]) /\ UpTo(rec, rest[r])
             /\ \A k : Past(k, queues[r]) => Past(k, rest[r])
  <2>1. Ordered(queues[r]) /\ UpTo(rec, queues[r]) /\ DOMAIN queues = Readers
    BY DEF Buffered
  <2>2. CASE r = "forwarder"
    <3>1. rest[r] = Tail(queues[r])
      BY <1>1, <2>1, <2>2
    <3>2. queues[r] # <<>>
      BY <1>2, <2>2
    <3> QED BY <2>1, <3>1, <3>2, HeadFirst
  <2>3. CASE r # "forwarder"
    BY <1>1, <2>1, <2>3
  <2> QED BY <2>2, <2>3
<1>10. Record(Warning, times, rest) /\ Warning \in Loggable /\ attached \in {{}, Holders}
  BY <1>3, <1>4, <1>5, LinesLoggable, HoldersWhileUp
<1>11. /\ rec' = rec + times /\ seq' \in Nat
       /\ Ordered(events') /\ UpTo(rec', events') /\ Len(events') <= BufferSize
       /\ queues' \in [Readers -> Seq(LogEvent)]
       /\ \A r \in Readers : Ordered(queues'[r]) /\ UpTo(rec', queues'[r]) /\ Len(queues'[r]) <= QueueMax
       /\ \A r \in Readers \ subscribers : queues'[r] = <<>>
       /\ \A r \in Readers : \A k \in 0 .. rec : Past(k, rest[r]) => Past(k, queues'[r])
  BY <1>7, <1>8, <1>9, <1>10, RecordKeeps
<1>12. rec' \in 0 .. MaxRecords + 1 /\ rec' \in Nat /\ rec \in 0 .. rec' /\ subscribers \subseteq Readers
  BY <1>7, <1>8, <1>11 DEF Buffered
<1>13. Buffered'
  BY <1>2, <1>11, <1>12 DEF Buffered
<1>14. Grown
  BY <1>9, <1>11, <1>12 DEF Grown
<1>15. rest["forwarder"] = Tail(queues["forwarder"])
  BY <1>1, <1>2 DEF Buffered
<1>16. \A k \in 0 .. rec : Past(k, Tail(queues["forwarder"])) => Past(k, queues'["forwarder"])
  BY <1>2, <1>11, <1>15
<1> QED BY <1>13, <1>14, <1>16

(* The last lines of the task reach everyone but itself. *)
LEMMA DieKeeps ==
  ASSUME Buffered, Running, Die
  PROVE  Buffered' /\ Grown /\ queues'["forwarder"] = <<>>
<1>1. PICK listeners : listeners = subscribers \ {"forwarder"}
  OBVIOUS
<1>2. /\ subscribers' = listeners /\ listeners \subseteq Readers /\ "forwarder" \in Readers \ listeners
      /\ rec \in 0 .. MaxRecords + 1 /\ MaxRecords \in Nat
  BY <1>1, LogsAssumption DEF Die, Buffered, Readers
<1>3. PICK times \in Nat : (times > 0 => Room(times)) /\ Publish(listeners, Warning, times, queues)
  <2>1. CASE Publish(listeners, Warning, 0, queues)
    BY <2>1
  <2>2. CASE \E failed \in BOOLEAN, gone \in SUBSET Prunable(fwd.config) :
              \E kept \in 0 .. Cardinality(Overdue(fwd.config) \ gone) :
                /\ kept + (IF failed THEN 1 ELSE 0) > 0 => Room(kept + (IF failed THEN 1 ELSE 0))
                /\ Publish(listeners, Warning, kept + (IF failed THEN 1 ELSE 0), queues)
    <3>1. PICK failed \in BOOLEAN, gone \in SUBSET Prunable(fwd.config) :
            \E kept \in 0 .. Cardinality(Overdue(fwd.config) \ gone) :
              /\ kept + (IF failed THEN 1 ELSE 0) > 0 => Room(kept + (IF failed THEN 1 ELSE 0))
              /\ Publish(listeners, Warning, kept + (IF failed THEN 1 ELSE 0), queues)
      BY <2>2
    <3>2. PICK kept \in 0 .. Cardinality(Overdue(fwd.config) \ gone) :
              /\ kept + (IF failed THEN 1 ELSE 0) > 0 => Room(kept + (IF failed THEN 1 ELSE 0))
              /\ Publish(listeners, Warning, kept + (IF failed THEN 1 ELSE 0), queues)
      BY <3>1
    <3>3. kept + (IF failed THEN 1 ELSE 0) \in Nat
      BY OverdueIsFinite
    <3> QED BY <3>2, <3>3
  <2> QED BY <1>1, <2>1, <2>2 DEF Die
<1>4. rec + times <= MaxRecords + 1
  BY <1>2, <1>3 DEF Room
<1>5. \A r \in Readers : Ordered(queues[r]) /\ UpTo(rec, queues[r])
  BY DEF Buffered
<1>6. /\ rec' = rec + times /\ seq' \in Nat
      /\ Ordered(events') /\ UpTo(rec', events') /\ Len(events') <= BufferSize
      /\ queues' \in [Readers -> Seq(LogEvent)]
      /\ \A r \in Readers : Ordered(queues'[r]) /\ UpTo(rec', queues'[r]) /\ Len(queues'[r]) <= QueueMax
      /\ \A r \in Readers \ listeners : queues'[r] = <<>>
      /\ \A r \in Readers : \A k \in 0 .. rec : Past(k, queues[r]) => Past(k, queues'[r])
  BY <1>3, <1>4, <1>5, LinesLoggable, HoldersWhileUp, PublishKeeps
<1>7. rec' \in 0 .. MaxRecords + 1 /\ rec' \in Nat /\ rec \in 0 .. rec'
  BY <1>2, <1>3, <1>4, <1>6
<1>8. Buffered'
  BY <1>2, <1>6, <1>7 DEF Buffered
<1> QED BY <1>2, <1>6, <1>7, <1>8 DEF Grown

(* Of /api/logs. *)
LEMMA SendKeeps == ASSUME NEW s \in Streams, Buffered, SendEvent(s) PROVE Buffered' /\ Grown
<1>1. /\ s \in Readers /\ queues[s] # <<>> /\ queues' = [queues EXCEPT ![s] = Tail(@)]
      /\ rec' = rec /\ seq' = seq /\ events' = events /\ subscribers' = subscribers /\ s \in subscribers
  BY DEF SendEvent, Readers
<1>2. /\ queues \in [Readers -> Seq(LogEvent)]
      /\ \A r \in Readers : Ordered(queues[r]) /\ UpTo(rec, queues[r]) /\ Len(queues[r]) <= QueueMax
      /\ rec \in Nat /\ QueueMax \in Nat
  BY LogsAssumption DEF Buffered
<1>3. PICK rest : rest = Tail(queues[s])
  OBVIOUS
<1>4. /\ Ordered(rest) /\ Len(rest) = Len(queues[s]) - 1
      /\ \A n : UpTo(n, queues[s]) => UpTo(n, rest)
      /\ \A n : Past(n, queues[s]) => Past(n, rest)
  BY <1>1, <1>2, <1>3, HeadFirst
<1>5. rest \in Seq(LogEvent) /\ Len(rest) <= QueueMax /\ UpTo(rec, rest)
  BY <1>1, <1>2, <1>4 DEF Ordered
<1>6. queues'[s] = rest /\ \A r \in Readers \ {s} : queues'[r] = queues[r]
  BY <1>1, <1>2, <1>3
<1>7. queues' \in [Readers -> Seq(LogEvent)]
  BY <1>1, <1>2, <1>3, <1>5
<1>8. \A r \in Readers : Ordered(queues'[r]) /\ UpTo(rec, queues'[r]) /\ Len(queues'[r]) <= QueueMax
  BY <1>2, <1>4, <1>5, <1>6
<1>9. \A r \in Readers \ subscribers : queues'[r] = <<>>
  BY <1>1, <1>6 DEF Buffered
<1>10. Buffered'
  BY <1>1, <1>7, <1>8, <1>9 DEF Buffered
<1>11. \A r \in Readers : \A k \in 0 .. rec : Past(k, queues[r]) => Past(k, queues'[r])
  <2> SUFFICES ASSUME NEW r \in Readers, NEW k \in 0 .. rec, Past(k, queues[r]) PROVE Past(k, queues'[r])
    OBVIOUS
  <2>1. CASE r = s
    BY <1>4, <1>6, <2>1
  <2>2. CASE r # s
    BY <1>6, <2>2
  <2> QED BY <2>1, <2>2
<1>12. Grown
  BY <1>1, <1>2, <1>11 DEF Grown
<1> QED BY <1>10, <1>12

LEMMA CloseKeeps == ASSUME NEW s \in Streams, Buffered, CloseStream(s) PROVE Buffered' /\ Grown
<1>1. PICK none : none = <<>>
  OBVIOUS
<1>2. /\ s \in Readers /\ queues' = [queues EXCEPT ![s] = none]
      /\ rec' = rec /\ seq' = seq /\ events' = events /\ subscribers' = subscribers \ {s}
  BY <1>1 DEF CloseStream, Readers
<1>3. Ordered(none) /\ Len(none) = 0 /\ \A n : UpTo(n, none) /\ Past(n, none)
  BY <1>1, NoEvents
<1>4. none \in Seq(LogEvent) /\ rec \in Nat /\ QueueMax \in Nat /\ queues \in [Readers -> Seq(LogEvent)]
  BY <1>3, LogsAssumption DEF Ordered, Buffered
<1>5. queues'[s] = none /\ \A r \in Readers \ {s} : queues'[r] = queues[r]
  BY <1>2, <1>4
<1>6. queues' \in [Readers -> Seq(LogEvent)]
  BY <1>2, <1>4
<1>7. \A r \in Readers : Ordered(queues'[r]) /\ UpTo(rec, queues'[r]) /\ Len(queues'[r]) <= QueueMax
  BY <1>3, <1>4, <1>5 DEF Buffered
<1>8. \A r \in Readers \ (subscribers \ {s}) : queues'[r] = <<>>
  BY <1>1, <1>5 DEF Buffered
<1>9. Buffered'
  BY <1>2, <1>6, <1>7, <1>8 DEF Buffered
<1>10. Grown
  BY <1>2, <1>3, <1>4, <1>5 DEF Grown
<1> QED BY <1>9, <1>10

LEMMA OpenKeeps == ASSUME NEW s \in Streams, Buffered, OpenStream(s) PROVE Buffered' /\ Grown
<1>1. subscribers' = subscribers \cup {s} /\ s \in Readers
      /\ rec' = rec /\ seq' = seq /\ events' = events /\ queues' = queues
  BY DEF OpenStream, logVars, Readers
<1>2. Buffered'
  BY <1>1 DEF Buffered
<1>3. Grown
  BY <1>1 DEF Grown, Buffered
<1> QED BY <1>2, <1>3

LEMMA ConsoleKeeps == Buffered /\ Console => Buffered' /\ Grown
<1> SUFFICES ASSUME Buffered, Console PROVE Buffered' /\ Grown
  OBVIOUS
<1>1. ASSUME NEW s \in Streams, OpenStream(s) \/ SendEvent(s) \/ CloseStream(s) PROVE Buffered' /\ Grown
  BY <1>1, OpenKeeps, SendKeeps, CloseKeeps
<1>2. CASE LoseStream \/ AnswerHistory \/ ShowHistory \/ Receive \/ Clear
  <2>1. UNCHANGED <<logVars, subscribers>>
    BY <1>2 DEF LoseStream, AnswerHistory, ShowHistory, Receive, Clear
  <2> QED BY <2>1, QuietKeeps
<1> QED BY <1>1, <1>2 DEF Console

LEMMA BufferedStep == LInv /\ [Next]_vars => Buffered' /\ Grown
<1> SUFFICES ASSUME LInv, [Next]_vars PROVE Buffered' /\ Grown
  OBVIOUS
<1>1. /\ Buffered /\ Running /\ attached \in {{}, Holders} /\ subscribers \subseteq Readers
      /\ rec \in 0 .. MaxRecords + 1 /\ MaxRecords \in Nat
  BY HoldersWhileUp, LogsAssumption DEF LInv, Buffered
<1>2. CASE Emit
  <2>1. PICK line \in Loggable : Log(line)
    BY <1>2, LinesLoggable DEF Emit
  <2>2. rec <= MaxRecords /\ subscribers' = subscribers
    BY <1>1, <1>2 DEF Emit, Room
  <2> QED BY <1>1, <2>1, <2>2, LogKeeps
<1>3. CASE PutLogForwarding
  <2>1. Info \in Loggable /\ Log(Info)
    BY <1>3, LinesLoggable DEF PutLogForwarding
  <2>2. rec <= MaxRecords /\ subscribers' = subscribers
    BY <1>1, <1>3 DEF PutLogForwarding, Room
  <2> QED BY <1>1, <2>1, <2>2, LogKeeps
<1>4. CASE Begin
  <2>1. Info \in Loggable /\ Log(Info)
    BY <1>4, LinesLoggable DEF Begin
  <2>2. rec <= MaxRecords /\ subscribers' \in SUBSET Readers /\ subscribers \subseteq subscribers'
    BY <1>1, <1>4 DEF Begin, Running, Readers
  <2> QED BY <1>1, <2>1, <2>2, LogKeeps
<1>5. CASE Check
  <2>1. CASE UNCHANGED logVars
    BY <1>1, <1>5, <2>1, QuietKeeps DEF Check
  <2>2. CASE Room(1) /\ Log(Warning)
    <3>1. rec <= MaxRecords /\ subscribers' = subscribers /\ Warning \in Loggable
      BY <1>1, <1>5, <2>2, LinesLoggable DEF Check, Room
    <3> QED BY <1>1, <2>2, <3>1, LogKeeps
  <2> QED BY <1>5, <2>1, <2>2 DEF Check
<1>6. CASE Start \/ Timeout \/ Tick \/ NextDay \/ UNCHANGED vars
  <2>1. UNCHANGED <<logVars, subscribers>>
    BY <1>6 DEF Start, Timeout, Tick, NextDay, vars, logVars
  <2> QED BY <1>1, <2>1, QuietKeeps
<1> QED BY <1>1, <1>2, <1>3, <1>4, <1>5, <1>6, StopKeeps, TakeKeeps, DieKeeps, ConsoleKeeps DEF Next, Forwarder

-----------------------------------------------------------------------------
(* The process and its forwarder. *)
LEMMA IdleIsForwarder == Idle \in Forwarders
  BY LogsAssumption DEF Idle, Forwarders, Stale

LEMMA RunningStep == LInv /\ [Next]_vars => Running'
<1> SUFFICES ASSUME LInv, [Next]_vars PROVE Running'
  OBVIOUS
<1>1. Running /\ Buffered /\ fwd \in Forwarders /\ ReloadTicks \in Nat /\ MaxRecords \in Nat
      /\ stored \in Configs \cup {NoConfig} /\ rec \in Nat
  BY LogsAssumption DEF LInv, Running, Young, Buffered
<1>2. propagating' = propagating
  BY DEF Next, Emit, Start, Stop, PutLogForwarding, Forwarder, Begin, Check, Take, Die, Timeout, Tick, NextDay,
     Console, OpenStream, SendEvent, CloseStream, LoseStream, AnswerHistory, ShowHistory, Receive, Clear,
     pageless, vars
<1>3. Holders' = Holders
  BY <1>2 DEF Holders
<1>4. CASE UNCHANGED <<up, attached, fwd, day>> /\ (rec' = rec \/ rec' <= MaxRecords)
  <2>1. fwd.at = "starting" => rec' <= MaxRecords
    BY <1>1, <1>4 DEF Running
  <2> QED BY <1>1, <1>2, <1>3, <1>4, <2>1 DEF Running
<1>5. CASE Start
  <2>1. up' = TRUE /\ attached' = Holders /\ day' = day /\ rec' = rec /\ rec <= MaxRecords
        /\ fwd' = [Idle EXCEPT !.at = "starting"]
    BY <1>1, <1>5 DEF Start, AttachHandler, Holders, logVars, Room
  <2>2. fwd' \in Forwarders
    BY <2>1, IdleIsForwarder DEF Forwarders
  <2> QED BY <1>1, <1>2, <1>3, <2>1, <2>2 DEF Running
<1>6. CASE Stop
  <2>1. up' = FALSE /\ attached' = {} /\ day' = day /\ fwd' = Idle /\ Idle.at = "off"
    BY <1>6 DEF Stop, Idle
  <2> QED BY <1>1, <1>2, <1>3, <2>1, IdleIsForwarder DEF Running
<1>7. CASE Begin \/ Check \/ Take \/ Die \/ Timeout \/ (Tick /\ Forwards)
  <2>1. up' = up /\ attached' = attached /\ day' = day
    BY <1>7 DEF Begin, Check, Take, Die, Timeout, Tick
  <2>2. fwd.at # "off" /\ fwd' \in Forwarders /\ fwd'.at # "starting"
    <3>1. CASE Begin
      BY <1>1, <3>1 DEF Begin, Forwarders
    <3>2. CASE Check
      <4>1. 0 \in 0 .. Stale /\ 0 \in 0 .. 1
        BY <1>1 DEF Stale
      <4> QED BY <1>1, <3>2, <4>1 DEF Check, Forwarders
    <3>3. CASE Take
      <4>1. fwd.at = "get" /\ day \in -1 .. MaxDay
        BY <1>1, <3>3, LogsAssumption DEF Take, Running
      <4>2. fwd' = [fwd EXCEPT !.at = "check", !.pruned = day] \/ fwd' = [fwd EXCEPT !.at = "check", !.pruned = @]
        BY <3>3 DEF Take
      <4> QED BY <1>1, <4>1, <4>2 DEF Forwarders
    <3>4. CASE Timeout
      BY <1>1, <3>4 DEF Timeout, Forwarders
    <3>5. CASE Tick /\ Forwards
      <4>1. fwd.at = "get" /\ fwd' = [fwd EXCEPT !.waited = 1, !.age = Capped(fwd.age + 1, Stale)]
        BY <3>5 DEF Tick
      <4>2. fwd.age \in 0 .. Stale /\ Stale \in Nat
        BY <1>1 DEF Forwarders, Stale
      <4>3. Capped(fwd.age + 1, Stale) \in 0 .. Stale /\ 1 \in 0 .. 1
        BY <4>2 DEF Capped
      <4> QED BY <1>1, <4>1, <4>3 DEF Forwarders
    <3>6. CASE Die
      <4>1. fwd.at = "get" /\ fwd' = [Idle EXCEPT !.at = "dead"]
        BY <3>6 DEF Die
      <4> QED BY <4>1, IdleIsForwarder DEF Forwarders
    <3> QED BY <1>7, <3>1, <3>2, <3>3, <3>4, <3>5, <3>6
  <2>3. Idle.at = "off"
    BY DEF Idle
  <2>4. up = TRUE
    BY <1>1, <2>2, <2>3 DEF Running
  <2> QED BY <1>1, <1>2, <1>3, <2>1, <2>2, <2>4 DEF Running
<1>8. CASE NextDay
  <2>1. UNCHANGED <<up, attached, fwd>> /\ rec' = rec /\ day' \in 0 .. MaxDay
    BY <1>1, <1>8, LogsAssumption DEF NextDay, logVars, Running
  <2> QED BY <1>1, <1>2, <1>3, <2>1 DEF Running
<1>9. CASE Emit \/ PutLogForwarding
  <2>1. UNCHANGED <<up, attached, fwd, day>> /\ rec + 1 <= MaxRecords /\ \E line : Log(line)
    BY <1>9 DEF Emit, PutLogForwarding, Room
  <2>2. rec' = rec + 1
    BY <2>1 DEF Log, Record, Publish
  <2> QED BY <1>4, <2>1, <2>2
<1>10. CASE Console \/ UNCHANGED vars
  <2>1. UNCHANGED <<up, attached, fwd, day, rec>>
    BY <1>10 DEF Console, OpenStream, SendEvent, CloseStream, LoseStream, AnswerHistory, ShowHistory,
       Receive, Clear, pageless, logVars, vars
  <2> QED BY <1>4, <2>1
<1>11. CASE Tick /\ ~Forwards
  <2>1. UNCHANGED <<up, attached, fwd, day, rec>>
    BY <1>11 DEF Tick, logVars
  <2> QED BY <1>4, <2>1
<1> QED BY <1>1, <1>5, <1>6, <1>7, <1>8, <1>9, <1>10, <1>11 DEF Next, Forwarder

-----------------------------------------------------------------------------
(* What the forwarder would write with. *)
LEMMA YoungStep == LInv /\ [Next]_vars => Young'
<1> SUFFICES ASSUME LInv, [Next]_vars PROVE Young'
  OBVIOUS
<1>1. /\ Young /\ fwd \in Forwarders /\ ReloadTicks \in Nat /\ Stale = ReloadTicks + 1
      /\ stored \in Configs \cup {NoConfig} /\ offFor \in 0 .. Stale + 1
      /\ fwd.age \in 0 .. Stale /\ fwd.waited \in 0 .. 1
  BY LogsAssumption DEF LInv, Running, Young, Stale, Forwarders
<1>2. ~Enabled(NoConfig) /\ ~Enabled(Default) /\ ~Enabled(Idle.config) /\ Idle.at = "off"
  BY DEF Enabled, Default, Idle
<1>3. CASE UNCHANGED <<stored, offFor, fwd>>
  BY <1>1, <1>3 DEF Young, Enabled
<1>4. CASE Start \/ Stop \/ Die
  <2>1. stored' = stored /\ offFor' = offFor /\ fwd'.config = NoConfig /\ fwd'.at # "get"
    BY <1>4 DEF Start, Stop, Die, Idle
  <2> QED BY <1>1, <1>2, <2>1 DEF Young, Enabled
<1>5. CASE PutLogForwarding
  <2>1. PICK cfg \in Configs : stored' = cfg /\ offFor' = IF cfg.enabled THEN 0 ELSE offFor
    BY <1>5 DEF PutLogForwarding
  <2>2. fwd' = fwd /\ cfg # NoConfig /\ cfg.enabled \in BOOLEAN
    BY <1>5, LogsAssumption DEF PutLogForwarding
  <2>3. Enabled(cfg) <=> cfg.enabled
    BY <2>2 DEF Enabled
  <2>4. offFor' \in 0 .. Stale + 1 /\ (Enabled(cfg) => offFor' = 0)
    BY <1>1, <2>1, <2>3
  <2>5. Enabled(fwd.config) /\ ~Enabled(cfg) => offFor' <= fwd.age
    <3>1. CASE Enabled(stored)
      BY <1>1, <2>1, <3>1 DEF Young
    <3>2. CASE ~Enabled(stored)
      BY <1>1, <2>1, <2>3, <3>2 DEF Young
    <3> QED BY <3>1, <3>2
  <2>6. Enabled(stored)' = Enabled(cfg) /\ Enabled(fwd.config)' = Enabled(fwd.config)
    BY <2>1, <2>2 DEF Enabled
  <2> QED BY <1>1, <2>1, <2>2, <2>4, <2>5, <2>6 DEF Young
<1>6. CASE Begin \/ Take \/ Timeout
  <2>1. /\ stored' = stored /\ offFor' = offFor /\ fwd'.config = fwd.config /\ fwd'.age = fwd.age
        /\ fwd'.at = "check"
    BY <1>1, <1>6 DEF Begin, Take, Timeout, Forwarders
  <2> QED BY <1>1, <2>1 DEF Young, Enabled
<1>7. CASE Check
  <2>1. stored' = stored /\ offFor' = offFor /\ fwd'.at = "get" /\ fwd'.waited = 0
    BY <1>1, <1>7 DEF Check, Forwarders
  <2>2. CASE fwd'.config = fwd.config /\ fwd'.age = fwd.age /\ fwd.age <= ReloadTicks
    BY <1>1, <2>1, <2>2 DEF Young, Enabled
  <2>3. CASE fwd'.age = 0 /\ fwd'.config \in {Default, stored}
    <3>1. ~(Enabled(fwd'.config) /\ ~Enabled(stored))
      BY <1>2, <2>3
    <3>2. Enabled(fwd.config)' = Enabled(fwd'.config) /\ Enabled(stored)' = Enabled(stored)
      BY <2>1 DEF Enabled
    <3> QED BY <1>1, <2>1, <2>3, <3>1, <3>2 DEF Young
  <2>4. \/ fwd'.config = fwd.config /\ fwd'.age = fwd.age /\ fwd.age <= ReloadTicks
        \/ fwd'.age = 0 /\ fwd'.config \in {Default, stored}
    BY <1>1, <1>7 DEF Check, Forwarders
  <2> QED BY <2>2, <2>3, <2>4
<1>8. CASE Tick
  <2>1. stored' = stored /\ offFor' = IF Enabled(stored) THEN 0 ELSE Capped(offFor + 1, Stale + 1)
    BY <1>8 DEF Tick
  <2>2. Enabled(stored)' = Enabled(stored)
    BY <2>1 DEF Enabled
  <2>3. offFor' \in 0 .. Stale + 1 /\ (Enabled(stored) => offFor' = 0)
        /\ (~Enabled(stored) => offFor' <= offFor + 1)
    BY <1>1, <2>1 DEF Capped
  <2>4. CASE Forwards
    <3>1. fwd.at = "get" /\ fwd.waited = 0 /\ fwd' = [fwd EXCEPT !.waited = 1, !.age = Capped(fwd.age + 1, Stale)]
      BY <1>8, <2>4 DEF Tick
    <3>2. fwd.age <= ReloadTicks
      BY <1>1, <3>1 DEF Young
    <3>3. Capped(fwd.age + 1, Stale) = fwd.age + 1
      BY <1>1, <3>2 DEF Capped
    <3>4. fwd'.age = fwd.age + 1 /\ fwd'.waited = 1 /\ fwd'.config = fwd.config /\ fwd'.at = "get"
      BY <1>1, <3>1, <3>3 DEF Forwarders
    <3>5. Enabled(fwd.config)' = Enabled(fwd.config)
      BY <3>4 DEF Enabled
    <3>6. Enabled(fwd.config) /\ ~Enabled(stored) => offFor' <= fwd.age + 1
      BY <1>1, <2>3 DEF Young
    <3> QED BY <1>1, <2>1, <2>2, <2>3, <3>2, <3>4, <3>5, <3>6 DEF Young
  <2>5. CASE ~Forwards
    <3>1. fwd' = fwd /\ fwd.at \in {"off", "dead"} /\ ~Enabled(fwd.config) /\ fwd.config = NoConfig
      BY <1>2, <1>8, <2>5 DEF Tick, Forwards, LInv, Running, Young
    <3>2. ~Enabled(fwd.config)' /\ fwd'.at # "get" /\ fwd'.config = NoConfig
      BY <3>1 DEF Enabled
    <3> QED BY <1>1, <2>1, <2>2, <2>3, <3>2 DEF Young
  <2> QED BY <2>4, <2>5
<1>9. CASE Emit \/ NextDay \/ Console \/ UNCHANGED vars
  <2>1. UNCHANGED <<stored, offFor, fwd>>
    BY <1>9 DEF Emit, NextDay, Console, OpenStream, SendEvent, CloseStream, LoseStream, AnswerHistory,
       ShowHistory, Receive, Clear, pageless, vars
  <2> QED BY <1>3, <2>1
<1> QED BY <1>4, <1>5, <1>6, <1>7, <1>8, <1>9 DEF Next, Forwarder

-----------------------------------------------------------------------------
(* The files. *)
LEMMA FilesStay == Filed /\ Grown /\ files' = files => Filed'
<1> SUFFICES ASSUME Filed, Grown, files' = files PROVE Filed'
  OBVIOUS
<1>1. "forwarder" \in Readers /\ rec \in 0 .. rec' /\ rec' \in Int
  BY DEF Readers, Grown
<1>2. ASSUME NEW n \in Names, NEW i \in DOMAIN files[n].lines
      PROVE  files[n].lines[i] \in 1 .. rec' /\ Past(files[n].lines[i], queues'["forwarder"])
  <2>1. files[n].lines[i] \in 1 .. rec /\ Past(files[n].lines[i], queues["forwarder"])
    BY DEF Filed
  <2>2. files[n].lines[i] \in 0 .. rec
    BY <2>1
  <2>3. Past(files[n].lines[i], queues'["forwarder"])
    BY <1>1, <2>1, <2>2 DEF Grown
  <2> QED BY <1>1, <2>1, <2>3
<1> QED BY <1>2 DEF Filed

(* An event that is taken from the queue is newer than any written before, *)
(* and older than all that is taken later.                                 *)
LEMMA WrittenOnce ==
  ASSUME LInv, Grown, queues["forwarder"] # <<>>, NEW failed \in BOOLEAN, NEW gone, files' = Written(failed, gone),
         \A k \in 0 .. rec : Past(k, Tail(queues["forwarder"])) => Past(k, queues'["forwarder"])
  PROVE  Filed'
<1>1. /\ Buffered /\ Running /\ Filed /\ "forwarder" \in Readers
      /\ day \in 0 .. MaxDay /\ rec \in Nat
  BY LogsAssumption DEF LInv, Running, Buffered, Readers
<1>2. /\ rec' \in Int /\ rec \in 0 .. rec'
      /\ \A k \in 0 .. rec : Past(k, queues["forwarder"]) => Past(k, queues'["forwarder"])
      /\ \A k \in 0 .. rec : Past(k, Tail(queues["forwarder"])) => Past(k, queues'["forwarder"])
  BY <1>1 DEF Grown
<1>3. PICK new : new = Head(queues["forwarder"]).rec
  OBVIOUS
<1>4. /\ new \in 1 .. rec /\ Past(new, queues'["forwarder"])
      /\ \A k : Past(k, queues["forwarder"]) => k < new
  <2>1. Ordered(queues["forwarder"]) /\ UpTo(rec, queues["forwarder"])
    BY <1>1 DEF Buffered
  <2>2. /\ Head(queues["forwarder"]) \in LogEvent /\ new <= rec /\ Past(new, Tail(queues["forwarder"]))
        /\ \A k : Past(k, queues["forwarder"]) => k < new
    BY <1>1, <1>3, <2>1, HeadFirst
  <2>3. new \in 1 .. rec
    BY <1>1, <1>3, <2>2, RecsAreNumbers
  <2> QED BY <1>2, <2>2, <2>3
<1>5. files' = [n \in Names |->
             IF n = RotatePath(fwd.config) /\ fwd.config.enabled /\ ~failed
             THEN [lines |-> Append(files[RotatePath(fwd.config)].lines, Head(queues["forwarder"]).rec),
                   written |-> day]
             ELSE IF n \in gone THEN NoFile ELSE files[n]]
  BY DEF Written
<1>6. PICK path : path = RotatePath(fwd.config)
  OBVIOUS
<1>7. path \in Names
  BY <1>1, <1>6 DEF RotatePath, Names
<1>8. PICK none : none = <<>>
  OBVIOUS
<1>9. none \in Seq(Nat) /\ DOMAIN none = {} /\ NoFile = [lines |-> none, written |-> -1]
  BY <1>8 DEF NoFile
<1>10. PICK last : last = Len(files[path].lines) + 1
  OBVIOUS
<1>11. PICK longer : longer = Append(files[path].lines, new)
  OBVIOUS
<1>12. /\ longer \in Seq(Nat) /\ last \notin DOMAIN files[path].lines
       /\ \A i \in DOMAIN longer : \/ i \in DOMAIN files[path].lines /\ longer[i] = files[path].lines[i]
                                   \/ i = last /\ longer[i] = new
  <2>1. files[path].lines \in Seq(Nat) /\ new \in Nat
    BY <1>1, <1>4, <1>7 DEF Filed, LogFiles
  <2> QED BY <1>10, <1>11, <2>1, AppendProperties, LenProperties
<1>13. ASSUME NEW n \in Names
       PROVE  /\ files'[n] \in [lines : Seq(Nat), written : Int]
              /\ \A i \in DOMAIN files'[n].lines :
                   \/ i \in DOMAIN files[n].lines /\ files'[n].lines[i] = files[n].lines[i]
                   \/ n = path /\ i = last /\ files'[n].lines[i] = new
  <2>1. CASE files'[n] = files[n]
    BY <1>1, <2>1 DEF Filed, LogFiles
  <2>2. CASE files'[n] = [lines |-> none, written |-> -1]
    BY <1>9, <2>2
  <2>3. CASE n = path /\ files'[n] = [lines |-> longer, written |-> day]
    BY <1>1, <1>12, <2>3
  <2>4. \/ files'[n] = files[n] \/ files'[n] = [lines |-> none, written |-> -1]
        \/ n = path /\ files'[n] = [lines |-> longer, written |-> day]
    BY <1>3, <1>5, <1>6, <1>9, <1>11
  <2> QED BY <2>1, <2>2, <2>3, <2>4
<1>14. files' \in LogFiles
  <2>1. DOMAIN files' = Names /\ files' = [n \in Names |-> files'[n]]
    BY <1>5
  <2> QED BY <1>13, <2>1 DEF LogFiles
<1>15. ASSUME NEW n \in Names, NEW i \in DOMAIN files[n].lines
       PROVE  /\ files[n].lines[i] \in 1 .. rec /\ files[n].lines[i] < new
              /\ Past(files[n].lines[i], queues'["forwarder"])
  <2>1. files[n].lines[i] \in 1 .. rec /\ Past(files[n].lines[i], queues["forwarder"])
    BY <1>1 DEF Filed
  <2>2. files[n].lines[i] \in 0 .. rec
    BY <2>1
  <2> QED BY <1>2, <1>4, <2>1, <2>2
<1>16. ASSUME NEW n \in Names, NEW i \in DOMAIN files'[n].lines
       PROVE  files'[n].lines[i] \in 1 .. rec' /\ Past(files'[n].lines[i], queues'["forwarder"])
  <2>1. files'[n].lines[i] \in 1 .. rec /\ Past(files'[n].lines[i], queues'["forwarder"])
    BY <1>4, <1>13, <1>15
  <2> QED BY <1>1, <1>2, <2>1
<1>17. ASSUME NEW m \in Names, NEW n \in Names, NEW i \in DOMAIN files'[m].lines, NEW j \in DOMAIN files'[n].lines,
              files'[m].lines[i] = files'[n].lines[j]
       PROVE  m = n /\ i = j
  <2>1. CASE i \in DOMAIN files[m].lines /\ files'[m].lines[i] = files[m].lines[i]
    <3>1. CASE j \in DOMAIN files[n].lines /\ files'[n].lines[j] = files[n].lines[j]
      <4>1. \A k, l \in Names : \A a \in DOMAIN files[k].lines, b \in DOMAIN files[l].lines :
              files[k].lines[a] = files[l].lines[b] => k = l /\ a = b
        BY <1>1 DEF Filed
      <4>2. files[m].lines[i] = files[n].lines[j]
        BY <1>17, <2>1, <3>1
      <4> QED BY <2>1, <3>1, <4>1, <4>2
    <3>2. CASE files'[n].lines[j] = new
      <4>1. files[m].lines[i] < new /\ files[m].lines[i] \in Int /\ new \in Int
        BY <1>4, <1>15, <2>1
      <4>2. files[m].lines[i] = new
        BY <1>17, <2>1, <3>2
      <4> QED BY <4>1, <4>2
    <3> QED BY <1>13, <3>1, <3>2
  <2>2. CASE m = path /\ i = last /\ files'[m].lines[i] = new
    <3>1. CASE j \in DOMAIN files[n].lines /\ files'[n].lines[j] = files[n].lines[j]
      <4>1. files[n].lines[j] < new /\ files[n].lines[j] \in Int /\ new \in Int
        BY <1>4, <1>15, <3>1
      <4> QED BY <1>17, <2>2, <3>1, <4>1
    <3>2. CASE n = path /\ j = last
      BY <2>2, <3>2
    <3> QED BY <1>13, <3>1, <3>2
  <2> QED BY <1>13, <2>1, <2>2
<1>18. \A m, n \in Names : \A i \in DOMAIN files'[m].lines, j \in DOMAIN files'[n].lines :
          files'[m].lines[i] = files'[n].lines[j] => m = n /\ i = j
  BY <1>17
<1> QED BY <1>14, <1>16, <1>18 DEF Filed

LEMMA TakeFiles == LInv /\ Take => Filed'
<1> SUFFICES ASSUME LInv, Take PROVE Filed'
  OBVIOUS
<1>1. queues["forwarder"] # <<>> /\ \E failed \in BOOLEAN : \E gone : files' = Written(failed, gone)
  BY DEF Take
<1>2. Grown /\ \A k \in 0 .. rec : Past(k, Tail(queues["forwarder"])) => Past(k, queues'["forwarder"])
  BY TakeKeeps DEF LInv
<1> QED BY <1>1, <1>2, WrittenOnce

LEMMA DieFiles == LInv /\ Die => Filed'
<1> SUFFICES ASSUME LInv, Die PROVE Filed'
  OBVIOUS
<1>1. /\ queues["forwarder"] # <<>>
      /\ files' = files \/ \E failed \in BOOLEAN : \E gone : files' = Written(failed, gone)
  BY DEF Die
<1>2. Grown /\ queues'["forwarder"] = <<>>
  BY DieKeeps DEF LInv
<1>3. \A k : Past(k, queues'["forwarder"])
  BY <1>2, NoEvents
<1>4. CASE files' = files
  BY <1>2, <1>4, FilesStay DEF LInv
<1>5. CASE \E failed \in BOOLEAN : \E gone : files' = Written(failed, gone)
  BY <1>1, <1>2, <1>3, <1>5, WrittenOnce
<1> QED BY <1>1, <1>4, <1>5

LEMMA FiledStep == LInv /\ [Next]_vars /\ Grown => Filed'
<1> SUFFICES ASSUME LInv, [Next]_vars, Grown PROVE Filed'
  OBVIOUS
<1>1. files' = files \/ Take \/ Die
  BY DEF Next, Emit, Start, Stop, PutLogForwarding, Forwarder, Begin, Check, Timeout, Tick, NextDay,
     Console, OpenStream, SendEvent, CloseStream, LoseStream, AnswerHistory, ShowHistory, Receive, Clear,
     pageless, vars
<1>2. Filed
  BY DEF LInv
<1> QED BY <1>1, <1>2, FilesStay, TakeFiles, DieFiles

-----------------------------------------------------------------------------
(* The answer of /recent. *)
(* The members of a finite set of numbers have 0, 1, 2, ... members above  *)
(* them, the lower the more.                                               *)
LEMMA OneOfEachRank ==
  ASSUME NEW P \in SUBSET Nat, IsFiniteSet(P),
         NEW above, above = [i \in P |-> Cardinality({j \in P : j > i})]
  PROVE  /\ \A i, j \in P : i < j => above[j] < above[i]
         /\ \A v \in 0 .. Cardinality(P) - 1 : \E i \in P : above[i] = v
<1>1. Cardinality(P) \in Nat
  BY FS_CardinalityType
<1>2. ASSUME NEW i \in P
      PROVE  above[i] \in 0 .. Cardinality(P) - 1
  <2>1. PICK A : A = {j \in P : j > i}
    OBVIOUS
  <2>2. A \in SUBSET P /\ A # P
    BY <2>1
  <2>3. IsFiniteSet(A) /\ Cardinality(A) <= Cardinality(P) /\ Cardinality(A) # Cardinality(P)
    BY <2>2, FS_Subset
  <2>4. Cardinality(A) \in Nat
    BY <2>3, FS_CardinalityType
  <2> QED BY <1>1, <2>1, <2>3, <2>4
<1>3. ASSUME NEW i \in P, NEW j \in P, i < j
      PROVE  above[j] < above[i]
  <2>1. PICK A : A = {k \in P : k > i}
    OBVIOUS
  <2>2. PICK B : B = {k \in P : k > j}
    OBVIOUS
  <2>3. A \in SUBSET P /\ B \in SUBSET A /\ A # B
    <3>1. j \in A /\ j \notin B
      BY <1>3, <2>1, <2>2
    <3>2. \A k \in P : k > j => k > i
      BY <1>3
    <3> QED BY <2>1, <2>2, <3>1, <3>2
  <2>4. IsFiniteSet(A)
    BY <2>3, FS_Subset
  <2>5. Cardinality(B) <= Cardinality(A) /\ Cardinality(B) # Cardinality(A)
    BY <2>3, <2>4, FS_Subset
  <2>6. above[i] = Cardinality(A) /\ above[j] = Cardinality(B)
    BY <2>1, <2>2
  <2> QED BY <1>2, <2>5, <2>6
<1>4. \A i, j \in P : above[i] = above[j] => i = j
  <2> SUFFICES ASSUME NEW i \in P, NEW j \in P, above[i] = above[j] PROVE i = j
    OBVIOUS
  <2>1. ~(i < j) /\ ~(j < i)
    BY <1>2, <1>3
  <2> QED BY <2>1
<1>5. PICK ranks : ranks = 0 .. Cardinality(P) - 1
  OBVIOUS
<1>6. above \in [P -> ranks]
  BY <1>2, <1>5
<1>7. IsFiniteSet(ranks) /\ Cardinality(ranks) = Cardinality(P)
  <2>1. 0 \in Int /\ Cardinality(P) - 1 \in Int
    BY <1>1
  <2>2. IsFiniteSet(ranks) /\ Cardinality(ranks) = IF 0 > Cardinality(P) - 1 THEN 0 ELSE (Cardinality(P) - 1) - 0 + 1
    BY <1>5, <2>1, FS_Interval
  <2> QED BY <1>1, <2>2
<1>8. above \in Injection(P, ranks)
  BY <1>4, <1>6, Fun_IsInj
<1>9. above \in Surjection(P, ranks)
  BY <1>7, <1>8, FS_Injection
<1>10. \A v \in ranks : \E i \in P : above[i] = v
  BY <1>9 DEF Surjection
<1> QED BY <1>3, <1>5, <1>10

LEMMA RecentOrdered ==
  ASSUME Buffered, NEW f, NEW limit \in Nat \ {0}
  PROVE  Ordered(Recent(f, limit)) /\ UpTo(rec, Recent(f, limit)) /\ Len(Recent(f, limit)) <= limit
<1>1. PICK newest : newest = LastOf(events, 4 * limit)
  OBVIOUS
<1>2. Ordered(newest) /\ UpTo(rec, newest)
  <2>1. 4 * limit \in Nat \ {0}
    OBVIOUS
  <2> QED BY <1>1, <2>1, LastOrdered DEF Buffered
<1>3. newest \in Seq(LogEvent) /\ DOMAIN newest = 1 .. Len(newest) /\ Len(newest) \in Nat
  BY <1>2 DEF Ordered
<1>4. PICK P : P = {i \in DOMAIN newest : Matches(f, newest[i])}
  OBVIOUS
<1>5. P \in SUBSET Nat /\ IsFiniteSet(P) /\ P \subseteq DOMAIN newest
  <2>1. IsFiniteSet(1 .. Len(newest))
    BY <1>3, FS_Interval
  <2>2. P \in SUBSET (1 .. Len(newest))
    BY <1>3, <1>4
  <2>3. IsFiniteSet(P)
    BY <2>1, <2>2, FS_Subset
  <2> QED BY <1>3, <2>2, <2>3
<1>6. PICK above : above = [i \in P |-> Cardinality({j \in P : j > i})]
  OBVIOUS
<1>7. PICK kept : kept = Capped(Cardinality(P), limit)
  OBVIOUS
<1>8. kept \in Nat /\ kept <= limit /\ kept <= Cardinality(P) /\ Cardinality(P) \in Nat
  BY <1>5, <1>7, FS_CardinalityType DEF Capped
<1>9. PICK t : t = [k \in 1 .. kept |-> newest[CHOOSE i \in P : Cardinality({j \in P : j > i}) = kept - k]]
  OBVIOUS
<1>10. Recent(f, limit) = t
  BY <1>1, <1>4, <1>7, <1>9 DEF Recent
<1>11. /\ \A i, j \in P : i < j => above[j] < above[i]
       /\ \A v \in 0 .. Cardinality(P) - 1 : \E i \in P : above[i] = v
  BY <1>5, <1>6, OneOfEachRank
<1>12. PICK at : at = [k \in 1 .. kept |-> CHOOSE i \in P : Cardinality({j \in P : j > i}) = kept - k]
  OBVIOUS
<1>13. ASSUME NEW k \in 1 .. kept
       PROVE  at[k] \in P /\ above[at[k]] = kept - k /\ t[k] = newest[at[k]]
  <2>1. kept - k \in 0 .. Cardinality(P) - 1
    BY <1>8
  <2>2. \E i \in P : Cardinality({j \in P : j > i}) = kept - k
    BY <1>6, <1>11, <2>1
  <2>3. at[k] = CHOOSE i \in P : Cardinality({j \in P : j > i}) = kept - k
    BY <1>12
  <2>4. at[k] \in P /\ Cardinality({j \in P : j > at[k]}) = kept - k
    BY <2>2, <2>3
  <2>5. above[at[k]] = kept - k
    BY <1>6, <2>4
  <2> QED BY <1>9, <2>3, <2>4, <2>5
<1>14. ASSUME NEW k \in 1 .. kept, NEW l \in 1 .. kept, k < l
       PROVE  t[k].rec < t[l].rec
  <2>1. kept - l < kept - k
    BY <1>8, <1>14
  <2>2. at[k] \in P /\ at[l] \in P /\ above[at[l]] < above[at[k]]
        /\ above[at[k]] \in Int /\ above[at[l]] \in Int
    BY <1>8, <1>13, <2>1
  <2>3. ~(at[l] < at[k]) /\ at[k] # at[l]
    BY <1>11, <2>2
  <2>4. at[k] \in Nat /\ at[l] \in Nat
    BY <1>5, <2>2
  <2>5. at[k] < at[l]
    BY <2>3, <2>4
  <2> QED BY <1>2, <1>5, <1>13, <2>2, <2>5 DEF Ordered
<1>15. t \in Seq(LogEvent) /\ DOMAIN t = 1 .. kept /\ Len(t) = kept
  <2>1. \A k \in 1 .. kept : t[k] \in LogEvent
    <3>1. \A i \in DOMAIN newest : newest[i] \in LogEvent
      BY <1>3
    <3> QED BY <1>5, <1>13, <3>1
  <2>2. t \in [1 .. kept -> LogEvent]
    BY <1>9, <2>1
  <2> QED BY <1>8, <2>2
<1>16. Ordered(t)
  BY <1>14, <1>15 DEF Ordered
<1>17. UpTo(rec, t)
  BY <1>2, <1>5, <1>13, <1>15 DEF UpTo
<1> QED BY <1>8, <1>10, <1>15, <1>16, <1>17

-----------------------------------------------------------------------------
(* The live console. *)
LEMMA OrderedIsSeamless == \A s : Ordered(s) => Descents(s) = {}
<1> SUFFICES ASSUME NEW s, Ordered(s), NEW i \in Descents(s) PROVE FALSE
  OBVIOUS
<1>1. s \in Seq(LogEvent) /\ DOMAIN s = 1 .. Len(s) /\ Len(s) \in Nat
  BY DEF Ordered
<1>2. i \in DOMAIN s /\ i + 1 \in DOMAIN s /\ i < i + 1 /\ s[i].rec >= s[i + 1].rec
  BY <1>1 DEF Descents
<1>3. s[i].rec < s[i + 1].rec /\ s[i].rec \in Nat /\ s[i + 1].rec \in Nat
  BY <1>1, <1>2, RecsAreNumbers DEF Ordered
<1> QED BY <1>2, <1>3

LEMMA AppendOrdered ==
  ASSUME NEW s, Ordered(s), NEW e \in LogEvent, \A i \in DOMAIN s : s[i].rec < e.rec
  PROVE  /\ Ordered(Append(s, e))
         /\ \A n : UpTo(n, s) /\ e.rec <= n => UpTo(n, Append(s, e))
         /\ \A n : Past(n, s) /\ n < e.rec => Past(n, Append(s, e))
         /\ \A i \in DOMAIN Append(s, e) : (i \in DOMAIN s /\ Append(s, e)[i] = s[i]) \/ Append(s, e)[i] = e
<1>1. s \in Seq(LogEvent) /\ DOMAIN s = 1 .. Len(s) /\ Len(s) \in Nat
  BY DEF Ordered
<1>2. PICK t : t = Append(s, e)
  OBVIOUS
<1>3. /\ t \in Seq(LogEvent) /\ DOMAIN t = 1 .. Len(s) + 1
      /\ \A i \in 1 .. Len(s) : t[i] = s[i]
      /\ t[Len(s) + 1] = e
  BY <1>1, <1>2, AppendProperties, LenProperties
<1>4. \A i \in DOMAIN t : (i \in DOMAIN s /\ t[i] = s[i]) \/ (i = Len(s) + 1 /\ t[i] = e)
  <2> SUFFICES ASSUME NEW i \in 1 .. Len(s) + 1
               PROVE  (i \in 1 .. Len(s) /\ t[i] = s[i]) \/ (i = Len(s) + 1 /\ t[i] = e)
    BY <1>1, <1>3
  <2>1. CASE i = Len(s) + 1
    BY <1>3, <2>1
  <2>2. CASE i # Len(s) + 1
    <3>1. i \in 1 .. Len(s)
      BY <1>1, <2>2
    <3> QED BY <1>3, <3>1
  <2> QED BY <2>1, <2>2
<1>5. ASSUME NEW i \in DOMAIN t, NEW j \in DOMAIN t, i < j PROVE t[i].rec < t[j].rec
  <2>1. i \in DOMAIN s /\ t[i] = s[i]
    BY <1>1, <1>3, <1>5
  <2>2. CASE j \in DOMAIN s /\ t[j] = s[j]
    BY <1>5, <2>1, <2>2 DEF Ordered
  <2>3. CASE t[j] = e
    BY <2>1, <2>3
  <2> QED BY <1>4, <2>2, <2>3
<1>6. Ordered(t)
  BY <1>3, <1>5 DEF Ordered
<1>7. \A n : UpTo(n, s) /\ e.rec <= n => UpTo(n, t)
  BY <1>4 DEF UpTo
<1>8. \A n : Past(n, s) /\ n < e.rec => Past(n, t)
  BY <1>4 DEF Past
<1> QED BY <1>2, <1>4, <1>6, <1>7, <1>8

(* The older lines go when the console is full: no new seam shows. *)
LEMMA LastLines ==
  ASSUME NEW s \in Seq(LogEvent), s # <<>>, NEW n \in Nat \ {0},
         \A i, j \in Descents(s) : i = j
  PROVE  /\ LastOf(s, n) \in Seq(LogEvent) /\ LastOf(s, n) # <<>> /\ Len(LastOf(s, n)) <= n
         /\ LastOf(s, n)[Len(LastOf(s, n))] = s[Len(s)]
         /\ \A m : UpTo(m, s) => UpTo(m, LastOf(s, n))
         /\ \A i, j \in Descents(LastOf(s, n)) : i = j
<1>1. DOMAIN s = 1 .. Len(s) /\ Len(s) \in Nat /\ Len(s) >= 1
  OBVIOUS
<1>2. PICK a : a = IF Len(s) > n THEN Len(s) - n + 1 ELSE 1
  OBVIOUS
<1>3. PICK t : t = SubSeq(s, a, Len(s))
  OBVIOUS
<1>4. LastOf(s, n) = t
  BY <1>2, <1>3 DEF LastOf
<1>5. a \in 1 .. Len(s) /\ Len(s) - a + 1 <= n
  BY <1>1, <1>2
<1>6. t \in Seq(LogEvent) /\ Len(t) = Len(s) - a + 1 /\ \A i \in 1 .. Len(s) - a + 1 : t[i] = s[a + i - 1]
  <2>1. \A i \in a .. Len(s) : s[i] \in LogEvent
    BY <1>1, <1>5
  <2> QED BY <1>1, <1>3, <1>5, <2>1, SubSeqProperties
<1>7. DOMAIN t = 1 .. Len(t) /\ Len(t) \in Nat /\ Len(t) >= 1
  BY <1>1, <1>5, <1>6
<1>8. t[Len(t)] = s[Len(s)] /\ t # <<>>
  BY <1>1, <1>5, <1>6, <1>7
<1>9. \A m : UpTo(m, s) => UpTo(m, t)
  <2>1. PICK n1 \in Nat, n2 \in Nat : n1 = Len(s) /\ n2 = Len(t) /\ n2 = n1 - a + 1
    BY <1>1, <1>5, <1>6, <1>7
  <2>2. \A i \in 1 .. n2 : a + i - 1 \in 1 .. n1
    BY <1>5, <2>1
  <2>3. \A i \in DOMAIN t : a + i - 1 \in DOMAIN s /\ t[i] = s[a + i - 1]
    BY <1>1, <1>6, <1>7, <2>1, <2>2
  <2> QED BY <2>3 DEF UpTo
<1>10. ASSUME NEW i \in Descents(t) PROVE i \in Int /\ a + i - 1 \in Descents(s)
  <2>1. i \in 1 .. Len(t) - 1 /\ t[i].rec >= t[i + 1].rec
    BY DEF Descents
  <2>2. t[i] = s[a + i - 1] /\ t[i + 1] = s[(a + i - 1) + 1] /\ a + i - 1 \in 1 .. Len(s) - 1
    BY <1>1, <1>5, <1>6, <2>1
  <2> QED BY <2>1, <2>2 DEF Descents
<1>11. ASSUME NEW i \in Descents(t), NEW j \in Descents(t) PROVE i = j
  <2>1. i \in Int /\ j \in Int /\ a + i - 1 = a + j - 1
    BY <1>10
  <2> QED BY <1>5, <2>1
<1> QED BY <1>4, <1>5, <1>6, <1>8, <1>9, <1>11

(* A line that is received makes a seam with what was shown before only if *)
(* there is none yet.                                                      *)
LEMMA AppendSeam ==
  ASSUME NEW shown \in Seq(LogEvent), NEW wire, Ordered(wire), wire # <<>>, NEW coming,
         \A i \in DOMAIN wire : Past(wire[i].rec, coming),
         Seamed(shown, wire, coming), NEW n \in Nat \ {0}
  PROVE  LET u == LastOf(Append(shown, Head(wire)), n) IN
         /\ u \in Seq(LogEvent) /\ Len(u) <= n /\ Seamed(u, Tail(wire), coming)
         /\ \A m : UpTo(m, shown) /\ UpTo(m, wire) => UpTo(m, u)
<1>1. PICK e : e = Head(wire)
  OBVIOUS
<1>2. /\ e \in LogEvent /\ Past(e.rec, Tail(wire)) /\ Past(e.rec, coming)
      /\ \A k : Past(k, wire) => k < e.rec
      /\ \A m : UpTo(m, wire) => e.rec <= m
  <2>1. wire \in Seq(LogEvent) /\ 1 \in DOMAIN wire /\ e = wire[1]
    BY <1>1 DEF Ordered
  <2> QED BY <1>1, <2>1, HeadFirst
<1>3. PICK t : t = Append(shown, e)
  OBVIOUS
<1>4. PICK k : k = Len(shown)
  OBVIOUS
<1>5. k \in Nat /\ DOMAIN shown = 1 .. k
  BY <1>4
<1>6. /\ t \in Seq(LogEvent) /\ t # <<>> /\ Len(t) = k + 1 /\ t[k + 1] = e /\ DOMAIN t = 1 .. k + 1
      /\ \A i \in 1 .. k : t[i] = shown[i]
  BY <1>2, <1>3, <1>4, AppendProperties, LenProperties
<1>7. ASSUME NEW i \in Descents(t), i # k PROVE i \in Descents(shown)
  <2>1. i \in 1 .. k /\ t[i].rec >= t[i + 1].rec
    BY <1>5, <1>6 DEF Descents
  <2>2. i \in 1 .. k - 1 /\ t[i] = shown[i] /\ t[i + 1] = shown[i + 1]
    BY <1>5, <1>6, <1>7, <2>1
  <2> QED BY <1>4, <2>1, <2>2 DEF Descents
<1>8. \A i, j \in Descents(t) : i = j
  <2>1. CASE Descents(shown) = {}
    BY <1>7, <2>1
  <2>2. CASE /\ \A i, j \in Descents(shown) : i = j
             /\ shown # <<>> /\ Past(shown[Len(shown)].rec, wire)
    <3>1. k \in 1 .. k /\ shown[k].rec < e.rec /\ shown[k].rec \in Nat /\ e.rec \in Nat
      <4>1. k >= 1
        BY <1>4, <1>5, <2>2
      <4>2. shown[k] \in LogEvent
        BY <1>5, <4>1
      <4> QED BY <1>2, <1>4, <1>5, <2>2, <4>1, <4>2, RecsAreNumbers
    <3>2. k \notin Descents(t)
      BY <1>6, <3>1 DEF Descents
    <3> QED BY <1>7, <2>2, <3>2
  <2> QED BY <2>1, <2>2 DEF Seamed
<1>9. PICK u : u = LastOf(t, n)
  OBVIOUS
<1>10. /\ u \in Seq(LogEvent) /\ u # <<>> /\ Len(u) <= n /\ u[Len(u)] = e
       /\ \A m : UpTo(m, t) => UpTo(m, u)
       /\ \A i, j \in Descents(u) : i = j
  BY <1>6, <1>8, <1>9, LastLines
<1>11. Seamed(u, Tail(wire), coming)
  BY <1>2, <1>10 DEF Seamed
<1>12. \A m : UpTo(m, shown) /\ UpTo(m, wire) => UpTo(m, t)
  <2>1. \A i \in DOMAIN t : (i \in DOMAIN shown /\ t[i] = shown[i]) \/ t[i] = e
    BY <1>5, <1>6
  <2> QED BY <1>2, <2>1 DEF UpTo
<1> QED BY <1>1, <1>3, <1>9, <1>10, <1>11, <1>12

(* What the page keeps, it keeps when more is logged. *)
LEMMA PageGrows ==
  ASSUME NEW p \in Pages, NEW n \in Nat, NEW m \in Nat, n <= m, NEW c, NEW d,
         PageKeeps(p, n, c), \A k \in 0 .. n : Past(k, c) => Past(k, d)
  PROVE  PageKeeps(p, m, d)
<1>1. ASSUME NEW s \in Seq(LogEvent), UpTo(n, s)
      PROVE  UpTo(m, s) /\ \A i \in DOMAIN s : s[i].rec \in 0 .. n
  <2>1. \A i \in DOMAIN s : s[i].rec \in Nat /\ s[i].rec <= n
    BY <1>1, RecsAreNumbers DEF UpTo
  <2> QED BY <2>1 DEF UpTo
<1>2. p.wire \in Seq(LogEvent) /\ p.rows \in Seq(LogEvent) /\ p.shown \in Seq(LogEvent)
      /\ UpTo(n, p.wire) /\ UpTo(n, p.rows) /\ UpTo(n, p.shown)
  BY DEF Pages, PageKeeps
<1>3. UpTo(m, p.wire) /\ UpTo(m, p.rows) /\ UpTo(m, p.shown)
  BY <1>1, <1>2
<1>4. \A i \in DOMAIN p.wire : Past(p.wire[i].rec, d)
  BY <1>1, <1>2 DEF PageKeeps
<1>5. Seamed(p.shown, p.wire, d)
  <2>1. CASE Descents(p.shown) = {}
    BY <2>1 DEF Seamed
  <2>2. CASE p.shown # <<>> /\ Past(p.shown[Len(p.shown)].rec, c)
    <3>1. Len(p.shown) \in DOMAIN p.shown
      BY <1>2, <2>2
    <3>2. p.shown[Len(p.shown)].rec \in 0 .. n
      BY <1>1, <1>2, <3>1
    <3>3. Past(p.shown[Len(p.shown)].rec, d)
      BY <2>2, <3>2
    <3> QED BY <3>3 DEF Seamed, PageKeeps
  <2> QED BY <2>1, <2>2 DEF Seamed, PageKeeps
<1> QED BY <1>3, <1>4, <1>5 DEF PageKeeps

(* The stream breaks, and what was on its way is lost. *)
LEMMA PageDisconnects ==
  ASSUME NEW p \in Pages, NEW n, NEW c, PageKeeps(p, n, c), NEW none, none = <<>>
  PROVE  /\ [p EXCEPT !.stream = NoStream, !.wire = none] \in Pages
         /\ PageKeeps([p EXCEPT !.stream = NoStream, !.wire = none], n, none)
<1>1. Ordered(none) /\ none \in Seq(LogEvent) /\ DOMAIN none = {} /\ \A k : UpTo(k, none) /\ Past(k, none)
  BY NoEvents DEF Ordered
<1>2. PICK q : q = [p EXCEPT !.stream = NoStream, !.wire = none]
  OBVIOUS
<1>3. q.wire = none /\ q.rows = p.rows /\ q.shown = p.shown /\ q \in Pages
  BY <1>1, <1>2 DEF Pages
<1>4. Seamed(q.shown, q.wire, none)
  BY <1>1, <1>3 DEF Seamed, PageKeeps
<1>5. PageKeeps(q, n, none)
  BY <1>1, <1>3, <1>4 DEF PageKeeps
<1> QED BY <1>2, <1>3, <1>5

(* Of steps that leave the page alone. *)
LEMMA PageStays == Buffered /\ Shown /\ Grown /\ page' = page => Shown'
<1> SUFFICES ASSUME Buffered, Shown, Grown, page' = page PROVE Shown'
  OBVIOUS
<1>1. \A k \in 0 .. rec : Past(k, Coming) => Past(k, Coming')
  <2>1. CASE page.stream = NoStream
    BY <2>1 DEF Coming
  <2>2. CASE page.stream # NoStream
    <3>1. page.stream \in Readers
      BY <2>2 DEF Shown, Pages, Readers
    <3>2. Coming = queues[page.stream] /\ Coming' = queues'[page.stream]
      BY <2>2 DEF Coming
    <3> QED BY <3>1, <3>2 DEF Grown
  <2> QED BY <2>1, <2>2
<1>2. rec \in Nat /\ rec' \in Nat /\ rec <= rec' /\ page \in Pages /\ PageKeeps(page, rec, Coming)
  BY LogsAssumption DEF Buffered, Grown, Shown
<1>3. PICK d : d = Coming'
  OBVIOUS
<1>4. PageKeeps(page, rec', d)
  <2>1. \A k \in 0 .. rec : Past(k, Coming) => Past(k, d)
    BY <1>1, <1>3
  <2> QED BY <1>2, <2>1, PageGrows
<1>5. PageKeeps(page, rec, Coming)'
  BY <1>3, <1>4 DEF PageKeeps
<1> QED BY <1>2, <1>5 DEF Shown

LEMMA PageOpens == ASSUME NEW s \in Streams, Buffered, Shown, OpenStream(s) PROVE Shown'
<1>1. /\ page.stream = NoStream /\ s \notin subscribers /\ page' = [page EXCEPT !.stream = s]
      /\ queues' = queues /\ rec' = rec /\ s \in Readers /\ page \in Pages /\ page.wire = <<>>
  BY DEF OpenStream, logVars, Readers, Shown
<1>2. page' \in Pages /\ page'.stream = s /\ page'.wire = page.wire /\ page'.rows = page.rows /\ page'.shown = page.shown
  BY <1>1 DEF Pages
<1>3. s # NoStream /\ queues[s] = <<>>
  BY <1>1, LogsAssumption DEF Buffered
<1>4. Coming = <<>> /\ Coming' = <<>>
  BY <1>1, <1>2, <1>3 DEF Coming
<1>5. PageKeeps(page, rec, Coming)
  BY DEF Shown
<1>6. PageKeeps(page, rec, Coming)'
  BY <1>1, <1>2, <1>4, <1>5 DEF PageKeeps
<1> QED BY <1>2, <1>3, <1>6 DEF Shown

LEMMA PageIsSent == ASSUME NEW s \in Streams, Buffered, Shown, Grown, SendEvent(s) PROVE Shown'
<1>1. CASE page' = page
  BY <1>1, PageStays
<1>2. CASE page.stream = s /\ page' = [page EXCEPT !.wire = Append(@, Head(queues[s]))]
  <2>1. /\ s \in Readers /\ s # NoStream /\ queues[s] # <<>> /\ queues' = [queues EXCEPT ![s] = Tail(@)]
        /\ rec' = rec /\ page \in Pages /\ DOMAIN queues = Readers
        /\ Ordered(queues[s]) /\ UpTo(rec, queues[s])
    BY LogsAssumption DEF SendEvent, Readers, Shown, Buffered
  <2>2. PICK e : e = Head(queues[s])
    OBVIOUS
  <2>3. PICK rest : rest = Tail(queues[s])
    OBVIOUS
  <2>4. /\ e \in LogEvent /\ Past(e.rec, rest) /\ e.rec <= rec
        /\ \A n : Past(n, queues[s]) => n < e.rec /\ Past(n, rest)
    BY <2>1, <2>2, <2>3, HeadFirst
  <2>5. PICK longer : longer = Append(page.wire, e)
    OBVIOUS
  <2>6. Coming = queues[s] /\ PageKeeps(page, rec, Coming)
    BY <1>2, <2>1 DEF Coming, Shown
  <2>7. Ordered(page.wire) /\ \A i \in DOMAIN page.wire : Past(page.wire[i].rec, queues[s])
    BY <2>6 DEF PageKeeps
  <2>8. \A i \in DOMAIN page.wire : page.wire[i].rec < e.rec
    BY <2>4, <2>7
  <2>9. /\ Ordered(longer)
        /\ \A n : UpTo(n, page.wire) /\ e.rec <= n => UpTo(n, longer)
        /\ \A n : Past(n, page.wire) /\ n < e.rec => Past(n, longer)
        /\ \A i \in DOMAIN longer : (i \in DOMAIN page.wire /\ longer[i] = page.wire[i]) \/ longer[i] = e
    BY <2>4, <2>5, <2>7, <2>8, AppendOrdered
  <2>10. /\ page' = [page EXCEPT !.wire = longer] /\ longer \in Seq(LogEvent)
    BY <1>2, <2>2, <2>5, <2>9 DEF Ordered
  <2>11. /\ page' \in Pages /\ page'.wire = longer /\ page'.rows = page.rows /\ page'.shown = page.shown
         /\ page'.stream = s
    BY <1>2, <2>1, <2>10 DEF Pages
  <2>12. Coming' = rest
    BY <2>1, <2>3, <2>11 DEF Coming
  <2>13. \A i \in DOMAIN longer : Past(longer[i].rec, rest)
    BY <2>4, <2>7, <2>9
  <2>14. Seamed(page.shown, longer, rest)
    BY <2>4, <2>6, <2>9 DEF PageKeeps, Seamed
  <2>15. PageKeeps(page, rec, Coming)'
    <3>1. UpTo(rec, longer)
      BY <2>4, <2>6, <2>9 DEF PageKeeps
    <3> QED BY <2>1, <2>6, <2>9, <2>11, <2>12, <2>13, <2>14, <3>1 DEF PageKeeps
  <2> QED BY <2>1, <2>11, <2>15 DEF Shown
<1> QED BY <1>1, <1>2 DEF SendEvent

LEMMA PageIsCut == ASSUME Buffered, Shown, Stop \/ LoseStream PROVE Shown'
<1>1. PICK none : none = <<>>
  OBVIOUS
<1>2. page' = [page EXCEPT !.stream = NoStream, !.wire = none] /\ rec' = rec /\ page \in Pages
      /\ PageKeeps(page, rec, Coming)
  BY <1>1 DEF Stop, LoseStream, logVars, Shown
<1>3. page' \in Pages /\ page'.stream = NoStream /\ page'.wire = none
  BY <1>1, <1>2, PageDisconnects DEF Pages
<1>4. PICK p : p = [page EXCEPT !.stream = NoStream, !.wire = none]
  OBVIOUS
<1>5. PageKeeps(p, rec, none)
  BY <1>1, <1>2, <1>4, PageDisconnects
<1>6. Coming' = none
  BY <1>1, <1>3 DEF Coming
<1>7. PageKeeps(page, rec, Coming)'
  BY <1>2, <1>4, <1>5, <1>6 DEF PageKeeps
<1> QED BY <1>1, <1>3, <1>7 DEF Shown

(* The steps of the page itself. *)
LEMMA PageSteps ==
  ASSUME Buffered, Shown, AnswerHistory \/ ShowHistory \/ Receive \/ Clear
  PROVE  Shown'
<1>1. rec' = rec /\ queues' = queues /\ page \in Pages /\ PageKeeps(page, rec, Coming)
  BY DEF AnswerHistory, ShowHistory, Receive, Clear, logVars, Shown
<1>2. PICK none : none = <<>>
  OBVIOUS
<1>3. /\ Ordered(none) /\ none \in Seq(LogEvent) /\ Len(none) = 0 /\ Descents(none) = {}
      /\ \A n : UpTo(n, none) /\ Past(n, none)
  BY <1>2, NoEvents, OrderedIsSeamless DEF Ordered
<1>4. HistoryLimit \in Nat \ {0} /\ ConsoleMax \in Nat \ {0} /\ HistoryLimit <= ConsoleMax
  BY LogsAssumption
<1>5. PICK c : c = Coming
  OBVIOUS
<1>6. ASSUME page' \in Pages, page'.stream = page.stream, page.stream = NoStream => page'.wire = <<>>,
             PageKeeps(page', rec, c)
      PROVE  Shown'
  <2>1. Coming' = c
    BY <1>1, <1>5, <1>6 DEF Coming
  <2>2. PageKeeps(page, rec, Coming)'
    BY <1>1, <1>6, <2>1 DEF PageKeeps
  <2> QED BY <1>6, <2>2 DEF Shown
<1>7. CASE AnswerHistory
  <2>1. CASE page' = [page EXCEPT !.asked = "shown"]
    <3>1. /\ page' \in Pages /\ page'.stream = page.stream /\ page'.wire = page.wire
          /\ page'.rows = page.rows /\ page'.shown = page.shown
      BY <1>1, <2>1 DEF Pages
    <3> QED BY <1>1, <1>5, <1>6, <3>1 DEF PageKeeps, Shown
  <2>2. CASE page' = [page EXCEPT !.asked = "answered", !.rows = Recent(page.filter, HistoryLimit)]
    <3>1. PICK rows : rows = Recent(page.filter, HistoryLimit)
      OBVIOUS
    <3>2. Ordered(rows) /\ UpTo(rec, rows) /\ Len(rows) <= HistoryLimit
      BY <1>4, <3>1, RecentOrdered
    <3>3. rows \in Seq(LogEvent) /\ page' = [page EXCEPT !.asked = "answered", !.rows = rows]
      BY <2>2, <3>1, <3>2 DEF Ordered
    <3>4. /\ page' \in Pages /\ page'.stream = page.stream /\ page'.wire = page.wire
          /\ page'.rows = rows /\ page'.shown = page.shown
      BY <1>1, <3>3 DEF Pages
    <3> QED BY <1>1, <1>5, <1>6, <3>2, <3>4 DEF PageKeeps, Shown
  <2> QED BY <1>7, <2>1, <2>2 DEF AnswerHistory
<1>8. CASE ShowHistory
  <2>1. page' = [page EXCEPT !.asked = "shown", !.rows = none, !.shown = page.rows]
    BY <1>2, <1>8 DEF ShowHistory
  <2>2. /\ page' \in Pages /\ page'.stream = page.stream /\ page'.wire = page.wire
        /\ page'.rows = none /\ page'.shown = page.rows
    BY <1>1, <1>3, <2>1 DEF Pages
  <2>3. /\ Ordered(page.rows) /\ UpTo(rec, page.rows) /\ Len(page.rows) \in Nat /\ Len(page.rows) <= HistoryLimit
    BY <1>1 DEF PageKeeps, Pages
  <2>4. Len(page.rows) <= ConsoleMax /\ Len(none) <= HistoryLimit
    BY <1>3, <1>4, <2>3
  <2>5. Seamed(page.rows, page.wire, c)
    BY <2>3, OrderedIsSeamless DEF Seamed
  <2> QED BY <1>1, <1>3, <1>5, <1>6, <2>2, <2>3, <2>4, <2>5 DEF PageKeeps, Shown
<1>9. CASE Clear
  <2>1. page' = [page EXCEPT !.shown = none]
    BY <1>2, <1>9 DEF Clear
  <2>2. /\ page' \in Pages /\ page'.stream = page.stream /\ page'.wire = page.wire
        /\ page'.rows = page.rows /\ page'.shown = none
    BY <1>1, <1>3, <2>1 DEF Pages
  <2>3. Seamed(none, page.wire, c) /\ Len(none) <= ConsoleMax
    BY <1>3, <1>4 DEF Seamed
  <2> QED BY <1>1, <1>3, <1>5, <1>6, <2>2, <2>3 DEF PageKeeps, Shown
<1>10. CASE Receive
  <2>1. PICK rest : rest = Tail(page.wire)
    OBVIOUS
  <2>2. PICK longer : longer = LastOf(Append(page.shown, Head(page.wire)), ConsoleMax)
    OBVIOUS
  <2>3. page.wire # <<>>
    BY <1>10 DEF Receive
  <2>4. PICK shown \in {page.shown, longer} : page' = [page EXCEPT !.wire = rest, !.shown = shown]
    BY <1>10, <2>1, <2>2 DEF Receive
  <2>5. /\ Ordered(page.wire) /\ UpTo(rec, page.wire) /\ page.wire \in Seq(LogEvent)
        /\ \A i \in DOMAIN page.wire : Past(page.wire[i].rec, c)
        /\ page.shown \in Seq(LogEvent) /\ Seamed(page.shown, page.wire, c) /\ UpTo(rec, page.shown)
        /\ Len(page.shown) <= ConsoleMax
    BY <1>1, <1>5 DEF PageKeeps, Pages
  <2>6. /\ Ordered(rest) /\ UpTo(rec, rest) /\ rest \in Seq(LogEvent)
        /\ \A n : Past(n, page.wire) => Past(n, rest)
    BY <2>1, <2>3, <2>5, HeadFirst DEF Ordered
  <2>7. \A i \in DOMAIN rest : Past(rest[i].rec, c)
    <3>1. \A i \in 1 .. Len(rest) : rest[i] = page.wire[i + 1] /\ i + 1 \in DOMAIN page.wire
      BY <2>1, <2>3, <2>5, HeadTailProperties, LenProperties
    <3>2. DOMAIN rest = 1 .. Len(rest)
      BY <2>6
    <3> QED BY <2>5, <3>1, <3>2
  <2>8. /\ shown \in Seq(LogEvent) /\ Len(shown) <= ConsoleMax /\ Seamed(shown, rest, c) /\ UpTo(rec, shown)
    <3>1. CASE shown = page.shown
      BY <2>5, <2>6, <3>1 DEF Seamed
    <3>2. CASE shown = longer
      BY <1>4, <2>1, <2>2, <2>3, <2>5, <3>2, AppendSeam
    <3> QED BY <2>4, <3>1, <3>2
  <2>9. /\ page' \in Pages /\ page'.stream = page.stream /\ page'.wire = rest
        /\ page'.rows = page.rows /\ page'.shown = shown
    BY <1>1, <2>4, <2>6, <2>8 DEF Pages
  <2>10. page.stream # NoStream
    BY <2>3 DEF Shown
  <2> QED BY <1>1, <1>5, <1>6, <2>6, <2>7, <2>8, <2>9, <2>10 DEF PageKeeps
<1> QED BY <1>7, <1>8, <1>9, <1>10

LEMMA ShownStep == LInv /\ [Next]_vars /\ Grown => Shown'
<1> SUFFICES ASSUME LInv, [Next]_vars, Grown PROVE Shown'
  OBVIOUS
<1>1. Buffered /\ Shown
  BY DEF LInv
<1>2. ASSUME NEW s \in Streams, OpenStream(s) \/ SendEvent(s) PROVE Shown'
  BY <1>1, <1>2, PageOpens, PageIsSent
<1>3. CASE Stop \/ LoseStream
  BY <1>1, <1>3, PageIsCut
<1>4. CASE AnswerHistory \/ ShowHistory \/ Receive \/ Clear
  BY <1>1, <1>4, PageSteps
<1>5. CASE page' = page
  BY <1>1, <1>5, PageStays
<1>6. ASSUME NEW s \in Streams, CloseStream(s) PROVE page' = page
  BY <1>6 DEF CloseStream
<1>7. CASE Emit \/ Start \/ PutLogForwarding \/ Forwarder \/ Tick \/ NextDay \/ UNCHANGED vars
  <2>1. page' = page
    BY <1>7 DEF Emit, Start, PutLogForwarding, Forwarder, Begin, Check, Take, Die, Timeout, Tick, NextDay, vars
  <2> QED BY <1>5, <2>1
<1> QED BY <1>2, <1>3, <1>4, <1>5, <1>6, <1>7 DEF Next, Console

-----------------------------------------------------------------------------
LEMMA InitInv == Init => LInv
<1> SUFFICES ASSUME Init PROVE LInv
  OBVIOUS
<1>1. PICK none : none = <<>>
  OBVIOUS
<1>2. /\ Ordered(none) /\ none \in Seq(LogEvent) /\ none \in Seq(Nat) /\ Len(none) = 0 /\ DOMAIN none = {}
      /\ Descents(none) = {} /\ \A n : UpTo(n, none) /\ Past(n, none)
  <2>1. none \in Seq(Nat) /\ DOMAIN none = {}
    BY <1>1
  <2>2. Ordered(none) /\ Len(none) = 0 /\ \A n : UpTo(n, none) /\ Past(n, none)
    BY <1>1, NoEvents
  <2> QED BY <2>1, <2>2, OrderedIsSeamless DEF Ordered
<1>3. /\ BufferSize \in Nat /\ QueueMax \in Nat /\ HistoryLimit \in Nat /\ ConsoleMax \in Nat /\ ReloadTicks \in Nat
      /\ MaxRecords \in Nat /\ MaxDay \in Nat
  BY LogsAssumption
<1>4. Buffered
  <2>1. rec = 0 /\ seq = 0 /\ subscribers = {} /\ events = none /\ queues = [r \in Readers |-> none]
    BY <1>1 DEF Init
  <2>2. \A r \in Readers : queues[r] = none
    BY <2>1
  <2> QED BY <1>1, <1>2, <1>3, <2>1, <2>2 DEF Buffered
<1>5. Running
  <2>1. up = FALSE /\ propagating \subseteq Direct /\ attached = {} /\ fwd = Idle /\ day = 0 /\ Idle.at = "off"
    BY DEF Init, Idle
  <2>2. fwd \in Forwarders /\ day \in 0 .. MaxDay /\ fwd.at # "starting"
    BY <1>3, <2>1, IdleIsForwarder
  <2> QED BY <2>1, <2>2 DEF Running
<1>6. Young
  <2>1. stored \in Configs \cup {NoConfig} /\ offFor = 0 /\ fwd = Idle /\ Idle.config = NoConfig /\ ~Enabled(Idle.config) /\ Idle.at = "off"
    BY DEF Init, Idle, Enabled
  <2>2. 0 \in 0 .. Stale + 1
    BY <1>3 DEF Stale
  <2> QED BY <2>1, <2>2 DEF Young
<1>7. Filed
  <2>1. files = [n \in Names |-> [lines |-> none, written |-> -1]]
    BY <1>1 DEF Init, NoFile
  <2>2. files \in LogFiles /\ \A n \in Names : DOMAIN files[n].lines = {}
    BY <1>2, <2>1 DEF LogFiles
  <2> QED BY <2>2 DEF Filed
<1>8. Shown
  <2>1. page \in Pages
    <3>1. page \in [shown : {none}, stream : {NoStream}, wire : {none}, asked : {"no"}, rows : {none},
                    filter : IF scene = "console" THEN Filters ELSE {[sources |-> {}, min |-> 0]}]
      BY <1>1 DEF Init
    <3> QED BY <1>2, <3>1 DEF Pages
  <2>2. page.shown = none /\ page.wire = none /\ page.rows = none /\ page.stream = NoStream
    BY <1>1 DEF Init
  <2>3. Coming = none
    BY <1>1, <2>2 DEF Coming
  <2>4. PageKeeps(page, rec, Coming)
    BY <1>2, <1>3, <2>2, <2>3 DEF PageKeeps, Seamed
  <2> QED BY <1>1, <2>1, <2>2, <2>4 DEF Shown
<1> QED BY <1>4, <1>5, <1>6, <1>7, <1>8 DEF LInv

(* LInv is inductive: a record is handled once at most, so what the        *)
(* buffer, the queues, the files and the page hold is in the order it was  *)
(* logged, across restarts of the process and of streams; and the          *)
(* configuration in use is never older than the interval and one timeout.  *)
THEOREM LogsInvariant == Spec => []LInv
<1>1. Init => LInv
  BY InitInv
<1>2. LInv /\ [Next]_vars => LInv'
  BY BufferedStep, RunningStep, YoungStep, FiledStep, ShownStep DEF LInv
<1> QED BY <1>1, <1>2, PTL DEF Spec

(* Every variable of the log pipeline keeps its type, and no buffer, queue *)
(* or console grows past its limit (logs/buffer.py:35).                    *)
THEOREM LogsTyped == Spec => []TypeOK
<1>1. LInv => TypeOK
  <2> SUFFICES ASSUME LInv PROVE TypeOK
    OBVIOUS
  <2>1. Buffered /\ Running /\ Young /\ Filed /\ Shown
    BY DEF LInv
  <2>2. /\ up \in BOOLEAN /\ propagating \subseteq Direct /\ day \in 0 .. MaxDay
        /\ fwd.at \in {"off", "starting", "check", "get", "dead"}
        /\ fwd.config \in Configs \cup {NoConfig, Default} /\ fwd.age \in 0 .. Stale /\ fwd.waited \in 0 .. 1
    BY <2>1 DEF Running, Forwarders
  <2>3. /\ rec \in 0 .. MaxRecords + 1 /\ seq \in Nat /\ subscribers \subseteq Readers
        /\ events \in Seq(LogEvent) /\ Len(events) <= BufferSize
        /\ \A r \in Readers : queues[r] \in Seq(LogEvent) /\ Len(queues[r]) <= QueueMax
        /\ \A r \in Readers \ subscribers : queues[r] = <<>>
    BY <2>1 DEF Buffered, Ordered
  <2>4. stored \in Configs \cup {NoConfig} /\ offFor \in 0 .. Stale + 1
    BY <2>1 DEF Young
  <2>5. \A n \in Names : \A i \in DOMAIN files[n].lines : files[n].lines[i] \in 1 .. rec
    BY <2>1 DEF Filed
  <2>6. /\ page.shown \in Seq(LogEvent) /\ Len(page.shown) <= ConsoleMax
        /\ page.stream \in Streams \cup {NoStream}
    BY <2>1 DEF Shown, PageKeeps, Pages
  <2> QED BY <2>2, <2>3, <2>4, <2>5, <2>6 DEF TypeOK
<1> QED BY <1>1, LogsInvariant, PTL

LEMMA OrderedIsOnce == ASSUME NEW s, Ordered(s) PROVE Cardinality(Recs(s)) = Len(s)
<1>1. s \in Seq(LogEvent) /\ DOMAIN s = 1 .. Len(s) /\ Len(s) \in Nat
  BY DEF Ordered
<1>2. PICK D : D = DOMAIN s
  OBVIOUS
<1>3. IsFiniteSet(D) /\ Cardinality(D) = Len(s)
  <2>1. IsFiniteSet(1 .. Len(s)) /\ Cardinality(1 .. Len(s)) = IF 1 > Len(s) THEN 0 ELSE Len(s) - 1 + 1
    BY <1>1, FS_Interval
  <2> QED BY <1>1, <1>2, <2>1
<1>4. PICK f : f = [i \in D |-> s[i].rec]
  OBVIOUS
<1>5. PICK R : R = Recs(s)
  OBVIOUS
<1>6. R = {s[i].rec : i \in D}
  BY <1>2, <1>5 DEF Recs
<1>7. f \in [D -> R]
  BY <1>4, <1>6
<1>8. \A i, j \in D : f[i] = f[j] => i = j
  <2> SUFFICES ASSUME NEW i \in D, NEW j \in D, i # j PROVE f[i] # f[j]
    OBVIOUS
  <2>1. s[i].rec \in Nat /\ s[j].rec \in Nat
    BY <1>1, <1>2, RecsAreNumbers
  <2>2. i < j \/ j < i
    BY <1>1, <1>2
  <2>3. s[i].rec < s[j].rec \/ s[j].rec < s[i].rec
    BY <1>2, <2>2 DEF Ordered
  <2> QED BY <1>4, <2>1, <2>3
<1>9. f \in Injection(D, R)
  BY <1>7, <1>8, Fun_IsInj
<1>10. f \in Surjection(D, R)
  BY <1>4, <1>6, <1>7 DEF Surjection
<1>11. Cardinality(R) = Cardinality(D)
  BY <1>3, <1>9, <1>10, FS_Surjection
<1> QED BY <1>3, <1>5, <1>11

(* A record is in the buffer, in a queue and in all files together once at *)
(* most, whatever loggers propagate and whenever the process restarts      *)
(* (logs/handler.py:60, logs/file_forwarder.py:96).                        *)
THEOREM RecordsGoOnce == Spec => []RecordsOnce
<1>1. LInv => RecordsOnce
  <2> SUFFICES ASSUME LInv PROVE RecordsOnce
    OBVIOUS
  <2>1. Ordered(events) /\ \A r \in Readers : Ordered(queues[r])
    BY DEF LInv, Buffered
  <2>2. \A r \in Readers : Cardinality(Recs(queues[r])) = Len(queues[r])
    BY <2>1, OrderedIsOnce
  <2>3. Cardinality(Recs(events)) = Len(events)
    BY <2>1, OrderedIsOnce
  <2>4. \A m, n \in Names : \A i \in DOMAIN files[m].lines, j \in DOMAIN files[n].lines :
          files[m].lines[i] = files[n].lines[j] => m = n /\ i = j
    BY DEF LInv, Filed
  <2> QED BY <2>2, <2>3, <2>4 DEF RecordsOnce
<1> QED BY <1>1, LogsInvariant, PTL

(* Once the setting is off, nothing is written with the old one for longer *)
(* than the reload interval and one timeout of the get                     *)
(* (logs/file_forwarder.py:83).                                            *)
THEOREM OffIsOff == Spec => []OffMeansOff
<1>1. LInv => OffMeansOff
  <2> SUFFICES ASSUME LInv, fwd.at = "get", Enabled(fwd.config), ~Enabled(stored) PROVE offFor <= Stale
    BY DEF OffMeansOff
  <2>1. offFor <= fwd.age /\ fwd.age \in 0 .. Stale /\ offFor \in 0 .. Stale + 1 /\ Stale \in Nat
    BY LogsAssumption DEF LInv, Young, Running, Forwarders, Stale
  <2> QED BY <2>1
<1> QED BY <1>1, LogsInvariant, PTL

(* The console shows lines in order but for one seam between history and   *)
(* stream, however often the stream breaks and the console is paused or    *)
(* cleared (web/components/logs/live-console.tsx:71).                     *)
THEOREM OneSeamShows == Spec => []OneSeam
<1>1. LInv => OneSeam
  <2> SUFFICES ASSUME LInv PROVE OneSeam
    OBVIOUS
  <2>1. \A i, j \in Descents(page.shown) : i = j
    BY DEF LInv, Shown, PageKeeps, Seamed
  <2>2. Descents(page.shown) = {} \/ \E i : Descents(page.shown) = {i}
    BY <2>1
  <2>3. Cardinality(Descents(page.shown)) <= 1
    BY <2>2, FS_EmptySet, FS_Singleton
  <2> QED BY <2>3 DEF OneSeam, Descents
<1> QED BY <1>1, LogsInvariant, PTL
=============================================================================
