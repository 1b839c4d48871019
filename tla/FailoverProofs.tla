--------------------------- MODULE FailoverProofs ----------------------------
(***************************************************************************)
(* Theorems about ChannelFailover, for any number of addressees, callbacks *)
(* at once, settings of the tenant, webhook events and faults.             *)
(***************************************************************************)
EXTENDS ChannelFailover, SequenceTheorems, FiniteSetTheorems, TLAPS

-----------------------------------------------------------------------------
(* Sequences of messages and of rows, and the chains of channels. *)

LEMMA Accepted ==
  ASSUME copy \in Seq(Copy), NEW p \in Person \cup {Stranger}, NEW channel \in Channel,
         NEW by \in {"handler", "callback", "exhausted", "unread"}, NEW after \in Nat,
         Accept(p, channel, by, after)
  PROVE  /\ copy' \in Seq(Copy)
         /\ Len(copy) + 1 \in DOMAIN copy' /\ Len(copy) + 1 \in Nat
         /\ Len(copy) + 1 \notin DOMAIN copy
         /\ DOMAIN copy' = DOMAIN copy \cup {Len(copy) + 1}
         /\ \A c \in DOMAIN copy : copy'[c] = copy[c]
         /\ copy'[Len(copy) + 1]
              = [to |-> p, channel |-> channel, by |-> by, after |-> after, fate |-> "sent"]
<1> DEFINE new == [to |-> p, channel |-> channel, by |-> by, after |-> after, fate |-> "sent"]
<1>1. new \in Copy
  BY DEF Copy, Fate
<1>2. copy' = Append(copy, new)
  BY DEF Accept
<1> HIDE DEF new
<1>3. /\ copy' \in Seq(Copy) /\ Len(copy') = Len(copy) + 1 /\ Len(copy) \in Nat
      /\ copy'[Len(copy) + 1] = new /\ \A c \in 1..Len(copy) : copy'[c] = copy[c]
  BY <1>1, <1>2
<1>4. DOMAIN copy = 1..Len(copy) /\ DOMAIN copy' = 1..(Len(copy) + 1)
  BY <1>3, LenProperties
<1> QED BY <1>3, <1>4 DEF new

LEMMA RowWritten ==
  ASSUME row \in Seq(Report), NEW c \in Nat, WriteRow(c)
  PROVE  /\ row' \in Seq(Report)
         /\ DOMAIN row' = DOMAIN row \cup {Len(row) + 1}
         /\ \A i \in DOMAIN row : row'[i] = row[i] /\ i < Len(row) + 1
         /\ row'[Len(row) + 1] = [of |-> c, status |-> "sent"]
         /\ DOMAIN row \subseteq Nat /\ Len(row) + 1 \notin DOMAIN row /\ Len(row) \in Nat
<1> DEFINE new == [of |-> c, status |-> "sent"]
<1>1. new \in Report
  BY DEF Report, Fate
<1>2. row' = Append(row, new)
  BY DEF WriteRow
<1> HIDE DEF new
<1>3. /\ row' \in Seq(Report) /\ Len(row') = Len(row) + 1 /\ Len(row) \in Nat
      /\ row'[Len(row) + 1] = new /\ \A i \in 1..Len(row) : row'[i] = row[i]
  BY <1>1, <1>2
<1>4. DOMAIN row = 1..Len(row) /\ DOMAIN row' = 1..(Len(row) + 1)
  BY <1>3, LenProperties
<1> QED BY <1>3, <1>4 DEF new

\* A callback changes the status of rows, and nothing else.
LEMMA RowsUpdated ==
  ASSUME row \in Seq(Report), NEW R, NEW s \in Fate,
         row' = [i \in DOMAIN row |-> IF i \in R THEN [row[i] EXCEPT !.status = s] ELSE row[i]]
  PROVE  /\ row' \in Seq(Report) /\ DOMAIN row' = DOMAIN row
         /\ \A i \in DOMAIN row : /\ row'[i].of = row[i].of
                                  /\ row'[i].status = IF i \in R THEN s ELSE row[i].status
<1>1. Len(row) \in Nat /\ row \in [1..Len(row) -> Report] /\ DOMAIN row = 1..Len(row)
  BY LenProperties
<1>2. ASSUME NEW i \in 1..Len(row)
      PROVE  /\ row'[i] \in Report /\ row'[i].of = row[i].of
             /\ row'[i].status = IF i \in R THEN s ELSE row[i].status
  BY <1>1 DEF Report
<1>3. row' \in [1..Len(row) -> Report]
  BY <1>1, <1>2
<1> QED BY <1>1, <1>2, <1>3, SeqDef

\* A copy meets its fate, and is otherwise the same.
LEMMA FateChanged ==
  ASSUME copy \in Seq(Copy), NEW c \in DOMAIN copy, NEW fate \in Fate,
         copy' = [copy EXCEPT ![c].fate = fate]
  PROVE  /\ copy' \in Seq(Copy) /\ DOMAIN copy' = DOMAIN copy
         /\ \A d \in DOMAIN copy : /\ copy'[d].by = copy[d].by /\ copy'[d].after = copy[d].after
                                   /\ copy'[d].channel = copy[d].channel
                                   /\ d # c => copy'[d] = copy[d]
         /\ copy'[c].fate = fate
<1>1. Len(copy) \in Nat /\ copy \in [1..Len(copy) -> Copy] /\ DOMAIN copy = 1..Len(copy)
  BY LenProperties
<1>2. copy' \in [1..Len(copy) -> Copy]
  BY <1>1 DEF Copy
<1>3. copy' \in Seq(Copy)
  BY <1>1, <1>2, SeqDef
<1>4. \A d \in DOMAIN copy : /\ copy'[d].by = copy[d].by /\ copy'[d].after = copy[d].after
                             /\ copy'[d].channel = copy[d].channel
                             /\ d # c => copy'[d] = copy[d]
  BY <1>1 DEF Copy
<1> QED BY <1>1, <1>2, <1>3, <1>4 DEF Copy

LEMMA NextTyped ==
  ASSUME NEW chain \in Seq(Channel), NEW channel
  PROVE  NextIn(chain, channel) \subseteq Channel
<1>1. Len(chain) \in Nat /\ chain \in [1..Len(chain) -> Channel]
  BY LenProperties
<1> QED BY <1>1 DEF NextIn

LEMMA SettingsTyped ==
  ASSUME setup \in Setups
  PROVE  /\ setup \in Setup
         /\ setup.people \in Seq(Person) /\ setup.primary \in Channel
         /\ WorkerStrategy \subseteq Strategy
         /\ \A x \in Strategy : x.chain \in Seq(Channel)
         /\ \A channel : NextOf(WorkerChains, channel) \subseteq Channel
         /\ \A channel : NextOf(ServiceChains, channel) \subseteq Channel
<1>1. setup \in Setup
  BY FailoverAssumption
<1>2. /\ setup.people \in Seq(Person) /\ setup.primary \in Channel
      /\ setup.rule \subseteq Strategy /\ setup.default \subseteq Strategy
      /\ setup.legacy \subseteq Seq(Channel)
  BY <1>1 DEF Setup, Channel
<1>3. \A x \in Strategy : x.chain \in Seq(Channel)
  BY DEF Strategy
<1>4. WorkerStrategy \subseteq Strategy
  BY <1>2 DEF WorkerStrategy
<1>5. WorkerChains \subseteq Seq(Channel)
  BY <1>2, <1>3, <1>4 DEF WorkerChains
<1>6. ServiceChains \subseteq Seq(Channel)
  BY <1>2, <1>3 DEF ServiceChains
<1> QED BY <1>1, <1>2, <1>3, <1>4, <1>5, <1>6, NextTyped DEF NextOf

-----------------------------------------------------------------------------
(* Type correctness. *)

\* The handler is past its checks only with somebody to send to, and logs a
\* message it has sent.
WorkerOK ==
  /\ worker \in Worker
  /\ worker.at # "done" => setup.people # << >>
  /\ worker.at \in {"log", "schedule"} => worker.left # << >>
  /\ worker.at \in {"log", "logFailover"} => worker.last \in DOMAIN copy

LinesOK ==
  /\ line \in [Line -> Callback]
  /\ \A l \in Line : /\ line[l].at # "idle" => line[l].of \in DOMAIN copy
                     /\ line[l].at = "log" => line[l].last \in DOMAIN copy

FlightOK == flight \subseteq Report /\ \A x \in flight : x.of \in DOMAIN copy

CheckOK == check \in Check /\ (check.at = "log" => check.last \in DOMAIN copy)

RowsOK == row \in Seq(Report) /\ \A i \in DOMAIN row : row[i].of \in DOMAIN copy

HistoryOK == heard \cup tried \cup early \cup overrun \cup readIn \subseteq DOMAIN copy

\* A reminder for nobody sends nothing.
Peopled == setup.people = << >> => copy = << >> /\ check.at = "none"

Typing ==
  /\ setup \in Setups /\ copy \in Seq(Copy)
  /\ reminder \in {"PENDING", "SENT", "DELIVERED", "FAILED"}
  /\ WorkerOK /\ LinesOK /\ FlightOK /\ CheckOK /\ RowsOK /\ HistoryOK /\ Peopled

LEMMA TypingTypes == Typing => FailoverTypeOK
BY DEF Typing, FailoverTypeOK, WorkerOK, LinesOK, FlightOK, CheckOK, RowsOK, HistoryOK

LEMMA CopiesNumbered == ASSUME Typing PROVE DOMAIN copy \subseteq Nat /\ Len(copy) \in Nat
<1>1. Len(copy) \in Nat /\ DOMAIN copy = 1..Len(copy)
  BY LenProperties DEF Typing
<1> QED BY <1>1

LEMMA StartTyped == FailoverInit => Typing
<1> SUFFICES ASSUME FailoverInit PROVE Typing
  OBVIOUS
<1> USE DEF FailoverInit
<1>1. /\ setup.people \in Seq(Person) /\ setup.primary \in Channel
      /\ copy \in Seq(Copy) /\ row \in Seq(Report)
  BY SettingsTyped
<1>2. WorkerOK
  BY <1>1 DEF WorkerOK, Worker, Beginning, Channel
<1>3. LinesOK /\ FlightOK
  BY DEF LinesOK, NoLine, Callback, Fate, Channel, FlightOK
<1>4. CheckOK /\ check.at = "none"
  BY DEF CheckOK, Check, NoCheck
<1> QED BY <1>1, <1>2, <1>3, <1>4 DEF Typing, RowsOK, HistoryOK, Peopled

\* More copies disturb nobody.
LEMMA OthersTyped ==
  ASSUME Typing, copy' \in Seq(Copy), DOMAIN copy \subseteq DOMAIN copy', setup' = setup
  PROVE  /\ worker' = worker => WorkerOK'
         /\ line' = line => LinesOK'
         /\ flight' = flight => FlightOK'
         /\ check' = check => CheckOK'
         /\ row' = row => RowsOK'
         /\ UNCHANGED failoverHistory => HistoryOK'
BY DEF Typing, WorkerOK, LinesOK, FlightOK, CheckOK, RowsOK, HistoryOK, failoverHistory

LEMMA LoggedTyped ==
  ASSUME Typing, NEW c \in DOMAIN copy, WriteRow(c), copy' = copy
  PROVE  RowsOK'
<1>1. row \in Seq(Report) /\ c \in Nat /\ \A i \in DOMAIN row : row[i].of \in DOMAIN copy
  BY CopiesNumbered DEF Typing, RowsOK
<1>2. /\ row' \in Seq(Report) /\ DOMAIN row' = DOMAIN row \cup {Len(row) + 1}
      /\ \A i \in DOMAIN row : row'[i] = row[i]
      /\ row'[Len(row) + 1] = [of |-> c, status |-> "sent"]
  BY <1>1, RowWritten
<1>3. row'[Len(row) + 1].of = c
  BY <1>2
<1> QED BY <1>1, <1>2, <1>3 DEF RowsOK

\* The job's handler moves on: to where, with what.
LEMMA WorkerMoves ==
  ASSUME Typing,
         \/ SendPrimaryRefused \/ ScheduleCheck \/ EndHandler \/ HandlerStartsOver
         \/ HandlerGivesUp \/ ChooseFailover \/ EscalateRefused
  PROVE  WorkerOK'
<1>1. /\ setup.people \in Seq(Person) /\ setup.primary \in Channel
      /\ NextOf(WorkerChains, setup.primary) \subseteq Channel
  BY SettingsTyped DEF Typing
<1>2. /\ worker \in Worker
      /\ worker.at # "done" => setup.people # << >>
      /\ worker.at \in {"log", "schedule"} => worker.left # << >>
  BY DEF Typing, WorkerOK
<1>3. worker.left \in Seq(Person)
  BY <1>2 DEF Worker
<1>4. setup' = setup /\ copy' = copy
  BY DEF SendPrimaryRefused, ScheduleCheck, EndHandler, HandlerStartsOver,
         HandlerGivesUp, ChooseFailover, EscalateRefused, Handling
<1>5. CASE SendPrimaryRefused \/ ScheduleCheck
  <2>1. worker.left # << >> /\ setup.people # << >>
    BY <1>2, <1>5 DEF SendPrimaryRefused, ScheduleCheck
  <2>2. Tail(worker.left) \in Seq(Person)
    BY <1>3, <2>1, HeadTailProperties
  <2>3. worker' = [worker EXCEPT !.at = "send", !.left = Tail(@)]
    BY <1>2, <1>5 DEF SendPrimaryRefused, ScheduleCheck, Worker
  <2>4. worker' \in Worker /\ worker'.at = "send"
    BY <1>2, <2>2, <2>3 DEF Worker
  <2> QED BY <1>4, <2>1, <2>4 DEF WorkerOK
<1>6. CASE EndHandler \/ EscalateRefused
  BY <1>2, <1>4, <1>6 DEF EndHandler, EscalateRefused, WorkerOK, Worker
<1>7. CASE HandlerStartsOver
  <2>1. Beginning \in Worker /\ Beginning.at = "send"
    BY <1>1 DEF Beginning, Worker
  <2>2. [worker EXCEPT !.at = "done"] \in Worker /\ [worker EXCEPT !.at = "done"].at = "done"
    BY <1>2 DEF Worker
  <2> QED BY <1>2, <1>4, <1>7, <2>1, <2>2 DEF HandlerStartsOver, WorkerOK
<1>8. CASE HandlerGivesUp
  BY <1>2, <1>4, <1>8 DEF HandlerGivesUp, WorkerOK, Worker
<1>9. CASE ChooseFailover
  <2> DEFINE next == {x \in NextOf(WorkerChains, setup.primary) : InPlan(x)}
  <2>1. next # {} => (CHOOSE x \in next : TRUE) \in Channel
    BY <1>1
  <2>2. worker' = IF next = {} \/ setup.event THEN [worker EXCEPT !.at = "done"]
                  ELSE [worker EXCEPT !.at = "escalate", !.channel = CHOOSE x \in next : TRUE]
    BY <1>9 DEF ChooseFailover
  <2> HIDE DEF next
  <2>3. worker' \in Worker /\ worker'.at \in {"done", "escalate"}
    BY <1>2, <2>1, <2>2 DEF Worker
  <2> QED BY <1>2, <1>4, <1>9, <2>3 DEF ChooseFailover, WorkerOK
<1> QED BY <1>5, <1>6, <1>7, <1>8, <1>9

LEMMA HandlerTyped ==
  ASSUME Typing, HandlerStep
  PROVE  Typing'
<1>1. setup' = setup /\ UNCHANGED failoverHistory /\ line' = line /\ flight' = flight
  BY DEF HandlerStep, SendPrimary, SendPrimaryRefused, LogPrimary, ScheduleCheck, EndHandler,
         HandlerStartsOver, HandlerGivesUp, ChooseFailover, Escalate, EscalateRefused,
         LogFailover, Handling
<1>2. /\ worker \in Worker
      /\ worker.at # "done" => setup.people # << >>
      /\ worker.at \in {"log", "schedule"} => worker.left # << >>
      /\ worker.at \in {"log", "logFailover"} => worker.last \in DOMAIN copy
      /\ worker.left \in Seq(Person) /\ copy \in Seq(Copy)
      /\ setup.people \in Seq(Person) /\ setup.primary \in Channel
  BY SettingsTyped DEF Typing, WorkerOK, Worker
<1>3. \A s \in Seq(Person) : s # << >> => Head(s) \in Person
  BY HeadTailProperties
<1>4. DOMAIN copy \subseteq Nat
  BY CopiesNumbered
<1>5. CASE SendPrimary \/ Escalate
  <2>1. PICK p \in Person, channel \in Channel, by \in {"handler", "exhausted"} :
          Accept(p, channel, by, 0)
    BY <1>2, <1>3, <1>5 DEF SendPrimary, Escalate, Worker
  <2>2. /\ copy' \in Seq(Copy) /\ DOMAIN copy \subseteq DOMAIN copy'
        /\ Len(copy) + 1 \in DOMAIN copy' /\ Len(copy) + 1 \in Nat
    BY <1>2, <2>1, Accepted
  <2>3. /\ reminder' = reminder /\ row' = row /\ check' = check /\ worker.at # "done"
        /\ worker' \in {[worker EXCEPT !.at = "log", !.last = Len(copy) + 1],
                        [worker EXCEPT !.at = "logFailover", !.last = Len(copy) + 1]}
        /\ worker'.at = "log" => worker.left # << >>
    BY <1>2, <1>5 DEF SendPrimary, Escalate, Worker
  <2>4. WorkerOK'
    BY <1>1, <1>2, <2>2, <2>3 DEF WorkerOK, Worker
  <2> QED BY <1>1, <1>2, <2>2, <2>3, <2>4, OthersTyped DEF Typing, Peopled
<1>6. CASE LogPrimary \/ LogFailover
  <2>1. /\ WriteRow(worker.last) /\ worker.last \in DOMAIN copy
        /\ reminder' = reminder /\ copy' = copy /\ check' = check
    BY <1>2, <1>6 DEF LogPrimary, LogFailover
  <2>2. RowsOK'
    BY <2>1, LoggedTyped
  <2>3. WorkerOK'
    <3>1. CASE LogPrimary
      <4>1. worker.left # << >> /\ Tail(worker.left) \in Seq(Person)
        BY <1>2, <3>1, HeadTailProperties DEF LogPrimary
      <4>2. /\ worker' \in Worker /\ worker'.at \in {"schedule", "send"}
            /\ worker'.at = "schedule" => worker'.left = worker.left
        BY <1>2, <3>1, <4>1 DEF LogPrimary, Worker
      <4> QED BY <1>1, <1>2, <2>1, <3>1, <4>1, <4>2 DEF WorkerOK, LogPrimary
    <3>2. CASE LogFailover
      BY <1>1, <1>2, <2>1, <3>2 DEF LogFailover, Worker, WorkerOK
    <3> QED BY <1>6, <3>1, <3>2
  <2> QED BY <1>1, <1>2, <2>1, <2>2, <2>3, OthersTyped DEF Typing, Peopled
<1>7. CASE \/ SendPrimaryRefused \/ ScheduleCheck \/ EndHandler \/ HandlerStartsOver
           \/ HandlerGivesUp \/ ChooseFailover \/ EscalateRefused
  <2>1. copy' = copy /\ row' = row
    BY <1>7 DEF SendPrimaryRefused, ScheduleCheck, EndHandler, HandlerStartsOver,
         HandlerGivesUp, ChooseFailover, EscalateRefused
  <2>2. reminder' \in {"PENDING", "SENT", "DELIVERED", "FAILED"}
    BY <1>7 DEF SendPrimaryRefused, ScheduleCheck, EndHandler, HandlerStartsOver,
         HandlerGivesUp, ChooseFailover, EscalateRefused, Typing
  <2>3. CheckOK' /\ Peopled'
    <3>1. CASE ScheduleCheck
      <4>1. setup.people # << >> /\ Head(worker.left) \in Person
        BY <1>2, <1>3, <3>1 DEF ScheduleCheck
      <4>2. \A x \in WorkerStrategy : x.chain \in Seq(Channel)
        BY SettingsTyped DEF Typing
      <4>3. CheckOK'
        BY <2>1, <3>1, <4>1, <4>2 DEF ScheduleCheck, Typing, CheckOK, Check
      <4> QED BY <1>1, <4>1, <4>3 DEF Peopled
    <3>2. CASE ~ScheduleCheck
      <4>1. check' = check
        BY <1>7, <3>2 DEF SendPrimaryRefused, EndHandler, HandlerStartsOver,
           HandlerGivesUp, ChooseFailover, EscalateRefused
      <4> QED BY <1>1, <2>1, <4>1 DEF Typing, CheckOK, Peopled
    <3> QED BY <3>1, <3>2
  <2> QED BY <1>1, <1>2, <1>7, <2>1, <2>2, <2>3, OthersTyped, WorkerMoves DEF Typing
<1> QED BY <1>5, <1>6, <1>7 DEF HandlerStep

\* What a callback's line becomes.
LEMMA LineMoves ==
  ASSUME Typing, NEW l \in Line
  PROVE  /\ [line EXCEPT ![l] = NoLine] \in [Line -> Callback]
         /\ \A x \in Report :
              [line EXCEPT ![l] = [NoLine EXCEPT !.at = "update", !.of = x.of, !.status = x.status]]
                \in [Line -> Callback]
         /\ \A at \in {"update", "deliver", "detect", "choose", "send", "log"} :
              /\ [line EXCEPT ![l].at = at] \in [Line -> Callback]
              /\ \A x \in Channel : [line EXCEPT ![l].at = at, ![l].channel = x] \in [Line -> Callback]
              /\ \A n \in Nat : [line EXCEPT ![l].at = at, ![l].last = n] \in [Line -> Callback]
<1>1. line \in [Line -> Callback]
  BY DEF Typing, LinesOK
<1>2. NoLine \in Callback
  BY DEF NoLine, Callback, Fate, Channel
<1>3. \A x \in Report : [NoLine EXCEPT !.at = "update", !.of = x.of, !.status = x.status] \in Callback
  BY <1>2 DEF Callback, Report
<1>4. ASSUME NEW at \in {"update", "deliver", "detect", "choose", "send", "log"}
      PROVE  /\ [line EXCEPT ![l].at = at] \in [Line -> Callback]
             /\ \A x \in Channel : [line EXCEPT ![l].at = at, ![l].channel = x] \in [Line -> Callback]
             /\ \A n \in Nat : [line EXCEPT ![l].at = at, ![l].last = n] \in [Line -> Callback]
  BY <1>1 DEF Callback
<1> QED BY <1>1, <1>2, <1>3, <1>4

\* A line that goes on with its copy, or ends.
LEMMA LineGoes ==
  ASSUME Typing, NEW l \in Line, NEW at \in {"deliver", "detect", "choose", "send"},
         \/ line' = [line EXCEPT ![l] = NoLine]
         \/ line' = [line EXCEPT ![l].at = at]
         \/ \E x \in Channel : line' = [line EXCEPT ![l].at = at, ![l].channel = x]
  PROVE  /\ line' \in [Line -> Callback] /\ \A m \in Line : m # l => line'[m] = line[m]
         /\ line'[l].at = "idle" \/ (line'[l].of = line[l].of /\ line'[l].at # "log")
<1>1. line \in [Line -> Callback] /\ line[l] \in Callback /\ NoLine.at = "idle"
  BY DEF Typing, LinesOK, NoLine
<1>2. CASE line' = [line EXCEPT ![l] = NoLine]
  BY <1>1, <1>2, LineMoves
<1>3. CASE line' = [line EXCEPT ![l].at = at]
  <2>1. line' \in [Line -> Callback]
    BY <1>3, LineMoves
  <2> QED BY <1>1, <1>3, <2>1 DEF Callback
<1>4. ASSUME NEW x \in Channel, line' = [line EXCEPT ![l].at = at, ![l].channel = x]
      PROVE  /\ line' \in [Line -> Callback] /\ \A m \in Line : m # l => line'[m] = line[m]
             /\ line'[l].of = line[l].of /\ line'[l].at = at
  <2>1. line' \in [Line -> Callback]
    BY <1>4, LineMoves
  <2> QED BY <1>1, <1>4, <2>1 DEF Callback
<1> QED BY <1>2, <1>3, <1>4

\* A line that ends, and one that goes on with the same copy.
LEMMA LinesTyped ==
  ASSUME Typing, NEW l \in Line, DOMAIN copy \subseteq DOMAIN copy',
         line' \in [Line -> Callback], \A m \in Line : m # l => line'[m] = line[m],
         \/ line'[l].at = "idle"
         \/ /\ line[l].at # "idle" /\ line'[l].of = line[l].of
            /\ line'[l].at = "log" => line'[l].last \in DOMAIN copy'
  PROVE  LinesOK'
<1>1. \A m \in Line : /\ line[m].at # "idle" => line[m].of \in DOMAIN copy
                      /\ line[m].at = "log" => line[m].last \in DOMAIN copy
  BY DEF Typing, LinesOK
<1>2. ASSUME NEW m \in Line
      PROVE  /\ line'[m].at # "idle" => line'[m].of \in DOMAIN copy'
             /\ line'[m].at = "log" => line'[m].last \in DOMAIN copy'
  BY <1>1
<1> QED BY <1>2 DEF LinesOK

LEMMA LineStepTyped ==
  ASSUME Typing, NEW l \in Line, LineStep(l)
  PROVE  Typing'
<1>1. setup' = setup /\ worker' = worker /\ check' = check
  BY DEF LineStep, ReceiveReport, Receive, UpdateRow, MarkDelivered, Detect, NoFallback,
         ChooseFallback, SendFallback, SendFallbackRefused, LogFallback, LineFails
<1>2. /\ line \in [Line -> Callback] /\ line[l] \in Callback /\ NoLine.at = "idle"
      /\ line[l].at # "idle" => line[l].of \in DOMAIN copy
      /\ line[l].at = "log" => line[l].last \in DOMAIN copy
  BY DEF Typing, LinesOK, NoLine
<1>3. copy \in Seq(Copy) /\ setup.people \in Seq(Person)
  BY SettingsTyped DEF Typing
<1>4. ASSUME copy' = copy, row' = row, reminder' = reminder, flight' = flight,
             UNCHANGED <<early, overrun, readIn>>,
             heard' \cup tried' \subseteq heard \cup tried \cup {line[l].of}, line[l].at # "idle",
             LinesOK'
      PROVE  Typing'
  <2>1. HistoryOK'
    BY <1>2, <1>4 DEF Typing, HistoryOK
  <2> QED BY <1>1, <1>3, <1>4, <2>1, OthersTyped DEF Typing, Peopled
<1>5. CASE ReceiveReport(l)
  <2>1. PICK x \in flight : Receive(l, x) /\ flight' \subseteq flight
    BY <1>5 DEF ReceiveReport
  <2>2. x \in Report /\ x.of \in DOMAIN copy
    BY <2>1 DEF Typing, FlightOK
  <2>3. line' = [line EXCEPT ![l] = [NoLine EXCEPT !.at = "update", !.of = x.of, !.status = x.status]]
    BY <2>1 DEF Receive
  <2>4. /\ line' \in [Line -> Callback] /\ \A m \in Line : m # l => line'[m] = line[m]
        /\ line'[l].of = x.of /\ line'[l].at = "update"
    BY <1>2, <2>2, <2>3, LineMoves DEF NoLine
  <2>5. copy' = copy /\ row' = row /\ reminder' = reminder /\ UNCHANGED failoverHistory
    BY <2>1 DEF Receive
  <2>6. LinesOK' /\ FlightOK'
    BY <2>1, <2>2, <2>4, <2>5 DEF Typing, LinesOK, FlightOK
  <2> QED BY <1>1, <1>3, <2>5, <2>6, OthersTyped DEF Typing, Peopled
<1>6. CASE UpdateRow(l)
  <2>1. /\ copy' = copy /\ flight' = flight /\ reminder' = reminder /\ line[l].at = "update"
        /\ heard' = heard /\ tried' = tried
        /\ early' \cup overrun' \cup readIn' \subseteq early \cup overrun \cup readIn \cup {line[l].of}
        /\ line' \in {[line EXCEPT ![l].at = "deliver"], [line EXCEPT ![l].at = "detect"],
                      [line EXCEPT ![l] = NoLine]}
    BY <1>6 DEF UpdateRow
  <2>2. /\ line' \in [Line -> Callback] /\ \A m \in Line : m # l => line'[m] = line[m]
        /\ line'[l].at = "idle" \/ (line'[l].of = line[l].of /\ line'[l].at # "log")
    BY <2>1, LineGoes
  <2>3. LinesOK'
    BY <2>1, <2>2, LinesTyped
  <2>4. RowsOK'
    <3>1. line[l].status \in Fate
      BY <1>2 DEF Callback
    <3>2. row' = [i \in DOMAIN row |-> IF i \in RowsOf(line[l].of)
                                       THEN [row[i] EXCEPT !.status = line[l].status] ELSE row[i]]
      BY <1>6 DEF UpdateRow
    <3>3. /\ row' \in Seq(Report) /\ DOMAIN row' = DOMAIN row
          /\ \A i \in DOMAIN row : row'[i].of = row[i].of
      BY <3>1, <3>2, RowsUpdated DEF Typing, RowsOK
    <3> QED BY <2>1, <3>3 DEF Typing, RowsOK
  <2>5. HistoryOK'
    BY <1>2, <2>1 DEF Typing, HistoryOK
  <2> QED BY <1>1, <1>3, <2>1, <2>3, <2>4, <2>5, OthersTyped DEF Typing, Peopled
<1>7. CASE MarkDelivered(l)
  <2>1. /\ copy' = copy /\ row' = row /\ flight' = flight /\ UNCHANGED failoverHistory
        /\ reminder' \in {reminder, "DELIVERED"} /\ line' = [line EXCEPT ![l] = NoLine]
    BY <1>7 DEF MarkDelivered
  <2>2. LinesOK'
    BY <1>2, <2>1, LineMoves, LinesTyped
  <2> QED BY <1>1, <1>3, <2>1, <2>2, OthersTyped DEF Typing, Peopled
<1>8. CASE Detect(l) \/ NoFallback(l) \/ ChooseFallback(l) \/ SendFallbackRefused(l) \/ LineFails(l)
  <2>1. /\ copy' = copy /\ row' = row /\ reminder' = reminder /\ flight' = flight
        /\ UNCHANGED <<early, overrun, readIn>> /\ line[l].at # "idle"
        /\ heard' \cup tried' \subseteq heard \cup tried \cup {line[l].of}
    <3>1. CASE Detect(l)
      BY <3>1 DEF Detect, Hears
    <3>2. CASE NoFallback(l) \/ SendFallbackRefused(l)
      BY <3>2 DEF NoFallback, SendFallbackRefused, Hears, Tries
    <3>3. CASE ChooseFallback(l) \/ LineFails(l)
      BY <3>3 DEF ChooseFallback, LineFails, failoverHistory
    <3> QED BY <1>8, <3>1, <3>2, <3>3
  <2>2. \/ line' = [line EXCEPT ![l] = NoLine]
        \/ \E at \in {"choose", "send"}, x \in Channel :
             line' = [line EXCEPT ![l].at = at, ![l].channel = x]
    <3>1. CASE Detect(l)
      <4>1. line[l].of \in DOMAIN copy /\ copy[line[l].of].channel \in Channel
        <5>1. copy \in [DOMAIN copy -> Copy]
          BY <1>3, LenProperties
        <5> QED BY <1>2, <3>1, <5>1 DEF Detect, Copy
      <4> QED BY <3>1, <4>1 DEF Detect, Hears
    <3>2. CASE NoFallback(l) \/ SendFallbackRefused(l) \/ LineFails(l)
      BY <3>2 DEF NoFallback, SendFallbackRefused, LineFails, Hears
    <3>3. CASE ChooseFallback(l)
      BY <3>3, SettingsTyped DEF ChooseFallback, Typing
    <3> QED BY <1>8, <3>1, <3>2, <3>3
  <2>3. /\ line' \in [Line -> Callback] /\ \A m \in Line : m # l => line'[m] = line[m]
        /\ line'[l].at = "idle" \/ (line'[l].of = line[l].of /\ line'[l].at # "log")
    BY <2>2, LineGoes
  <2>4. LinesOK'
    BY <2>1, <2>3, LinesTyped
  <2> QED BY <1>4, <2>1, <2>4
<1>9. CASE SendFallback(l)
  <2>1. setup.people # << >> /\ Head(setup.people) \in Person /\ line[l].of \in Nat
        /\ line[l].channel \in Channel
    <3>1. copy # << >>
      BY <1>2, <1>9 DEF SendFallback
    <3>2. setup.people # << >>
      BY <3>1 DEF Typing, Peopled
    <3> QED BY <1>2, <1>3, <3>2, HeadTailProperties DEF Callback
  <2>2. /\ copy' \in Seq(Copy) /\ DOMAIN copy \subseteq DOMAIN copy'
        /\ Len(copy) + 1 \in DOMAIN copy' /\ Len(copy) + 1 \in Nat
    BY <1>3, <1>9, <2>1, Accepted DEF SendFallback
  <2>3. line' = [line EXCEPT ![l].at = "log", ![l].last = Len(copy) + 1] /\ line[l].at = "send"
    BY <1>9 DEF SendFallback
  <2>4. /\ line' \in [Line -> Callback] /\ \A m \in Line : m # l => line'[m] = line[m]
        /\ line'[l].of = line[l].of /\ line'[l].last = Len(copy) + 1
    BY <1>2, <2>2, <2>3, LineMoves DEF Callback
  <2>5. LinesOK'
    BY <2>2, <2>3, <2>4, LinesTyped
  <2>6. /\ row' = row /\ flight' = flight /\ reminder' = reminder
        /\ UNCHANGED <<heard, early, overrun, readIn>> /\ tried' = tried \cup {line[l].of}
    BY <1>9 DEF SendFallback, Tries
  <2>7. HistoryOK'
    BY <1>2, <2>2, <2>3, <2>6 DEF Typing, HistoryOK
  <2> QED BY <1>1, <2>1, <2>2, <2>5, <2>6, <2>7, OthersTyped DEF Typing, Peopled
<1>10. CASE LogFallback(l)
  <2>1. /\ line[l].last \in DOMAIN copy /\ WriteRow(line[l].last) /\ copy' = copy
        /\ flight' = flight /\ reminder' = reminder /\ line[l].at = "log"
        /\ UNCHANGED <<tried, early, overrun, readIn>> /\ heard' = heard \cup {line[l].of}
        /\ line' = [line EXCEPT ![l] = NoLine]
    BY <1>2, <1>10 DEF LogFallback, Hears
  <2>2. RowsOK'
    BY <2>1, LoggedTyped
  <2>3. LinesOK'
    BY <1>2, <2>1, LineMoves, LinesTyped
  <2>4. HistoryOK'
    BY <1>2, <2>1 DEF Typing, HistoryOK
  <2> QED BY <1>1, <1>3, <2>1, <2>2, <2>3, <2>4, OthersTyped DEF Typing, Peopled
<1> QED BY <1>5, <1>6, <1>7, <1>8, <1>9, <1>10 DEF LineStep

LEMMA ProviderTyped ==
  ASSUME Typing, NEW c \in DOMAIN copy, ProviderReports(c)
  PROVE  Typing'
<1>1. setup \in Setup /\ setup.failures \subseteq Failing
  BY SettingsTyped DEF Typing, Setup
<1>2. PICK fate \in Fate : Becomes(c, fate)
  BY <1>1 DEF ProviderReports, Fate
<1>3. copy' \in Seq(Copy) /\ DOMAIN copy' = DOMAIN copy
  BY <1>2, FateChanged DEF Becomes, Typing
<1>4. /\ setup' = setup /\ worker' = worker /\ reminder' = reminder /\ row' = row
      /\ line' = line /\ check' = check /\ UNCHANGED failoverHistory
      /\ \A x \in flight' : x \in flight \/ \E s \in Fate : x = [of |-> c, status |-> s]
  BY <1>2 DEF Becomes, Fate
<1>5. c \in Nat
  BY CopiesNumbered
<1>6. FlightOK'
  BY <1>3, <1>4, <1>5 DEF Typing, FlightOK, Report
<1> QED BY <1>3, <1>4, <1>6, OthersTyped, EmptySeq, LenProperties DEF Typing, Peopled

LEMMA CheckTyped ==
  ASSUME Typing, CheckStep
  PROVE  Typing'
<1>1. /\ setup' = setup /\ worker' = worker /\ reminder' = reminder /\ line' = line
      /\ UNCHANGED failoverHistory /\ flight' = flight
  BY DEF CheckStep, CheckReads, CheckPlan, CheckSends, CheckRefused, CheckLogs, CheckFaults,
         Checking
<1>2. /\ check \in Check /\ check.chain \in Seq(Channel) /\ check.to \in Person \cup {Stranger}
      /\ check.at = "log" => check.last \in DOMAIN copy
  BY DEF Typing, CheckOK, Check
<1>3. copy \in Seq(Copy)
  BY DEF Typing
<1>4. ASSUME check' \in Check, check.at # "none", check'.at # "log", copy' = copy, row' = row
      PROVE  Typing'
  <2>1. CheckOK' /\ Peopled'
    BY <1>1, <1>4 DEF Typing, CheckOK, Peopled
  <2> QED BY <1>1, <1>3, <1>4, <2>1, OthersTyped DEF Typing
<1>5. CASE CheckReads
  <2>1. readIn \in SUBSET Nat
    BY CopiesNumbered DEF Typing, HistoryOK
  <2>2. \E at \in {"plan", "done"} : check' = [check EXCEPT !.at = at, !.known = readIn]
    BY <1>5 DEF CheckReads
  <2>3. check' \in Check /\ check'.at # "log"
    BY <1>2, <2>1, <2>2 DEF Check
  <2> QED BY <1>4, <1>5, <2>3 DEF CheckReads
<1>6. CASE CheckPlan \/ CheckRefused \/ CheckFaults
  <2>1. \E at \in {"send", "done", "waiting"} : check' = [check EXCEPT !.at = at]
    BY <1>6 DEF CheckPlan, CheckRefused, CheckFaults
  <2>2. check' \in Check /\ check'.at # "log"
    BY <1>2, <2>1 DEF Check
  <2> QED BY <1>4, <1>6, <2>2 DEF CheckPlan, CheckRefused, CheckFaults
<1>7. CASE CheckSends
  <2>1. PICK x \in Channel, p \in Person \cup {Stranger} : Accept(p, x, "unread", 0)
    BY <1>2, <1>7, NextTyped DEF CheckSends
  <2>2. /\ copy' \in Seq(Copy) /\ DOMAIN copy \subseteq DOMAIN copy'
        /\ Len(copy) + 1 \in DOMAIN copy' /\ Len(copy) + 1 \in Nat
    BY <1>3, <2>1, Accepted
  <2>3. check' = [check EXCEPT !.at = "log", !.last = Len(copy) + 1] /\ row' = row
        /\ check.at = "send"
    BY <1>7 DEF CheckSends
  <2>4. CheckOK'
    BY <1>2, <2>2, <2>3 DEF CheckOK, Check
  <2>5. setup.people # << >>
    BY <2>3 DEF Typing, Peopled
  <2> QED BY <1>1, <2>2, <2>3, <2>4, <2>5, OthersTyped DEF Typing, Peopled
<1>8. CASE CheckLogs
  <2>1. /\ check.last \in DOMAIN copy /\ WriteRow(check.last) /\ copy' = copy
        /\ check' = [check EXCEPT !.at = "done"] /\ check.at = "log"
    BY <1>2, <1>8 DEF CheckLogs
  <2>2. RowsOK'
    BY <2>1, LoggedTyped
  <2>3. CheckOK'
    BY <1>2, <2>1 DEF CheckOK, Check
  <2> QED BY <1>1, <1>3, <2>1, <2>2, <2>3, OthersTyped DEF Typing, Peopled
<1> QED BY <1>5, <1>6, <1>7, <1>8 DEF CheckStep

LEMMA TypingKept == Typing /\ [FailoverNext]_<<billingVars, failoverVars>> => Typing'
<1> SUFFICES ASSUME Typing, [FailoverNext]_<<billingVars, failoverVars>> PROVE Typing'
  OBVIOUS
<1>1. CASE FailoverStep
  BY <1>1, HandlerTyped, ProviderTyped, LineStepTyped, CheckTyped DEF FailoverStep
<1>2. CASE UNCHANGED failoverVars
  <2>1. /\ UNCHANGED <<setup, worker, reminder, copy, row, flight, line, check>>
        /\ UNCHANGED failoverHistory
    BY <1>2 DEF failoverVars
  <2>2. copy \in Seq(Copy)
    BY DEF Typing
  <2> QED BY <2>1, <2>2, OthersTyped DEF Typing, Peopled
<1> QED BY <1>1, <1>2 DEF FailoverNext, failoverVars

LEMMA TypingAlways == FailoverSpec => []Typing
BY StartTyped, TypingKept, PTL DEF FailoverSpec

\* Every variable of ChannelFailover keeps its type, and each MessageLog row is one
\* of a message that was sent, whatever the settings of the tenant.
THEOREM FailoverTypes == FailoverSpec => []FailoverTypeOK
BY TypingAlways, TypingTypes, PTL

-----------------------------------------------------------------------------
(* What becomes of the rows. *)

\* A step writes a new row, updates those of one copy, or leaves the rows alone.
LEMMA RowSteps ==
  ASSUME Typing, FailoverStep
  PROVE  /\ \/ row' = row
            \/ \E c \in DOMAIN copy : WriteRow(c)
            \/ \E l \in Line : UpdateRow(l)
         /\ (early' = early /\ overrun' = overrun /\ readIn' = readIn)
              \/ \E l \in Line : UpdateRow(l)
<1>1. CASE HandlerStep
  <2>1. UNCHANGED failoverHistory
    BY <1>1 DEF HandlerStep, SendPrimary, SendPrimaryRefused, LogPrimary, ScheduleCheck,
       EndHandler, HandlerStartsOver, HandlerGivesUp, ChooseFailover, Escalate,
       EscalateRefused, LogFailover, Handling
  <2>2. row' = row \/ ((LogPrimary \/ LogFailover) /\ WriteRow(worker.last))
    BY <1>1 DEF HandlerStep, SendPrimary, SendPrimaryRefused, LogPrimary, ScheduleCheck,
       EndHandler, HandlerStartsOver, HandlerGivesUp, ChooseFailover, Escalate,
       EscalateRefused, LogFailover
  <2>3. LogPrimary \/ LogFailover => worker.last \in DOMAIN copy
    BY DEF Typing, WorkerOK, LogPrimary, LogFailover
  <2> QED BY <2>1, <2>2, <2>3 DEF failoverHistory
<1>2. CASE \E c \in DOMAIN copy : ProviderReports(c)
  BY <1>2 DEF ProviderReports, Becomes, failoverHistory
<1>3. ASSUME NEW l \in Line, LineStep(l), ~UpdateRow(l)
      PROVE  /\ row' = row \/ \E c \in DOMAIN copy : WriteRow(c)
             /\ early' = early /\ overrun' = overrun /\ readIn' = readIn
  <2>1. CASE LogFallback(l)
    BY <2>1 DEF LogFallback, Typing, LinesOK
  <2>2. CASE ReceiveReport(l) \/ MarkDelivered(l) \/ Detect(l)
    BY <2>2 DEF ReceiveReport, Receive, MarkDelivered, Detect, failoverHistory
  <2>3. CASE NoFallback(l) \/ ChooseFallback(l) \/ SendFallback(l) \/ SendFallbackRefused(l)
             \/ LineFails(l)
    BY <2>3 DEF NoFallback, ChooseFallback, SendFallback, SendFallbackRefused, LineFails,
       failoverHistory
  <2> QED BY <1>3, <2>1, <2>2, <2>3 DEF LineStep
<1>4. CASE CheckStep
  <2>1. UNCHANGED failoverHistory
    BY <1>4 DEF CheckStep, CheckReads, CheckPlan, CheckSends, CheckRefused, CheckLogs,
       CheckFaults, Checking
  <2>2. row' = row \/ (CheckLogs /\ WriteRow(check.last))
    BY <1>4 DEF CheckStep, CheckReads, CheckPlan, CheckSends, CheckRefused, CheckLogs,
       CheckFaults
  <2>3. CheckLogs => check.last \in DOMAIN copy
    BY DEF Typing, CheckOK, CheckLogs
  <2> QED BY <2>1, <2>2, <2>3 DEF failoverHistory
<1> QED BY <1>1, <1>2, <1>3, <1>4 DEF FailoverStep

\* The rows of copy c tell of a failure, or of its having been read, unless a
\* late report has taken that from them.
Tells(c, S) == c \in overrun \/ \E i \in RowsOf(c) : row[i].status \in S

\* What a row tells stays, or is overrun.
LEMMA TellsOn ==
  ASSUME Typing, FailoverStep, NEW c, NEW S, S \subseteq Precious, Tells(c, S)
  PROVE  Tells(c, S)'
<1>1. row \in Seq(Report) /\ line \in [Line -> Callback]
  BY DEF Typing, RowsOK, LinesOK
<1>2. CASE c \in overrun
  <2>1. overrun \subseteq overrun'
    BY RowSteps DEF UpdateRow
  <2> QED BY <1>2, <2>1 DEF Tells
<1>3. ASSUME c \notin overrun, row' = row PROVE Tells(c, S)'
  <2>1. PICK i \in DOMAIN row : row[i].of = c /\ row[i].status \in S
    BY <1>3 DEF Tells, RowsOf
  <2> QED BY <1>3, <2>1 DEF Tells, RowsOf
<1>4. ASSUME c \notin overrun, NEW k \in DOMAIN copy, WriteRow(k) PROVE Tells(c, S)'
  <2>1. PICK i \in DOMAIN row : row[i].of = c /\ row[i].status \in S
    BY <1>4 DEF Tells, RowsOf
  <2>2. i \in DOMAIN row' /\ row'[i] = row[i]
    BY <1>1, <1>4, CopiesNumbered, RowWritten
  <2> QED BY <2>1, <2>2 DEF Tells, RowsOf
<1>5. ASSUME c \notin overrun, NEW l \in Line, UpdateRow(l) PROVE Tells(c, S)'
  <2> DEFINE s == line[l].status
             R == RowsOf(line[l].of)
  <2>1. PICK i \in DOMAIN row : row[i].of = c /\ row[i].status \in S
    BY <1>5 DEF Tells, RowsOf
  <2>2. /\ row' = [j \in DOMAIN row |-> IF j \in R THEN [row[j] EXCEPT !.status = s] ELSE row[j]]
        /\ overrun' = IF \E j \in R : row[j].status \in Precious \ {s}
                      THEN overrun \cup {line[l].of} ELSE overrun
    BY <1>5 DEF UpdateRow
  <2>3. s \in Fate
    BY <1>1 DEF Callback
  <2> HIDE DEF s, R
  <2>4. /\ DOMAIN row' = DOMAIN row /\ row'[i].of = c
        /\ row'[i].status = IF i \in R THEN s ELSE row[i].status
    BY <1>1, <2>1, <2>2, <2>3, RowsUpdated
  <2>5. CASE i \notin R \/ s \in S
    BY <2>1, <2>4, <2>5 DEF Tells, RowsOf
  <2>6. CASE i \in R /\ s \notin S
    <3>1. line[l].of = c
      BY <2>1, <2>6 DEF R, RowsOf
    <3>2. row[i].status \in Precious \ {s}
      BY <2>1, <2>6
    <3> QED BY <2>2, <2>6, <3>1, <3>2 DEF Tells
  <2> QED BY <2>5, <2>6
<1> QED BY <1>2, <1>3, <1>4, <1>5, RowSteps

-----------------------------------------------------------------------------
(* Failures are answered. *)

\* A line that looks for a fallback handles a failure that is noted in the row, or
\* that no row can tell any more; one that logs a fallback has tried it.
LineKnows(l) ==
  /\ line[l].at \in {"detect", "choose", "send"} => line[l].status \in Failing
  /\ line[l].at = "detect" => line[l].of \in early \/ Tells(line[l].of, Failing)
  /\ line[l].at = "log" => line[l].of \in tried

Heeded == heard \subseteq tried \cup early \cup overrun /\ \A l \in Line : LineKnows(l)

\* Whoever is not at work on l leaves it alone.
LEMMA LinesAlone ==
  ASSUME Typing, FailoverStep
  PROVE  /\ (line' = line /\ heard' = heard /\ tried' = tried) \/ \E l \in Line : LineStep(l)
         /\ \A l \in Line : LineStep(l) =>
              /\ \A m \in Line : m # l => line'[m] = line[m]
              /\ tried \subseteq tried'
<1>1. (line' = line /\ heard' = heard /\ tried' = tried) \/ \E l \in Line : LineStep(l)
  <2>1. HandlerStep => UNCHANGED failoverHistory /\ line' = line
    BY DEF HandlerStep, SendPrimary, SendPrimaryRefused, LogPrimary, ScheduleCheck,
       EndHandler, HandlerStartsOver, HandlerGivesUp, ChooseFailover, Escalate,
       EscalateRefused, LogFailover, Handling
  <2>2. \A c \in DOMAIN copy : ProviderReports(c) => UNCHANGED failoverHistory /\ line' = line
    BY DEF ProviderReports, Becomes
  <2>3. CheckStep => UNCHANGED failoverHistory /\ line' = line
    BY DEF CheckStep, CheckReads, CheckPlan, CheckSends, CheckRefused, CheckLogs,
       CheckFaults, Checking
  <2> QED BY <2>1, <2>2, <2>3 DEF FailoverStep, failoverHistory
<1>2. ASSUME NEW l \in Line, LineStep(l)
      PROVE  (\A m \in Line : m # l => line'[m] = line[m]) /\ tried \subseteq tried'
  <2>1. line \in [Line -> Callback]
    BY DEF Typing, LinesOK
  <2>2. CASE ReceiveReport(l) \/ UpdateRow(l) \/ MarkDelivered(l)
    BY <2>1, <2>2 DEF ReceiveReport, Receive, UpdateRow, MarkDelivered, failoverHistory
  <2>3. CASE Detect(l) \/ NoFallback(l) \/ ChooseFallback(l)
    BY <2>1, <2>3 DEF Detect, NoFallback, ChooseFallback, Hears, Tries, failoverHistory
  <2>4. CASE SendFallback(l) \/ SendFallbackRefused(l) \/ LogFallback(l) \/ LineFails(l)
    BY <2>1, <2>4 DEF SendFallback, SendFallbackRefused, LogFallback, LineFails, Hears, Tries,
       failoverHistory
  <2> QED BY <1>2, <2>2, <2>3, <2>4 DEF LineStep
<1> QED BY <1>1, <1>2

\* A line at rest knows what it knew.
LEMMA OthersKnow ==
  ASSUME Typing, Heeded, FailoverStep, NEW l \in Line, line'[l] = line[l]
  PROVE  LineKnows(l)'
<1>1. LineKnows(l)
  BY DEF Heeded
<1>2. early \subseteq early' /\ tried \subseteq tried'
  BY RowSteps, LinesAlone DEF UpdateRow
<1>3. Tells(line[l].of, Failing) => Tells(line[l].of, Failing)'
  BY TellsOn DEF Precious
<1> QED BY <1>1, <1>2, <1>3 DEF LineKnows, Tells, RowsOf

LEMMA UpdateKnows ==
  ASSUME Typing, Heeded, NEW l \in Line, UpdateRow(l)
  PROVE  LineKnows(l)' /\ heard' \subseteq tried' \cup early' \cup overrun'
<1> DEFINE s == line[l].status
           c == line[l].of
<1>1. /\ line \in [Line -> Callback] /\ s \in Fate /\ row \in Seq(Report)
  BY DEF Typing, LinesOK, RowsOK, Callback
<1>2. /\ row' = [j \in DOMAIN row |-> IF j \in RowsOf(c) THEN [row[j] EXCEPT !.status = s] ELSE row[j]]
      /\ line' = IF s = "delivered" THEN [line EXCEPT ![l].at = "deliver"]
                 ELSE IF s \in Failing THEN [line EXCEPT ![l].at = "detect"]
                 ELSE [line EXCEPT ![l] = NoLine]
      /\ early' = IF s \in Failing /\ RowsOf(c) = {} THEN early \cup {c} ELSE early
      /\ heard' = heard /\ tried' = tried /\ overrun \subseteq overrun'
  BY DEF UpdateRow
<1>3. heard' \subseteq tried' \cup early' \cup overrun'
  BY <1>2 DEF Heeded
<1>4. CASE s \notin Failing
  <2>1. line'[l].at \in {"deliver", "idle"}
    BY <1>1, <1>2, <1>4 DEF Callback, NoLine
  <2> QED BY <1>3, <2>1 DEF LineKnows
<1>5. CASE s \in Failing
  <2>1. line'[l].at = "detect" /\ line'[l].status = s /\ line'[l].of = c
    BY <1>1, <1>2, <1>5 DEF Callback, Failing
  <2>2. CASE RowsOf(c) = {}
    BY <1>2, <1>3, <1>5, <2>1, <2>2 DEF LineKnows
  <2>3. ASSUME NEW i \in RowsOf(c) PROVE LineKnows(l)'
    <3>1. /\ DOMAIN row' = DOMAIN row /\ i \in DOMAIN row /\ row'[i].of = c
          /\ row'[i].status = s
      <4> DEFINE R == RowsOf(c)
      <4>1. i \in DOMAIN row /\ row[i].of = c /\ i \in R
        BY DEF RowsOf
      <4>2. row' = [j \in DOMAIN row |-> IF j \in R THEN [row[j] EXCEPT !.status = s] ELSE row[j]]
        BY <1>2
      <4>3. s \in Fate /\ row \in Seq(Report)
        BY <1>1
      <4> HIDE DEF R, s, c
      <4>4. /\ DOMAIN row' = DOMAIN row
            /\ \A j \in DOMAIN row : /\ row'[j].of = row[j].of
                                     /\ row'[j].status = IF j \in R THEN s ELSE row[j].status
        BY <4>2, <4>3, RowsUpdated
      <4> QED BY <4>1, <4>4
    <3>2. Tells(line[l].of, Failing)'
      BY <1>5, <2>1, <3>1 DEF Tells, RowsOf
    <3> QED BY <1>5, <2>1, <3>2 DEF LineKnows, Tells, RowsOf
  <2> QED BY <1>3, <2>2, <2>3
<1> QED BY <1>4, <1>5

LEMMA LineStepKnows ==
  ASSUME Typing, Heeded, NEW l \in Line, LineStep(l)
  PROVE  LineKnows(l)' /\ heard' \subseteq tried' \cup early' \cup overrun'
<1>1. line \in [Line -> Callback] /\ NoLine.at = "idle"
  BY DEF Typing, LinesOK, NoLine
<1>2. LineKnows(l) /\ heard \subseteq tried \cup early \cup overrun
  BY DEF Heeded
<1>3. ASSUME line'[l].at \notin {"detect", "choose", "send", "log"} PROVE LineKnows(l)'
  BY <1>3 DEF LineKnows
<1>4. CASE ReceiveReport(l)
  <2>1. PICK x \in flight : Receive(l, x)
    BY <1>4 DEF ReceiveReport
  <2>2. line'[l].at = "update"
    BY <1>1, <2>1 DEF Receive, NoLine
  <2> QED BY <1>2, <1>3, <2>1, <2>2 DEF Receive, failoverHistory
<1>5. CASE UpdateRow(l)
  BY <1>5, UpdateKnows
<1>6. CASE MarkDelivered(l) \/ LineFails(l)
  <2>1. line'[l].at = "idle" /\ UNCHANGED failoverHistory
    BY <1>1, <1>6 DEF MarkDelivered, LineFails
  <2> QED BY <1>2, <1>3, <2>1 DEF failoverHistory
<1>7. CASE NoFallback(l) \/ SendFallbackRefused(l) \/ LogFallback(l)
  <2>1. line'[l].at = "idle" /\ heard' = heard \cup {line[l].of} /\ line[l].of \in tried'
        /\ tried \subseteq tried' /\ UNCHANGED <<early, overrun>>
    BY <1>1, <1>2, <1>7 DEF NoFallback, SendFallbackRefused, LogFallback, Hears, Tries, LineKnows
  <2> QED BY <1>2, <1>3, <2>1
<1>8. CASE Detect(l)
  <2>1. line[l].at = "detect" /\ UNCHANGED <<tried, early, overrun>>
    BY <1>8 DEF Detect
  <2>2. CASE Hears(l) /\ \A i \in RowsOf(line[l].of) : row[i].status \notin Failing
    <3>1. line[l].of \in early \cup overrun
      BY <1>2, <2>1, <2>2 DEF LineKnows, Tells
    <3>2. line'[l].at = "idle" /\ heard' = heard \cup {line[l].of}
      BY <1>1, <2>2 DEF Hears
    <3> QED BY <1>2, <1>3, <2>1, <3>1, <3>2
  <2>3. CASE /\ heard' = heard
             /\ line' = [line EXCEPT ![l].at = "choose", ![l].channel = copy[line[l].of].channel]
    <3>1. line'[l].at = "choose" /\ line'[l].status = line[l].status
      BY <1>1, <2>3 DEF Callback
    <3> QED BY <1>2, <2>1, <2>3, <3>1 DEF LineKnows
  <2> QED BY <1>8, <2>2, <2>3 DEF Detect
<1>9. CASE ChooseFallback(l)
  <2>1. line[l].at = "choose" /\ UNCHANGED failoverHistory
        /\ line'[l].at = "send" /\ line'[l].status = line[l].status
    BY <1>1, <1>9 DEF ChooseFallback, Callback
  <2> QED BY <1>2, <2>1 DEF LineKnows, failoverHistory
<1>10. CASE SendFallback(l)
  <2>1. line'[l].at = "log" /\ line'[l].of = line[l].of /\ tried' = tried \cup {line[l].of}
        /\ UNCHANGED <<heard, early, overrun>>
    BY <1>1, <1>10 DEF SendFallback, Tries, Callback
  <2> QED BY <1>2, <2>1 DEF LineKnows
<1> QED BY <1>4, <1>5, <1>6, <1>7, <1>8, <1>9, <1>10 DEF LineStep

LEMMA AnsweredKept ==
  ASSUME Typing, Heeded, FailoverStep
  PROVE  Heeded'
<1>1. CASE \E l \in Line : LineStep(l)
  BY <1>1, LineStepKnows, OthersKnow, LinesAlone DEF Heeded
<1>2. CASE line' = line /\ heard' = heard /\ tried' = tried
  <2>1. early \subseteq early' /\ overrun \subseteq overrun'
    BY RowSteps DEF UpdateRow
  <2> QED BY <1>2, <2>1, OthersKnow DEF Heeded
<1> QED BY <1>1, <1>2, LinesAlone

\* The failure reports of a copy on their way, those being handled, and the
\* fallbacks they caused: their number is bounded, and 0 for a copy that has not
\* failed.
Reports(c) == {x \in flight : x.of = c /\ x.status \in Failing}

Handlings(c) ==
  {l \in Line : /\ line[l].of = c /\ line[l].status \in Failing
                /\ line[l].at \in {"update", "detect", "choose", "send"}}

Single(c) == Reports(c) \subseteq {[of |-> c, status |-> copy[c].fate]}

Spared(c) ==
  copy[c].fate \notin Failing => Reports(c) = {} /\ Handlings(c) = {} /\ FallbacksOf(c) = {}

Within(c) ==
  Cardinality(Reports(c)) + Cardinality(Handlings(c)) + Cardinality(FallbacksOf(c)) <= 1 + faults

InBounds(c) == Single(c) /\ Spared(c) /\ Within(c)

\* A fallback is one of a copy sent before.
Sourced == \A d \in DOMAIN copy : copy[d].by = "callback" => copy[d].after \in DOMAIN copy

Bounded == faults \in Nat /\ Sourced /\ \A c \in DOMAIN copy : InBounds(c)

LEMMA SetsFinite ==
  ASSUME Typing, NEW c, Single(c)
  PROVE  /\ IsFiniteSet(Reports(c)) /\ Cardinality(Reports(c)) \in Nat
         /\ IsFiniteSet(Handlings(c)) /\ Cardinality(Handlings(c)) \in Nat
         /\ IsFiniteSet(FallbacksOf(c)) /\ Cardinality(FallbacksOf(c)) \in Nat
<1>1. IsFiniteSet(Reports(c))
  <2>1. IsFiniteSet({[of |-> c, status |-> copy[c].fate]})
    BY FS_Singleton
  <2> QED BY <2>1, FS_Subset DEF Single
<1>2. IsFiniteSet(Handlings(c))
  BY FailoverAssumption, FS_Subset DEF Handlings
<1>3. IsFiniteSet(FallbacksOf(c))
  <2>1. IsFiniteSet(1..Len(copy)) /\ DOMAIN copy = 1..Len(copy)
    BY CopiesNumbered, LenProperties, FS_Interval DEF Typing
  <2> QED BY <2>1, FS_Subset DEF FallbacksOf
<1> QED BY <1>1, <1>2, <1>3, FS_CardinalityType

LEMMA Sums ==
  \A a, b, c, x, y, z, m, n \in Nat :
    x <= a /\ y <= b /\ z <= c /\ a + b + c <= 1 + m /\ m <= n => x + y + z <= 1 + n
OBVIOUS

\* Nothing new is due for c.
LEMMA NothingNew ==
  ASSUME Typing, faults \in Nat, faults' \in Nat, faults <= faults', NEW c \in DOMAIN copy, InBounds(c),
         Reports(c)' \subseteq Reports(c), Handlings(c)' \subseteq Handlings(c),
         FallbacksOf(c)' \subseteq FallbacksOf(c), copy'[c].fate = copy[c].fate
  PROVE  InBounds(c)'
<1> DEFINE r == Cardinality(Reports(c))
           h == Cardinality(Handlings(c))
           f == Cardinality(FallbacksOf(c))
           r2 == Cardinality(Reports(c)')
           h2 == Cardinality(Handlings(c)')
           f2 == Cardinality(FallbacksOf(c)')
<1>1. /\ IsFiniteSet(Reports(c)) /\ IsFiniteSet(Handlings(c)) /\ IsFiniteSet(FallbacksOf(c))
      /\ r \in Nat /\ h \in Nat /\ f \in Nat
  BY SetsFinite DEF InBounds
<1>2. r2 \in Nat /\ r2 <= r
  BY <1>1, FS_Subset, FS_CardinalityType
<1>3. h2 \in Nat /\ h2 <= h
  BY <1>1, FS_Subset, FS_CardinalityType
<1>4. f2 \in Nat /\ f2 <= f
  BY <1>1, FS_Subset, FS_CardinalityType
<1>5. r + h + f <= 1 + faults
  BY DEF InBounds, Within
<1>6. r2 + h2 + f2 <= 1 + faults'
  <2> HIDE DEF r, h, f, r2, h2, f2
  <2> QED BY <1>1, <1>2, <1>3, <1>4, <1>5, Sums
<1>7. Within(c)'
  BY <1>6 DEF Within
<1> QED BY <1>7 DEF InBounds, Single, Spared

\* Nothing is due for c at all.
LEMMA NothingDue ==
  ASSUME NEW c, faults' \in Nat, Reports(c)' = {}, Handlings(c)' = {}, FallbacksOf(c)' = {}
  PROVE  InBounds(c)'
<1>1. Within(c)'
  <2>1. Cardinality({}) = 0
    BY FS_EmptySet
  <2> QED BY <2>1 DEF Within
<1> QED BY <1>1 DEF InBounds, Single, Spared

LEMMA FaultsGrow ==
  ASSUME FailoverNext
  PROVE  faults' = faults \/ faults' = faults + 1
<1>1. CASE BillingNext
  BY <1>1 DEF BillingNext, DeliveryStep, SweepStep, BillingFault, Deliver, CannotVerify,
     SkipDuplicate, SharesId, PassCheck, Mark, CheckFails, Route, Apply, Answer, HookFails, SweepReads,
     SweepWrites, SweepFails, Verify, Subscribe, TrialEnds
<1>2. CASE HandlerStep
  BY <1>2 DEF HandlerStep, billingVars, BillingFault, SendPrimary, SendPrimaryRefused, LogPrimary,
     ScheduleCheck, EndHandler, HandlerStartsOver, HandlerGivesUp, ChooseFailover, Escalate,
     EscalateRefused, LogFailover
<1>3. ASSUME NEW c \in DOMAIN copy, ProviderReports(c) PROVE faults' = faults
  BY <1>3 DEF ProviderReports, Becomes, billingVars
<1>4. ASSUME NEW l \in Line, LineStep(l) PROVE faults' = faults \/ faults' = faults + 1
  BY <1>4 DEF LineStep, billingVars, BillingFault, ReceiveReport, UpdateRow, MarkDelivered,
     Detect, NoFallback, ChooseFallback, SendFallback, SendFallbackRefused, LogFallback, LineFails
<1>5. CASE CheckStep
  BY <1>5 DEF CheckStep, billingVars, BillingFault, CheckReads, CheckPlan, CheckSends,
     CheckRefused, CheckLogs, CheckFaults
<1> QED BY <1>1, <1>2, <1>3, <1>4, <1>5 DEF FailoverNext, FailoverStep

\* A copy not sent yet has no reports and no fallbacks.
LEMMA NobodyKnows ==
  ASSUME Typing, Sourced, NEW n, n \notin DOMAIN copy
  PROVE  Reports(n) = {} /\ Handlings(n) = {} /\ FallbacksOf(n) = {}
<1>1. Reports(n) = {}
  BY DEF Typing, FlightOK, Reports
<1>2. Handlings(n) = {}
  BY DEF Typing, LinesOK, Handlings
<1>3. FallbacksOf(n) = {}
  BY DEF Sourced, FallbacksOf
<1> QED BY <1>1, <1>2, <1>3

\* A message somebody else sends is no fallback.
LEMMA OtherSendsBounded ==
  ASSUME Typing, Bounded, faults' \in Nat, faults <= faults', flight' = flight, line' = line,
         NEW p \in Person \cup {Stranger}, NEW channel \in Channel,
         NEW by \in {"handler", "exhausted", "unread"}, Accept(p, channel, by, 0)
  PROVE  Bounded'
<1>1. PICK n : /\ DOMAIN copy' = DOMAIN copy \cup {n} /\ n \notin DOMAIN copy
               /\ \A c \in DOMAIN copy : copy'[c] = copy[c]
               /\ copy'[n].by = by
  <2> DEFINE n == Len(copy) + 1
  <2>1. 0 \in Nat /\ by \in {"handler", "callback", "exhausted", "unread"} /\ copy \in Seq(Copy)
    BY DEF Typing
  <2>2. copy'[n] = [to |-> p, channel |-> channel, by |-> by, after |-> 0, fate |-> "sent"]
    BY <2>1, Accepted
  <2>3. /\ DOMAIN copy' = DOMAIN copy \cup {n} /\ n \notin DOMAIN copy
        /\ \A c \in DOMAIN copy : copy'[c] = copy[c]
    BY <2>1, Accepted
  <2> QED BY <2>2, <2>3
<1>2. ASSUME NEW c PROVE /\ Reports(c)' = Reports(c) /\ Handlings(c)' = Handlings(c)
                         /\ FallbacksOf(c)' = FallbacksOf(c)
  BY <1>1 DEF Reports, Handlings, FallbacksOf
<1>3. ASSUME NEW c \in DOMAIN copy PROVE InBounds(c)'
  BY <1>1, <1>2, <1>3, NothingNew DEF Bounded
<1>4. Reports(n) = {} /\ Handlings(n) = {} /\ FallbacksOf(n) = {}
  <2>1. Sourced
    BY DEF Bounded
  <2>2. n \notin DOMAIN copy
    BY <1>1
  <2> QED BY <2>1, <2>2, NobodyKnows
<1>5. InBounds(n)'
  BY <1>2, <1>4, NothingDue
<1>6. Sourced'
  <2>1. ASSUME NEW d \in DOMAIN copy', copy'[d].by = "callback" PROVE copy'[d].after \in DOMAIN copy'
    <3>1. d # n
      BY <1>1, <2>1
    <3>2. d \in DOMAIN copy /\ copy'[d] = copy[d]
      BY <1>1, <2>1, <3>1
    <3>3. copy[d].after \in DOMAIN copy
      BY <2>1, <3>2 DEF Bounded, Sourced
    <3> QED BY <1>1, <3>2, <3>3
  <2> QED BY <2>1 DEF Sourced
<1> QED BY <1>1, <1>3, <1>5, <1>6 DEF Bounded

\* A step that sends nothing and starts no handling.
LEMMA QuietBounded ==
  ASSUME Typing, Bounded, faults' \in Nat, faults <= faults', flight' \subseteq flight, copy' = copy,
         \A c \in DOMAIN copy : Handlings(c)' \subseteq Handlings(c)
  PROVE  Bounded'
<1>1. ASSUME NEW c \in DOMAIN copy PROVE InBounds(c)'
  <2>1. Reports(c)' \subseteq Reports(c) /\ FallbacksOf(c)' = FallbacksOf(c)
    BY DEF Reports, FallbacksOf
  <2> QED BY <2>1, NothingNew DEF Bounded
<1> QED BY <1>1 DEF Bounded, Sourced

LEMMA FateBounded ==
  ASSUME Typing, Bounded, NEW c \in DOMAIN copy, ProviderReports(c)
  PROVE  Bounded'
<1>1. setup.failures \subseteq Failing
  BY SettingsTyped DEF Typing, Setup
<1>2. PICK fate \in Fate : /\ Becomes(c, fate) /\ copy[c].fate \notin Failing
                           /\ fate \in Failing => copy[c].fate = "sent"
  BY <1>1 DEF ProviderReports, Fate, Failing
<1>3. faults' = faults /\ faults \in Nat /\ line' = line
  BY <1>2 DEF Becomes, billingVars, Bounded
<1>4. /\ DOMAIN copy' = DOMAIN copy /\ copy'[c].fate = fate
      /\ \A d \in DOMAIN copy : copy'[d].by = copy[d].by /\ copy'[d].after = copy[d].after
      /\ \A d \in DOMAIN copy : d # c => copy'[d] = copy[d]
  BY <1>2, FateChanged DEF Becomes, Typing
<1>5. \A x \in flight' : x \in flight \/ x = [of |-> c, status |-> fate] \/ x = [of |-> c, status |-> "sent"]
  BY <1>2 DEF Becomes
<1>6. \A d : Handlings(d)' = Handlings(d) /\ FallbacksOf(d)' = FallbacksOf(d)
  BY <1>3, <1>4 DEF Handlings, FallbacksOf
<1>7. ASSUME NEW d \in DOMAIN copy, d # c PROVE InBounds(d)'
  <2>1. Reports(d)' \subseteq Reports(d)
    BY <1>5, <1>7 DEF Reports
  <2>2. InBounds(d)
    BY DEF Bounded
  <2>3. copy'[d].fate = copy[d].fate
    BY <1>4, <1>7
  <2> QED BY <1>3, <1>6, <2>1, <2>2, <2>3, NothingNew
<1>8. Reports(c) = {} /\ Handlings(c) = {} /\ FallbacksOf(c) = {}
  BY <1>2 DEF Bounded, InBounds, Spared
<1>9. Reports(c)' \subseteq {[of |-> c, status |-> fate]} /\ (fate \notin Failing => Reports(c)' = {})
  BY <1>5, <1>8 DEF Reports, Failing
<1>10. InBounds(c)'
  <2>1. CASE fate \notin Failing
    BY <1>3, <1>6, <1>8, <1>9, <2>1, NothingDue
  <2>2. CASE fate \in Failing
    <3>1. Single(c)' /\ Spared(c)'
      BY <1>4, <1>9, <2>2 DEF Single, Spared
    <3>2. Cardinality(Reports(c)') \in 0..1
      <4>1. IsFiniteSet({[of |-> c, status |-> fate]}) /\ Cardinality({[of |-> c, status |-> fate]}) = 1
        BY FS_Singleton
      <4>2. Cardinality(Reports(c)') \in Nat /\ Cardinality(Reports(c)') <= 1
        BY <1>9, <4>1, FS_Subset, FS_CardinalityType
      <4> QED BY <4>2
    <3>3. Cardinality(Handlings(c)') = 0 /\ Cardinality(FallbacksOf(c)') = 0
      BY <1>6, <1>8, FS_EmptySet
    <3>4. Within(c)'
      BY <1>3, <3>2, <3>3 DEF Within
    <3> QED BY <3>1, <3>4 DEF InBounds
  <2> QED BY <2>1, <2>2
<1> QED BY <1>3, <1>4, <1>7, <1>10 DEF Bounded, Sourced

\* A report of a failure is taken by a line: it leaves the flight, or stays by a fault.
LEMMA ReceiptBounded ==
  ASSUME Typing, Bounded, NEW l \in Line, ReceiveReport(l)
  PROVE  Bounded'
<1>1. PICK x \in flight :
        /\ Receive(l, x)
        /\ (flight' = flight \ {x} /\ faults' = faults) \/ (flight' = flight /\ faults' = faults + 1)
  BY DEF ReceiveReport, billingVars, BillingFault
<1>2. /\ line \in [Line -> Callback] /\ x \in Report /\ x.of \in DOMAIN copy /\ faults \in Nat
      /\ copy' = copy /\ line[l].at = "idle"
  BY <1>1 DEF Typing, LinesOK, FlightOK, Bounded, Receive
<1>3. /\ \A m \in Line : m # l => line'[m] = line[m]
      /\ line'[l].at = "update" /\ line'[l].of = x.of /\ line'[l].status = x.status
  BY <1>1, <1>2 DEF Receive, NoLine
<1>4. \A c \in DOMAIN copy : Reports(c)' \subseteq Reports(c) /\ FallbacksOf(c)' = FallbacksOf(c)
  BY <1>1, <1>2 DEF Reports, FallbacksOf
<1>5. ASSUME NEW c \in DOMAIN copy, c # x.of \/ x.status \notin Failing PROVE InBounds(c)'
  <2>1. Handlings(c)' \subseteq Handlings(c)
    BY <1>3, <1>5 DEF Handlings
  <2>2. InBounds(c)
    BY DEF Bounded
  <2> QED BY <1>1, <1>2, <1>4, <2>1, <2>2, NothingNew
<1>6. ASSUME NEW c \in DOMAIN copy, c = x.of, x.status \in Failing PROVE InBounds(c)'
  <2> DEFINE r == Cardinality(Reports(c))
             h == Cardinality(Handlings(c))
             f == Cardinality(FallbacksOf(c))
             r2 == Cardinality(Reports(c)')
             h2 == Cardinality(Handlings(c)')
             f2 == Cardinality(FallbacksOf(c)')
  <2>1. InBounds(c) /\ x \in Reports(c)
    BY <1>6 DEF Bounded, Reports
  <2>2. Reports(c) = {x}
    BY <2>1 DEF InBounds, Single
  <2>3. Handlings(c)' = Handlings(c) \cup {l} /\ l \notin Handlings(c)
    BY <1>2, <1>3, <1>6 DEF Handlings
  <2>4. r = 1 /\ h \in Nat /\ f \in Nat /\ h2 = h + 1 /\ f2 = f
    BY <1>4, <2>1, <2>2, <2>3, SetsFinite, FS_Singleton, FS_AddElement DEF InBounds
  <2>5. (faults' = faults /\ r2 = 0) \/ (faults' = faults + 1 /\ r2 = 1)
    <3>1. CASE flight' = flight \ {x} /\ faults' = faults
      <4>1. Reports(c)' = {}
        BY <2>2, <3>1 DEF Reports
      <4> QED BY <3>1, <4>1, FS_EmptySet
    <3>2. CASE flight' = flight /\ faults' = faults + 1
      <4>1. Reports(c)' = Reports(c)
        BY <3>2 DEF Reports
      <4> QED BY <2>4, <3>2, <4>1
    <3> QED BY <1>1, <3>1, <3>2
  <2>6. r + h + f <= 1 + faults
    BY <2>1 DEF InBounds, Within
  <2>7. r2 + h2 + f2 <= 1 + faults'
    <3> HIDE DEF r, h, f, r2, h2, f2
    <3> QED BY <1>2, <2>4, <2>5, <2>6
  <2>8. Within(c)'
    BY <2>7 DEF Within
  <2>9. Single(c)' /\ Spared(c)'
    BY <1>2, <1>4, <2>1 DEF InBounds, Single, Spared
  <2> QED BY <2>8, <2>9 DEF InBounds
<1> QED BY <1>1, <1>2, <1>5, <1>6 DEF Bounded, Sourced

\* The fallback takes the place of the handling that sends it.
LEMMA FallbackBounded ==
  ASSUME Typing, Heeded, Bounded, NEW l \in Line, SendFallback(l)
  PROVE  Bounded'
<1> DEFINE c == line[l].of
<1>1. /\ line \in [Line -> Callback] /\ line[l].at = "send" /\ c \in DOMAIN copy /\ faults \in Nat
      /\ flight' = flight /\ faults' = faults /\ line[l].status \in Failing
  BY DEF Typing, LinesOK, Bounded, SendFallback, Heeded, LineKnows, billingVars
<1>2. PICK n : /\ DOMAIN copy' = DOMAIN copy \cup {n} /\ n \notin DOMAIN copy
               /\ \A d \in DOMAIN copy : copy'[d] = copy[d]
               /\ copy'[n].by = "callback" /\ copy'[n].after = c
  <2>1. copy \in Seq(Copy) /\ c \in Nat /\ line[l].channel \in Channel
        /\ "callback" \in {"handler", "callback", "exhausted", "unread"}
    BY <1>1 DEF Typing, Callback
  <2>2. Head(setup.people) \in Person \cup {Stranger}
    <3>1. setup.people # << >> /\ setup.people \in Seq(Person)
      BY <1>1, SettingsTyped DEF Typing, Peopled
    <3> QED BY <3>1, HeadTailProperties
  <2>3. Accept(Head(setup.people), line[l].channel, "callback", c)
    BY DEF SendFallback
  <2> HIDE DEF c
  <2>4. /\ DOMAIN copy' = DOMAIN copy \cup {Len(copy) + 1} /\ Len(copy) + 1 \notin DOMAIN copy
        /\ \A d \in DOMAIN copy : copy'[d] = copy[d]
        /\ copy'[Len(copy) + 1] = [to |-> Head(setup.people), channel |-> line[l].channel,
                                   by |-> "callback", after |-> c, fate |-> "sent"]
    BY <2>1, <2>2, <2>3, Accepted
  <2> QED BY <2>4
<1>3. PICK k \in DOMAIN copy : k = c
  BY <1>1
<1>4. /\ \A m \in Line : m # l => line'[m] = line[m]
      /\ line'[l].at = "log"
  BY <1>1 DEF SendFallback, Callback
<1>5. \A d : Reports(d)' = Reports(d)
  BY <1>1 DEF Reports
<1>6. \A d : Handlings(d)' = Handlings(d) \ {l}
  BY <1>4 DEF Handlings
<1>7. \A d : d # k => FallbacksOf(d)' = FallbacksOf(d)
  BY <1>2, <1>3 DEF FallbacksOf
<1>8. FallbacksOf(k)' = FallbacksOf(k) \cup {n} /\ n \notin FallbacksOf(k)
  BY <1>2, <1>3 DEF FallbacksOf
<1>9. l \in Handlings(k)
  BY <1>1, <1>3 DEF Handlings
<1> HIDE DEF c
<1>10. ASSUME NEW d \in DOMAIN copy, d # k PROVE InBounds(d)'
  <2>1. InBounds(d) /\ copy'[d].fate = copy[d].fate
    BY <1>2 DEF Bounded
  <2>2. Handlings(d)' \subseteq Handlings(d) /\ FallbacksOf(d)' \subseteq FallbacksOf(d)
    BY <1>6, <1>7, <1>10
  <2> QED BY <1>1, <1>5, <2>1, <2>2, NothingNew
<1>11. InBounds(n)'
  <2>1. Reports(n) = {} /\ Handlings(n) = {} /\ FallbacksOf(n) = {}
    <3>1. Sourced /\ n \notin DOMAIN copy
      BY <1>2 DEF Bounded
    <3> QED BY <3>1, NobodyKnows
  <2>2. n # k
    BY <1>2, <1>3
  <2> QED BY <1>1, <1>5, <1>6, <1>7, <2>1, <2>2, NothingDue
<1>12. InBounds(k)'
  <2> DEFINE r == Cardinality(Reports(k))
             h == Cardinality(Handlings(k))
             f == Cardinality(FallbacksOf(k))
             r2 == Cardinality(Reports(k)')
             h2 == Cardinality(Handlings(k)')
             f2 == Cardinality(FallbacksOf(k)')
  <2>1. InBounds(k) /\ copy'[k] = copy[k]
    BY <1>2, <1>3 DEF Bounded
  <2>2. r \in Nat /\ h \in Nat /\ f \in Nat /\ r2 = r /\ h2 = h - 1 /\ f2 = f + 1
    <3>1. /\ IsFiniteSet(Handlings(k)) /\ IsFiniteSet(FallbacksOf(k))
          /\ r \in Nat /\ h \in Nat /\ f \in Nat
      BY <2>1, SetsFinite DEF InBounds
    <3>2. r2 = r
      BY <1>5
    <3>3. h2 = h - 1
      BY <1>6, <1>9, <3>1, FS_RemoveElement
    <3>4. f2 = f + 1
      BY <1>8, <3>1, FS_AddElement
    <3> QED BY <3>1, <3>2, <3>3, <3>4
  <2>3. r + h + f <= 1 + faults
    BY <2>1 DEF InBounds, Within
  <2>4. r2 + h2 + f2 <= 1 + faults'
    <3> HIDE DEF r, h, f, r2, h2, f2
    <3> QED BY <1>1, <2>2, <2>3
  <2>5. Within(k)'
    BY <2>4 DEF Within
  <2>6. copy[k].fate \in Failing
    BY <1>9, <2>1 DEF InBounds, Spared
  <2> QED BY <1>5, <2>1, <2>5, <2>6 DEF InBounds, Single, Spared
<1>13. Sourced'
  <2>1. ASSUME NEW d \in DOMAIN copy', copy'[d].by = "callback" PROVE copy'[d].after \in DOMAIN copy'
    BY <1>2, <1>3, <2>1 DEF Bounded, Sourced
  <2> QED BY <2>1 DEF Sourced
<1> QED BY <1>1, <1>2, <1>10, <1>11, <1>12, <1>13 DEF Bounded

LEMMA LineStepBounded ==
  ASSUME Typing, Heeded, Bounded, NEW l \in Line, LineStep(l), faults' \in Nat, faults <= faults'
  PROVE  Bounded'
<1>1. line \in [Line -> Callback] /\ NoLine.at = "idle"
  BY DEF Typing, LinesOK, NoLine
<1>2. CASE ReceiveReport(l)
  BY <1>2, ReceiptBounded
<1>3. CASE SendFallback(l)
  BY <1>3, FallbackBounded
<1>4. CASE ~ReceiveReport(l) /\ ~SendFallback(l)
  <2>1. copy' = copy /\ flight' = flight /\ \A m \in Line : m # l => line'[m] = line[m]
    <3>1. copy' = copy /\ flight' = flight
      BY <1>4 DEF LineStep, UpdateRow, MarkDelivered, Detect, NoFallback, ChooseFallback,
         SendFallbackRefused, LogFallback, LineFails
    <3> QED BY <3>1, LinesAlone DEF FailoverStep
  <2>2. \/ line'[l].at \notin {"update", "detect", "choose", "send"}
        \/ /\ line'[l].of = line[l].of /\ line'[l].status = line[l].status
           /\ line[l].at \in {"update", "detect", "choose"}
    <3>1. CASE UpdateRow(l)
      BY <1>1, <3>1 DEF UpdateRow, Callback
    <3>2. CASE MarkDelivered(l) \/ NoFallback(l) \/ SendFallbackRefused(l) \/ LogFallback(l)
               \/ LineFails(l)
      BY <1>1, <3>2 DEF MarkDelivered, NoFallback, SendFallbackRefused, LogFallback, LineFails, Hears
    <3>3. CASE Detect(l)
      BY <1>1, <3>3 DEF Detect, Hears, Callback
    <3>4. CASE ChooseFallback(l)
      BY <1>1, <3>4 DEF ChooseFallback, Callback
    <3> QED BY <1>4, <3>1, <3>2, <3>3, <3>4 DEF LineStep
  <2>3. ASSUME NEW c PROVE Handlings(c)' \subseteq Handlings(c)
    BY <2>1, <2>2 DEF Handlings
  <2> QED BY <2>1, <2>3, QuietBounded
<1> QED BY <1>2, <1>3, <1>4

LEMMA BoundedKept ==
  ASSUME Typing, Heeded, Bounded, FailoverStep
  PROVE  Bounded'
<1>1. faults \in Nat /\ faults' \in Nat /\ faults <= faults'
  BY FaultsGrow DEF Bounded, FailoverNext
<1>2. ASSUME UNCHANGED <<copy, flight, line>> PROVE Bounded'
  <2>1. \A c : Handlings(c)' \subseteq Handlings(c)
    BY <1>2 DEF Handlings
  <2> QED BY <1>1, <1>2, <2>1, QuietBounded
<1>3. CASE HandlerStep
  <2>1. flight' = flight /\ line' = line
    BY <1>3 DEF HandlerStep, SendPrimary, SendPrimaryRefused, LogPrimary, ScheduleCheck,
       EndHandler, HandlerStartsOver, HandlerGivesUp, ChooseFailover, Escalate,
       EscalateRefused, LogFailover, Handling
  <2>2. CASE SendPrimary \/ Escalate
    <3>1. setup.people \in Seq(Person) /\ setup.primary \in Channel
      BY SettingsTyped DEF Typing
    <3>2. \A s \in Seq(Person) : s # << >> => Head(s) \in Person
      BY HeadTailProperties
    <3>3. \E p \in Person, channel \in Channel, by \in {"handler", "exhausted"} :
            Accept(p, channel, by, 0)
      BY <2>2, <3>1, <3>2 DEF SendPrimary, Escalate, Typing, WorkerOK, Worker
    <3> QED BY <1>1, <2>1, <3>3, OtherSendsBounded
  <2>3. CASE ~SendPrimary /\ ~Escalate
    <3>1. copy' = copy
      BY <1>3, <2>3 DEF HandlerStep, SendPrimaryRefused, LogPrimary, ScheduleCheck,
         EndHandler, HandlerStartsOver, HandlerGivesUp, ChooseFailover, EscalateRefused, LogFailover
    <3> QED BY <1>2, <2>1, <3>1
  <2> QED BY <2>2, <2>3
<1>4. CASE \E c \in DOMAIN copy : ProviderReports(c)
  BY <1>4, FateBounded
<1>5. CASE \E l \in Line : LineStep(l)
  BY <1>1, <1>5, LineStepBounded
<1>6. CASE CheckStep
  <2>1. flight' = flight /\ line' = line
    BY <1>6 DEF CheckStep, CheckReads, CheckPlan, CheckSends, CheckRefused, CheckLogs,
       CheckFaults, Checking
  <2>2. CASE CheckSends
    <3>1. check.to \in Person \cup {Stranger} /\ check.chain \in Seq(Channel)
      BY DEF Typing, CheckOK, Check
    <3>2. \E p \in Person \cup {Stranger}, channel \in Channel : Accept(p, channel, "unread", 0)
      BY <2>2, <3>1, NextTyped DEF CheckSends
    <3> QED BY <1>1, <2>1, <3>2, OtherSendsBounded
  <2>3. CASE ~CheckSends
    <3>1. copy' = copy
      BY <1>6, <2>3 DEF CheckStep, CheckReads, CheckPlan, CheckRefused, CheckLogs, CheckFaults
    <3> QED BY <1>2, <2>1, <3>1
  <2> QED BY <2>2, <2>3
<1> QED BY <1>3, <1>4, <1>5, <1>6 DEF FailoverStep

LEMMA AnsweringAlways == FailoverSpec => [](Heeded /\ Bounded)
<1>1. BillingInit /\ FailoverInit => Heeded /\ Bounded
  <2> SUFFICES ASSUME BillingInit, FailoverInit PROVE Heeded /\ Bounded
    OBVIOUS
  <2>1. DOMAIN copy = {}
    BY DEF FailoverInit
  <2>2. Heeded
    BY DEF FailoverInit, Heeded, LineKnows, NoLine
  <2> QED BY <2>1, <2>2 DEF BillingInit, Bounded, Sourced
<1>2. Typing /\ Heeded /\ Bounded /\ [FailoverNext]_<<billingVars, failoverVars>>
        => Heeded' /\ Bounded'
  <2> SUFFICES ASSUME Typing, Heeded, Bounded, [FailoverNext]_<<billingVars, failoverVars>>
               PROVE  Heeded' /\ Bounded'
    OBVIOUS
  <2>1. CASE FailoverStep
    BY <2>1, AnsweredKept, BoundedKept
  <2>2. CASE UNCHANGED failoverVars
    <3>1. UNCHANGED <<copy, flight, line, row>> /\ UNCHANGED <<heard, tried, early, overrun, readIn>>
      BY <2>2 DEF failoverVars, failoverHistory
    <3>2. faults \in Nat /\ faults' \in Nat /\ faults <= faults'
      BY FaultsGrow DEF billingVars, Bounded
    <3>3. \A c : Handlings(c)' \subseteq Handlings(c)
      BY <3>1 DEF Handlings
    <3>4. Bounded'
      BY <3>1, <3>2, <3>3, QuietBounded
    <3> QED BY <3>1, <3>4 DEF Heeded, LineKnows, Tells, RowsOf
  <2> QED BY <2>1, <2>2 DEF FailoverNext, failoverVars
<1> QED BY <1>1, <1>2, TypingAlways, PTL DEF FailoverSpec

\* What the counts of reports, handlings and fallbacks say of a failure.
LEMMA CountsAnswer == Typing /\ Heeded /\ Bounded => FailureIsAnswered
<1>1. Typing /\ Heeded /\ Bounded => FailureIsAnswered
  <2> SUFFICES ASSUME Typing, Heeded, Bounded PROVE FailureIsAnswered
    OBVIOUS
  <2>1. ASSUME NEW c \in DOMAIN copy
        PROVE  /\ Cardinality(FallbacksOf(c)) <= 1 + faults
               /\ FallbacksOf(c) # {} => copy[c].fate \in Failing
    <3> DEFINE r == Cardinality(Reports(c))
               h == Cardinality(Handlings(c))
               f == Cardinality(FallbacksOf(c))
    <3>1. InBounds(c) /\ faults \in Nat
      BY DEF Bounded
    <3>2. r \in Nat /\ h \in Nat /\ f \in Nat
      BY <3>1, SetsFinite DEF InBounds
    <3>3. r + h + f <= 1 + faults
      BY <3>1 DEF InBounds, Within
    <3>4. f <= 1 + faults
      <4> HIDE DEF r, h, f
      <4> QED BY <3>1, <3>2, <3>3
    <3> QED BY <3>1, <3>4 DEF InBounds, Spared
  <2> QED BY <2>1 DEF FailureIsAnswered, Heeded
<1> QED BY <1>1

\* Whatever the order in which callbacks arrive: once the report of a failure has
\* been handled, the next channel was tried, unless no row could tell of the
\* failure; and a copy has at most one fallback, and one for each fault, none if
\* the provider has not given it up.
THEOREM FailuresAreAnswered == FailoverSpec => []FailureIsAnswered
BY CountsAnswer, AnsweringAlways, TypingAlways, PTL

-----------------------------------------------------------------------------
(* Reads are respected. *)

WhatsApp(c) == copy[c].channel = "WHATSAPP"

\* Only a WhatsApp message is reported read, and a row that was told so says it
\* until another report overwrites it.
ReadsSound ==
  /\ \A x \in flight : x.status = "read" => WhatsApp(x.of)
  /\ \A l \in Line : (line[l].at # "idle" /\ line[l].status = "read") => WhatsApp(line[l].of)
  /\ \A c \in readIn : WhatsApp(c) /\ Tells(c, {"read"})

\* A row of a later WhatsApp message hides those of c from the check.
Superseded(c) ==
  \/ c \in overrun
  \/ \E i, j \in DOMAIN row : i < j /\ row[i].of = c /\ WhatsApp(row[j].of)

CheckHonest == check.at \in {"plan", "send"} => \A c \in check.known : Superseded(c)

\* What a step leaves of copies and rows.
LEMMA ChannelsStay ==
  ASSUME Typing, FailoverStep
  PROVE  \A c \in DOMAIN copy : c \in DOMAIN copy' /\ copy'[c].channel = copy[c].channel
<1>1. ASSUME NEW p \in Person \cup {Stranger}, NEW channel \in Channel,
             NEW by \in {"handler", "callback", "exhausted", "unread"}, NEW after \in Nat,
             Accept(p, channel, by, after)
      PROVE  \A c \in DOMAIN copy : c \in DOMAIN copy' /\ copy'[c].channel = copy[c].channel
  BY <1>1, Accepted DEF Typing
<1>2. \A s \in Seq(Person) : s # << >> => Head(s) \in Person
  BY HeadTailProperties
<1>3. setup.people \in Seq(Person) /\ setup.primary \in Channel
  BY SettingsTyped DEF Typing
<1>4. CASE SendPrimary \/ Escalate
  <2>1. \E p \in Person, channel \in Channel, by \in {"handler", "exhausted"} :
          Accept(p, channel, by, 0)
    BY <1>2, <1>3, <1>4 DEF SendPrimary, Escalate, Typing, WorkerOK, Worker
  <2> QED BY <1>1, <2>1
<1>5. ASSUME NEW l \in Line, SendFallback(l)
      PROVE  \A c \in DOMAIN copy : c \in DOMAIN copy' /\ copy'[c].channel = copy[c].channel
  <2>1. line[l] \in Callback /\ line[l].of \in DOMAIN copy
    BY <1>5 DEF Typing, LinesOK, SendFallback
  <2>2. Head(setup.people) \in Person
    BY <1>2, <1>3, <2>1 DEF Typing, Peopled
  <2>3. line[l].channel \in Channel /\ line[l].of \in Nat
    BY <2>1 DEF Callback
  <2> QED BY <1>1, <1>5, <2>2, <2>3 DEF SendFallback
<1>6. CASE CheckSends
  <2>1. check.to \in Person \cup {Stranger} /\ check.chain \in Seq(Channel)
    BY DEF Typing, CheckOK, Check
  <2>2. \E p \in Person \cup {Stranger}, channel \in Channel : Accept(p, channel, "unread", 0)
    BY <1>6, <2>1, NextTyped DEF CheckSends
  <2> QED BY <1>1, <2>2
<1>7. ASSUME NEW k \in DOMAIN copy, ProviderReports(k)
      PROVE  \A c \in DOMAIN copy : c \in DOMAIN copy' /\ copy'[c].channel = copy[c].channel
  <2>1. setup.failures \subseteq Failing
    BY SettingsTyped DEF Typing, Setup
  <2>2. \E fate \in Fate : Becomes(k, fate)
    BY <1>7, <2>1 DEF ProviderReports, Fate
  <2> QED BY <2>2, FateChanged DEF Becomes, Typing
<1>8. CASE HandlerStep /\ ~SendPrimary /\ ~Escalate
  <2>1. copy' = copy
    BY <1>8 DEF HandlerStep, SendPrimaryRefused, LogPrimary, ScheduleCheck,
       EndHandler, HandlerStartsOver, HandlerGivesUp, ChooseFailover, EscalateRefused, LogFailover
  <2> QED BY <2>1
<1>9. ASSUME NEW l \in Line, LineStep(l), ~SendFallback(l) PROVE copy' = copy
  BY <1>9 DEF LineStep, ReceiveReport, Receive, UpdateRow, MarkDelivered, Detect, NoFallback,
     ChooseFallback, SendFallbackRefused, LogFallback, LineFails
<1>10. CASE CheckStep /\ ~CheckSends
  <2>1. copy' = copy
    BY <1>10 DEF CheckStep, CheckReads, CheckPlan, CheckRefused, CheckLogs, CheckFaults
  <2> QED BY <2>1
<1> QED BY <1>4, <1>5, <1>6, <1>7, <1>8, <1>9, <1>10 DEF FailoverStep

LEMMA RowsStay ==
  ASSUME Typing, FailoverStep
  PROVE  /\ \A i \in DOMAIN row : i \in DOMAIN row' /\ row'[i].of = row[i].of
         /\ overrun \subseteq overrun'
<1>1. row \in Seq(Report) /\ line \in [Line -> Callback]
  BY DEF Typing, RowsOK, LinesOK
<1>2. overrun \subseteq overrun'
  BY RowSteps DEF UpdateRow
<1>3. ASSUME NEW c \in DOMAIN copy, WriteRow(c)
      PROVE  \A i \in DOMAIN row : i \in DOMAIN row' /\ row'[i].of = row[i].of
  BY <1>1, <1>3, CopiesNumbered, RowWritten
<1>4. ASSUME NEW l \in Line, UpdateRow(l)
      PROVE  \A i \in DOMAIN row : i \in DOMAIN row' /\ row'[i].of = row[i].of
  <2> DEFINE R == RowsOf(line[l].of)
             s == line[l].status
  <2>1. row' = [i \in DOMAIN row |-> IF i \in R THEN [row[i] EXCEPT !.status = s] ELSE row[i]]
    BY <1>4 DEF UpdateRow
  <2>2. s \in Fate
    BY <1>1 DEF Callback
  <2> HIDE DEF R, s
  <2> QED BY <1>1, <2>1, <2>2, RowsUpdated
<1> QED BY <1>2, <1>3, <1>4, RowSteps

LEMMA SupersededStays ==
  ASSUME Typing, FailoverStep, NEW c, Superseded(c)
  PROVE  Superseded(c)'
<1>1. CASE c \in overrun
  BY <1>1, RowsStay DEF Superseded
<1>2. ASSUME NEW i \in DOMAIN row, NEW j \in DOMAIN row, i < j, row[i].of = c, WhatsApp(row[j].of)
      PROVE  Superseded(c)'
  <2>1. i \in DOMAIN row' /\ j \in DOMAIN row' /\ row'[i].of = c /\ row'[j].of = row[j].of
    BY <1>2, RowsStay
  <2>2. row[j].of \in DOMAIN copy
    BY DEF Typing, RowsOK
  <2>3. WhatsApp(row[j].of)'
    BY <1>2, <2>1, <2>2, ChannelsStay DEF WhatsApp
  <2> QED BY <1>2, <2>1, <2>3 DEF Superseded
<1> QED BY <1>1, <1>2 DEF Superseded

\* Reports in flight and in hand are those of before, or a new one of the provider.
LEMMA ReportsSound ==
  ASSUME Typing, ReadsSound, FailoverStep
  PROVE  /\ \A x \in flight' : x.status = "read" => WhatsApp(x.of)'
         /\ \A l \in Line : (line'[l].at # "idle" /\ line'[l].status = "read") => WhatsApp(line[l].of)'
<1>1. \A c \in DOMAIN copy : WhatsApp(c) => WhatsApp(c)'
  BY ChannelsStay DEF WhatsApp
<1>2. \A x \in flight : x.of \in DOMAIN copy
  BY DEF Typing, FlightOK
<1>3. /\ line \in [Line -> Callback] /\ NoLine.at = "idle"
      /\ \A l \in Line : line[l].at # "idle" => line[l].of \in DOMAIN copy
  BY DEF Typing, LinesOK, NoLine
<1>4. ASSUME flight' \subseteq flight
      PROVE  \A x \in flight' : x.status = "read" => WhatsApp(x.of)'
  BY <1>1, <1>2, <1>4 DEF ReadsSound
<1>5. ASSUME NEW l \in Line, line'[l] = line[l]
      PROVE  (line'[l].at # "idle" /\ line'[l].status = "read") => WhatsApp(line[l].of)'
  BY <1>1, <1>3, <1>5 DEF ReadsSound
<1>6. CASE HandlerStep \/ CheckStep
  <2>1. flight' = flight /\ line' = line
    BY <1>6 DEF HandlerStep, SendPrimary, SendPrimaryRefused, LogPrimary, ScheduleCheck,
       EndHandler, HandlerStartsOver, HandlerGivesUp, ChooseFailover, Escalate,
       EscalateRefused, LogFailover, Handling, CheckStep, CheckReads, CheckPlan, CheckSends,
       CheckRefused, CheckLogs, CheckFaults, Checking
  <2> QED BY <1>4, <1>5, <2>1
<1>7. ASSUME NEW c \in DOMAIN copy, ProviderReports(c)
      PROVE  /\ \A x \in flight' : x.status = "read" => WhatsApp(x.of)'
             /\ line' = line
  <2>1. setup.failures \subseteq Failing
    BY SettingsTyped DEF Typing, Setup
  <2>2. PICK fate \in Fate : Becomes(c, fate) /\ (fate = "read" => WhatsApp(c))
    BY <1>7, <2>1 DEF ProviderReports, Fate, Failing, WhatsApp
  <2>3. line' = line
        /\ \A x \in flight' : \/ x \in flight
                              \/ x = [of |-> c, status |-> fate] \/ x = [of |-> c, status |-> "sent"]
    BY <2>2 DEF Becomes
  <2> QED BY <1>1, <1>2, <2>2, <2>3 DEF ReadsSound
<1>8. ASSUME NEW l \in Line, LineStep(l)
      PROVE  /\ flight' \subseteq flight
             /\ (line'[l].at # "idle" /\ line'[l].status = "read") => WhatsApp(line[l].of)'
  <2>1. CASE ReceiveReport(l)
    <3>1. PICK x \in flight : Receive(l, x) /\ flight' \subseteq flight
      BY <2>1 DEF ReceiveReport
    <3>2. line'[l].of = x.of /\ line'[l].status = x.status
      BY <1>3, <3>1 DEF Receive, NoLine
    <3> QED BY <1>1, <1>2, <3>1, <3>2 DEF ReadsSound
  <2>2. CASE ~ReceiveReport(l)
    <3>1. flight' = flight
      BY <1>8, <2>2 DEF LineStep, UpdateRow, MarkDelivered, Detect, NoFallback,
         ChooseFallback, SendFallback, SendFallbackRefused, LogFallback, LineFails
    <3>2. \/ line'[l].at = "idle"
          \/ line[l].at # "idle" /\ line'[l].of = line[l].of /\ line'[l].status = line[l].status
      <4>1. CASE UpdateRow(l)
        BY <1>3, <4>1 DEF UpdateRow, Callback
      <4>2. CASE MarkDelivered(l) \/ NoFallback(l) \/ SendFallbackRefused(l) \/ LogFallback(l)
                 \/ LineFails(l)
        BY <1>3, <4>2 DEF MarkDelivered, NoFallback, SendFallbackRefused, LogFallback, LineFails,
           Hears
      <4>3. CASE Detect(l)
        BY <1>3, <4>3 DEF Detect, Hears, Callback
      <4>4. CASE ChooseFallback(l) \/ SendFallback(l)
        BY <1>3, <4>4 DEF ChooseFallback, SendFallback, Callback
      <4> QED BY <1>8, <2>2, <4>1, <4>2, <4>3, <4>4 DEF LineStep
    <3>3. ASSUME line[l].at # "idle", line[l].status = "read" PROVE WhatsApp(line[l].of)
      BY <3>3 DEF ReadsSound
    <3>4. ASSUME line[l].at # "idle", line[l].status = "read", line'[l].of = line[l].of
          PROVE  WhatsApp(line[l].of)'
      BY <1>1, <1>3, <3>3, <3>4
    <3> QED BY <3>1, <3>2, <3>4
  <2> QED BY <2>1, <2>2
<1> QED BY <1>4, <1>5, <1>6, <1>7, <1>8, LinesAlone DEF FailoverStep

LEMMA SoundnessKept ==
  ASSUME Typing, ReadsSound, FailoverStep
  PROVE  ReadsSound'
<1>1. ASSUME NEW c \in readIn PROVE WhatsApp(c)' /\ Tells(c, {"read"})'
  <2>1. c \in DOMAIN copy /\ WhatsApp(c) /\ Tells(c, {"read"})
    BY DEF Typing, HistoryOK, ReadsSound
  <2>2. {"read"} \subseteq Precious
    BY DEF Precious
  <2> QED BY <2>1, <2>2, ChannelsStay, TellsOn DEF WhatsApp
<1>2. ASSUME NEW c \in readIn', c \notin readIn PROVE WhatsApp(c)' /\ Tells(c, {"read"})'
  <2>1. PICK l \in Line : UpdateRow(l)
    BY <1>2, RowSteps
  <2>2. line[l].status = "read" /\ c = line[l].of /\ RowsOf(c) # {} /\ line[l].at = "update"
    BY <1>2, <2>1 DEF UpdateRow
  <2>3. WhatsApp(c) /\ c \in DOMAIN copy
    BY <2>2 DEF ReadsSound, Typing, LinesOK
  <2>4. PICK i \in DOMAIN row : i \in RowsOf(c)
    BY <2>2 DEF RowsOf
  <2> DEFINE R == RowsOf(c)
  <2>5. row' = [j \in DOMAIN row |-> IF j \in R THEN [row[j] EXCEPT !.status = "read"] ELSE row[j]]
    BY <2>1, <2>2 DEF UpdateRow
  <2>6. i \in R /\ row[i].of = c /\ "read" \in Fate /\ row \in Seq(Report)
    BY <2>4 DEF RowsOf, Fate, Typing, RowsOK
  <2> HIDE DEF R
  <2>7. /\ DOMAIN row' = DOMAIN row
        /\ \A j \in DOMAIN row : /\ row'[j].of = row[j].of
                               /\ row'[j].status = IF j \in R THEN "read" ELSE row[j].status
    BY <2>5, <2>6, RowsUpdated
  <2>8. i \in DOMAIN row' /\ row'[i].of = c /\ row'[i].status = "read"
    BY <2>4, <2>6, <2>7
  <2>9. Tells(c, {"read"})'
    BY <2>8 DEF Tells, RowsOf
  <2>10. WhatsApp(c)'
    BY <2>3, ChannelsStay DEF WhatsApp
  <2> QED BY <2>9, <2>10
<1> QED BY <1>1, <1>2, ReportsSound DEF ReadsSound

\* The check knows of no read message, or it has not looked at its row.
LEMMA CheckStaysHonest ==
  ASSUME Typing, ReadsSound, CheckHonest, FailoverStep
  PROVE  CheckHonest'
<1>1. ASSUME check'.at \in {"plan", "send"}, check'.known = check.known, check.at \in {"plan", "send"}
      PROVE  CheckHonest'
  BY <1>1, SupersededStays DEF CheckHonest
<1>2. ASSUME check'.at \notin {"plan", "send"} PROVE CheckHonest'
  BY <1>2 DEF CheckHonest
<1>3. check \in Check
  BY DEF Typing, CheckOK
<1>4. CASE CheckReads
  <2>1. /\ copy' = copy /\ row' = row /\ overrun' = overrun
        /\ check'.known = readIn
        /\ check'.at = "plan" => \E i \in Newest("WHATSAPP") : row[i].status # "read"
        /\ check'.at \in {"plan", "done"}
    BY <1>3, <1>4 DEF CheckReads, Checking, failoverHistory, Check
  <2>2. ASSUME NEW n \in Newest("WHATSAPP"), row[n].status # "read", NEW c \in readIn
        PROVE  Superseded(c)
    <3>1. WhatsApp(c) /\ Tells(c, {"read"})
      BY <2>2 DEF ReadsSound
    <3>2. ASSUME NEW i \in DOMAIN row, row[i].of = c, row[i].status = "read" PROVE i < n
      <4>1. n \in DOMAIN row /\ \A j \in DOMAIN row : j > n => copy[row[j].of].channel # "WHATSAPP"
        BY DEF Newest
      <4>2. i # n /\ ~(i > n)
        BY <2>2, <3>1, <3>2, <4>1 DEF WhatsApp
      <4>3. i \in Nat /\ n \in Nat
        BY <4>1, LenProperties DEF Typing, RowsOK
      <4> QED BY <4>2, <4>3
    <3>3. n \in DOMAIN row /\ WhatsApp(row[n].of)
      BY DEF Newest, WhatsApp
    <3> QED BY <3>1, <3>2, <3>3 DEF Superseded, Tells, RowsOf
  <2>3. ASSUME check'.at = "plan", NEW c \in readIn PROVE Superseded(c)'
    <3>1. Superseded(c)
      BY <2>1, <2>2, <2>3
    <3> QED BY <2>1, <3>1 DEF Superseded, WhatsApp
  <2> QED BY <2>1, <2>3 DEF CheckHonest
<1>5. CASE CheckPlan
  <2>1. check.at = "plan" /\ check'.known = check.known /\ check'.at \in {"send", "done"}
    BY <1>3, <1>5 DEF CheckPlan, Check
  <2> QED BY <1>1, <1>2, <2>1
<1>6. CASE CheckSends \/ CheckRefused \/ CheckLogs \/ CheckFaults
  <2>1. check'.at \notin {"plan", "send"}
    BY <1>3, <1>6 DEF CheckSends, CheckRefused, CheckLogs, CheckFaults, Check
  <2> QED BY <1>2, <2>1
<1>7. CASE ScheduleCheck
  <2>1. check'.at \notin {"plan", "send"} \/ check' = check
    BY <1>3, <1>7 DEF ScheduleCheck, Check
  <2> QED BY <1>1, <1>2, <2>1
<1>8. CASE HandlerStep /\ ~ScheduleCheck
  <2>1. check' = check
    BY <1>8 DEF HandlerStep, SendPrimary, SendPrimaryRefused, LogPrimary,
       EndHandler, HandlerStartsOver, HandlerGivesUp, ChooseFailover, Escalate,
       EscalateRefused, LogFailover
  <2> QED BY <1>1, <1>2, <2>1
<1>9. CASE (\E c \in DOMAIN copy : ProviderReports(c)) \/ (\E l \in Line : LineStep(l))
  <2>1. \A c \in DOMAIN copy : ProviderReports(c) => check' = check
    BY DEF ProviderReports, Becomes
  <2>2. \A l \in Line : LineStep(l) => check' = check
    BY DEF LineStep, ReceiveReport, Receive, UpdateRow, MarkDelivered, Detect, NoFallback,
       ChooseFallback, SendFallback, SendFallbackRefused, LogFallback, LineFails
  <2>3. check' = check
    BY <1>9, <2>1, <2>2
  <2> QED BY <1>1, <1>2, <2>3
<1> QED BY <1>4, <1>5, <1>6, <1>7, <1>8, <1>9 DEF FailoverStep, CheckStep

LEMMA HonestAlways == FailoverSpec => [](ReadsSound /\ CheckHonest)
<1>1. BillingInit /\ FailoverInit => ReadsSound /\ CheckHonest
  BY DEF FailoverInit, ReadsSound, CheckHonest, NoLine, NoCheck
<1>2. Typing /\ ReadsSound /\ CheckHonest /\ [FailoverNext]_<<billingVars, failoverVars>>
        => ReadsSound' /\ CheckHonest'
  <2> SUFFICES ASSUME Typing, ReadsSound, CheckHonest, [FailoverNext]_<<billingVars, failoverVars>>
               PROVE  ReadsSound' /\ CheckHonest'
    OBVIOUS
  <2>1. CASE FailoverStep
    BY <2>1, SoundnessKept, CheckStaysHonest
  <2>2. CASE UNCHANGED failoverVars
    <3>1. UNCHANGED <<copy, flight, line, row, check>> /\ UNCHANGED <<overrun, readIn>>
      BY <2>2 DEF failoverVars, failoverHistory
    <3> QED BY <3>1 DEF ReadsSound, CheckHonest, Superseded, Tells, RowsOf, WhatsApp
  <2> QED BY <2>1, <2>2 DEF FailoverNext, failoverVars
<1> QED BY <1>1, <1>2, TypingAlways, PTL DEF FailoverSpec

\* The unread check escalates nobody because of a WhatsApp message it knew to be
\* read: a read message whose row it could have looked at has been overrun by a
\* late report, or is hidden by the row of a later message.
THEOREM ReadsAreRespected == FailoverSpec => ReadIsRespected
<1>1. CheckHonest /\ [FailoverNext]_<<billingVars, failoverVars>> =>
        [(check.at = "send" /\ check'.at = "log") =>
           \A c \in check.known :
             copy[c].to = check.to =>
               \/ c \in overrun
               \/ \E i, j \in DOMAIN row : i < j /\ row[i].of = c /\ copy[row[j].of].channel = "WHATSAPP"
        ]_<<billingVars, failoverVars>>
  BY DEF CheckHonest, Superseded, WhatsApp
<1> QED BY <1>1, HonestAlways, PTL DEF FailoverSpec, ReadIsRespected
-----------------------------------------------------------------------------
(* Escalation ends. *)

\* What a step does to the messages: nothing, or one of the job's handler or of the
\* check is sent, or a fallback, or a message meets its fate.
LEMMA CopySteps ==
  ASSUME Typing, FailoverStep
  PROVE  /\ setup' = setup
         /\ \/ copy' = copy
            \/ \E p \in Person \cup {Stranger}, channel \in Channel,
                  by \in {"handler", "exhausted", "unread"} :
                 Accept(p, channel, by, 0) /\ line' = line /\ faults' = faults
            \/ \E l \in Line : SendFallback(l)
            \/ \E c \in DOMAIN copy : ProviderReports(c)
<1>1. \A s \in Seq(Person) : s # << >> => Head(s) \in Person
  BY HeadTailProperties
<1>2. setup.people \in Seq(Person) /\ setup.primary \in Channel
  BY SettingsTyped DEF Typing
<1>3. CASE SendPrimary \/ Escalate
  <2>1. setup' = setup /\ line' = line /\ faults' = faults
    BY <1>3 DEF SendPrimary, Escalate, Handling, billingVars
  <2>2. \E p \in Person, channel \in Channel, by \in {"handler", "exhausted"} :
          Accept(p, channel, by, 0)
    BY <1>1, <1>2, <1>3 DEF SendPrimary, Escalate, Typing, WorkerOK, Worker
  <2> QED BY <2>1, <2>2
<1>4. CASE CheckSends
  <2>1. setup' = setup /\ line' = line /\ faults' = faults
    BY <1>4 DEF CheckSends, Checking, billingVars
  <2>2. check.to \in Person \cup {Stranger} /\ check.chain \in Seq(Channel)
    BY DEF Typing, CheckOK, Check
  <2>3. \E p \in Person \cup {Stranger}, channel \in Channel : Accept(p, channel, "unread", 0)
    BY <1>4, <2>2, NextTyped DEF CheckSends
  <2> QED BY <2>1, <2>3
<1>5. CASE HandlerStep /\ ~SendPrimary /\ ~Escalate
  <2>1. copy' = copy /\ setup' = setup
    BY <1>5 DEF HandlerStep, SendPrimaryRefused, LogPrimary, ScheduleCheck, EndHandler, Handling,
       HandlerStartsOver, HandlerGivesUp, ChooseFailover, EscalateRefused, LogFailover
  <2> QED BY <2>1
<1>6. CASE CheckStep /\ ~CheckSends
  <2>1. copy' = copy /\ setup' = setup
    BY <1>6 DEF CheckStep, CheckReads, CheckPlan, CheckRefused, CheckLogs, CheckFaults, Checking
  <2> QED BY <2>1
<1>7. ASSUME NEW l \in Line, LineStep(l) PROVE setup' = setup /\ (copy' = copy \/ SendFallback(l))
  BY <1>7 DEF LineStep, ReceiveReport, Receive, UpdateRow, MarkDelivered, Detect, NoFallback,
     ChooseFallback, SendFallback, SendFallbackRefused, LogFallback, LineFails
<1>8. ASSUME NEW c \in DOMAIN copy, ProviderReports(c) PROVE setup' = setup
  BY <1>8 DEF ProviderReports, Becomes
<1> QED BY <1>3, <1>4, <1>5, <1>6, <1>7, <1>8 DEF FailoverStep

\* The message a line is about to send follows its failed one on the next channel.
LineRouted(l) ==
  /\ line[l].at = "choose" => line[l].channel = copy[line[l].of].channel
  /\ line[l].at = "send" => line[l].channel \in NextOf(ServiceChains, copy[line[l].of].channel)

LinesRouted == \A l \in Line : LineRouted(l)

LEMMA RoutedKept ==
  ASSUME Typing, LinesRouted, FailoverStep
  PROVE  LinesRouted'
<1>1. /\ line \in [Line -> Callback] /\ NoLine.at = "idle"
      /\ \A l \in Line : line[l].at # "idle" => line[l].of \in DOMAIN copy
      /\ \A c \in DOMAIN copy : copy'[c].channel = copy[c].channel
      /\ ServiceChains' = ServiceChains
  BY ChannelsStay, CopySteps DEF Typing, LinesOK, NoLine, ServiceChains
<1>2. ASSUME NEW l \in Line, line'[l] = line[l] PROVE LineRouted(l)'
  BY <1>1, <1>2 DEF LinesRouted, LineRouted, NextOf
<1>3. ASSUME NEW l \in Line, line'[l].at \notin {"choose", "send"} PROVE LineRouted(l)'
  BY <1>3 DEF LineRouted
<1>4. ASSUME NEW l \in Line, LineStep(l) PROVE LineRouted(l)'
  <2>1. CASE ReceiveReport(l)
    <3>1. line'[l].at = "update"
      BY <1>1, <2>1 DEF ReceiveReport, Receive, NoLine
    <3> QED BY <1>3, <3>1
  <2>2. CASE UpdateRow(l) \/ MarkDelivered(l) \/ LineFails(l) \/ LogFallback(l)
    <3>1. line'[l].at \notin {"choose", "send"}
      BY <1>1, <2>2 DEF UpdateRow, MarkDelivered, LineFails, LogFallback, Hears, Callback
    <3> QED BY <1>3, <3>1
  <2>3. CASE NoFallback(l) \/ SendFallbackRefused(l) \/ SendFallback(l)
    <3>1. line'[l].at \notin {"choose", "send"}
      BY <1>1, <2>3 DEF NoFallback, SendFallbackRefused, SendFallback, Hears, Callback
    <3> QED BY <1>3, <3>1
  <2>4. CASE Detect(l)
    <3>1. \/ line'[l].at = "idle"
          \/ line'[l].at = "choose" /\ line'[l].of = line[l].of
             /\ line'[l].channel = copy[line[l].of].channel /\ line[l].of \in DOMAIN copy
      BY <1>1, <2>4 DEF Detect, Hears, Callback
    <3> QED BY <1>1, <3>1 DEF LineRouted
  <2>5. CASE ChooseFallback(l)
    <3>1. /\ line'[l].at = "send" /\ line'[l].of = line[l].of /\ line[l].of \in DOMAIN copy
          /\ line'[l].channel \in NextOf(ServiceChains, line[l].channel)
          /\ line[l].at = "choose"
      BY <1>1, <2>5 DEF ChooseFallback, Callback
    <3>2. line[l].channel = copy[line[l].of].channel
      BY <3>1 DEF LinesRouted, LineRouted
    <3> QED BY <1>1, <3>1, <3>2 DEF LineRouted, NextOf
  <2> QED BY <1>4, <2>1, <2>2, <2>3, <2>4, <2>5 DEF LineStep
<1> QED BY <1>2, <1>4, LinesAlone DEF LinesRouted

\* A set of messages that holds, with a fallback, the message it is a fallback of.
ClosedBackwards(S) == \A m \in S : copy[m].by = "callback" => copy[m].after \in S

\* A history of d that is as short as its channel comes early in the chain.
Trace(chain, d, S) ==
  /\ S \subseteq DOMAIN copy /\ IsFiniteSet(S) /\ d \in S /\ ClosedBackwards(S)
  /\ \/ Cardinality(S) <= 1
     \/ \E i \in DOMAIN chain : chain[i] = copy[d].channel /\ Cardinality(S) <= i

Traced ==
  \A chain \in ServiceChains : NoRepeats(chain) =>
    \A d \in DOMAIN copy : \E S \in SUBSET DOMAIN copy : Trace(chain, d, S)

\* A trace stays one while its messages keep their senders and their channels.
LEMMA TraceStays ==
  ASSUME NEW chain, NEW d \in DOMAIN copy, NEW S, Trace(chain, d, S),
         \A c \in DOMAIN copy : /\ c \in DOMAIN copy' /\ copy'[c].by = copy[c].by
                                /\ copy'[c].after = copy[c].after /\ copy'[c].channel = copy[c].channel
  PROVE  Trace(chain, d, S)' /\ S \in SUBSET DOMAIN copy'
BY DEF Trace, ClosedBackwards

LEMMA OneChain ==
  ASSUME setup \in Setups
  PROVE  ServiceChains \subseteq Seq(Channel) /\ \A x, y \in ServiceChains : x = y
<1>1. /\ setup \in Setup
      /\ AtMostOne(setup.rule) /\ AtMostOne(setup.default) /\ AtMostOne(setup.legacy)
  BY FailoverAssumption
<1>2. /\ setup.rule \subseteq Strategy /\ setup.default \subseteq Strategy
      /\ setup.legacy \subseteq Seq(Channel)
  BY <1>1 DEF Setup
<1>3. \A x \in Strategy : x.chain \in Seq(Channel)
  BY DEF Strategy
<1> DEFINE ruled == {x \in setup.rule : x.active}
           found == IF ruled # {} THEN ruled ELSE setup.default
<1>4. found \subseteq Strategy /\ \A x, y \in found : x = y
  BY <1>1, <1>2 DEF AtMostOne
<1>5. ServiceChains = IF found # {} THEN {x.chain : x \in {y \in found : y.onFailed}} ELSE setup.legacy
  BY DEF ServiceChains
<1> HIDE DEF found
<1>6. CASE found = {}
  BY <1>1, <1>2, <1>5, <1>6 DEF AtMostOne
<1>7. CASE found # {}
  <2>1. PICK z \in found : found = {z}
    BY <1>4, <1>7
  <2>2. ServiceChains \subseteq {z.chain} /\ z \in Strategy
    BY <1>4, <1>5, <2>1
  <2> QED BY <1>3, <2>2
<1> QED BY <1>6, <1>7

\* A channel comes once in a chain, and its next channel right after it.
LEMMA NextPosition ==
  ASSUME NEW chain \in Seq(Channel), NEW channel, NEW next \in NextIn(chain, channel)
  PROVE  \E j \in DOMAIN chain : /\ j \in Nat /\ j >= 1 /\ j + 1 \in DOMAIN chain
                                 /\ chain[j] = channel /\ chain[j + 1] = next
<1>1. DOMAIN chain = 1..Len(chain) /\ Len(chain) \in Nat
  BY LenProperties
<1>2. PICK j \in 1..(Len(chain) - 1) : chain[j] = channel /\ chain[j + 1] = next
  BY DEF NextIn
<1>3. j \in Nat /\ j >= 1 /\ j <= Len(chain) /\ j + 1 \in 1..Len(chain)
  BY <1>1, <1>2
<1>4. j \in DOMAIN chain /\ j + 1 \in DOMAIN chain
  BY <1>1, <1>3
<1> QED BY <1>2, <1>3, <1>4

\* A message of its own begins a trace.
LEMMA SentTraced ==
  ASSUME Typing, Traced, NEW p \in Person \cup {Stranger}, NEW channel \in Channel,
         NEW by \in {"handler", "exhausted", "unread"}, Accept(p, channel, by, 0), setup' = setup
  PROVE  Traced'
<1>1. copy \in Seq(Copy) /\ 0 \in Nat /\ by \in {"handler", "callback", "exhausted", "unread"}
  BY DEF Typing
<1>2. PICK n : /\ DOMAIN copy' = DOMAIN copy \cup {n} /\ \A c \in DOMAIN copy : copy'[c] = copy[c]
               /\ copy'[n].by # "callback"
  <2> DEFINE k == Len(copy) + 1
  <2>1. copy'[k] = [to |-> p, channel |-> channel, by |-> by, after |-> 0, fate |-> "sent"]
    BY <1>1, Accepted
  <2>2. DOMAIN copy' = DOMAIN copy \cup {k} /\ \A c \in DOMAIN copy : copy'[c] = copy[c]
    BY <1>1, Accepted
  <2>3. copy'[k].by # "callback"
    BY <2>1
  <2> HIDE DEF k
  <2> QED BY <2>2, <2>3
<1>3. ServiceChains' = ServiceChains
  BY DEF ServiceChains
<1>4. ASSUME NEW chain \in ServiceChains, NoRepeats(chain), NEW d \in DOMAIN copy
      PROVE  \E S \in SUBSET DOMAIN copy' : Trace(chain, d, S)'
  <2>1. PICK S \in SUBSET DOMAIN copy : Trace(chain, d, S)
    BY <1>4 DEF Traced
  <2> QED BY <1>2, <2>1, TraceStays
<1>5. ASSUME NEW chain PROVE {n} \in SUBSET DOMAIN copy' /\ Trace(chain, n, {n})'
  <2>1. IsFiniteSet({n}) /\ Cardinality({n}) = 1
    BY FS_Singleton
  <2> QED BY <1>2, <2>1 DEF Trace, ClosedBackwards
<1> QED BY <1>2, <1>3, <1>4, <1>5 DEF Traced, NoRepeats

\* A fallback goes on the trace of the message it is a fallback of.
LEMMA FallbackTraced ==
  ASSUME Typing, LinesRouted, Traced, NEW l \in Line, SendFallback(l)
  PROVE  Traced'
<1>0. PICK c, x : c = line[l].of /\ x = line[l].channel
  OBVIOUS
<1>1. /\ line[l] \in Callback /\ c \in DOMAIN copy /\ c \in Nat /\ x \in Channel
      /\ x \in NextOf(ServiceChains, copy[c].channel) /\ copy \in Seq(Copy) /\ setup \in Setups
  BY <1>0 DEF Typing, LinesOK, SendFallback, Callback, LinesRouted, LineRouted
<1>2. Head(setup.people) \in Person
  <2>1. setup.people # << >> /\ setup.people \in Seq(Person)
    BY <1>1, SettingsTyped DEF Typing, Peopled
  <2> QED BY <2>1, HeadTailProperties
<1>3. Accept(Head(setup.people), x, "callback", c) /\ setup' = setup
  BY <1>0 DEF SendFallback
<1>4. PICK n : /\ DOMAIN copy' = DOMAIN copy \cup {n} /\ n \notin DOMAIN copy
               /\ \A d \in DOMAIN copy : copy'[d] = copy[d]
               /\ copy'[n] = [to |-> Head(setup.people), channel |-> x, by |-> "callback",
                              after |-> c, fate |-> "sent"]
  BY <1>1, <1>2, <1>3, Accepted
<1>5. copy'[n].by = "callback" /\ copy'[n].after = c /\ copy'[n].channel = x
  BY <1>4
<1>6. ServiceChains' = ServiceChains
  BY <1>3 DEF ServiceChains
<1>7. ASSUME NEW chain \in ServiceChains, NoRepeats(chain), NEW d \in DOMAIN copy
      PROVE  \E S \in SUBSET DOMAIN copy' : Trace(chain, d, S)'
  <2>1. PICK S \in SUBSET DOMAIN copy : Trace(chain, d, S)
    BY <1>7 DEF Traced
  <2> QED BY <1>4, <2>1, TraceStays
<1>8. ASSUME NEW chain \in ServiceChains, NoRepeats(chain)
      PROVE  \E S \in SUBSET DOMAIN copy' : Trace(chain, n, S)'
  <2>1. PICK S \in SUBSET DOMAIN copy : Trace(chain, c, S)
    BY <1>1, <1>8 DEF Traced
  <2>2. x \in NextIn(chain, copy[c].channel) /\ chain \in Seq(Channel)
    BY <1>1, OneChain DEF NextOf
  <2>3. PICK j \in DOMAIN chain : /\ j \in Nat /\ j >= 1 /\ j + 1 \in DOMAIN chain
                                  /\ chain[j] = copy[c].channel /\ chain[j + 1] = x
    BY <2>2, NextPosition
  <2>4. IsFiniteSet(S) /\ Cardinality(S) \in Nat /\ n \notin S
    BY <1>4, <2>1, FS_CardinalityType DEF Trace
  <2>5. Cardinality(S) <= j
    BY <1>8, <2>1, <2>3, <2>4 DEF Trace, NoRepeats
  <2>6. IsFiniteSet(S \cup {n}) /\ Cardinality(S \cup {n}) = Cardinality(S) + 1
    BY <2>4, FS_AddElement
  <2>7. Cardinality(S \cup {n}) <= j + 1
    BY <2>3, <2>4, <2>5, <2>6
  <2>8. S \cup {n} \subseteq DOMAIN copy' /\ ClosedBackwards(S \cup {n})'
    <3>1. S \subseteq DOMAIN copy /\ c \in S /\ ClosedBackwards(S)
      BY <2>1 DEF Trace
    <3> QED BY <1>4, <1>5, <3>1 DEF ClosedBackwards
  <2>9. Trace(chain, n, S \cup {n})'
    BY <1>5, <2>3, <2>6, <2>7, <2>8 DEF Trace
  <2> QED BY <2>8, <2>9
<1> QED BY <1>4, <1>6, <1>7, <1>8 DEF Traced, NoRepeats

LEMMA TracedKept ==
  ASSUME Typing, LinesRouted, Traced, FailoverStep
  PROVE  Traced'
<1>1. setup' = setup /\ ServiceChains' = ServiceChains
  BY CopySteps DEF ServiceChains
<1>2. CASE copy' = copy
  BY <1>1, <1>2 DEF Traced, Trace, ClosedBackwards, NoRepeats
<1>3. ASSUME NEW c \in DOMAIN copy, ProviderReports(c) PROVE Traced'
  <2>1. setup.failures \subseteq Failing
    BY SettingsTyped DEF Typing, Setup
  <2>2. PICK fate \in Fate : Becomes(c, fate)
    BY <1>3, <2>1 DEF ProviderReports, Fate
  <2>3. /\ DOMAIN copy' = DOMAIN copy
        /\ \A d \in DOMAIN copy : /\ copy'[d].by = copy[d].by /\ copy'[d].after = copy[d].after
                                  /\ copy'[d].channel = copy[d].channel
    BY <2>2, FateChanged DEF Becomes, Typing
  <2>4. ASSUME NEW chain \in ServiceChains, NoRepeats(chain), NEW d \in DOMAIN copy
        PROVE  \E S \in SUBSET DOMAIN copy' : Trace(chain, d, S)'
    <3>1. PICK S \in SUBSET DOMAIN copy : Trace(chain, d, S)
      BY <2>4 DEF Traced
    <3> QED BY <2>3, <3>1, TraceStays
  <2> QED BY <1>1, <2>3, <2>4 DEF Traced, NoRepeats
<1> QED BY <1>1, <1>2, <1>3, CopySteps, SentTraced, FallbackTraced

LEMMA RoutedAlways == FailoverSpec => [](LinesRouted /\ Traced)
<1>1. BillingInit /\ FailoverInit => LinesRouted /\ Traced
  <2> SUFFICES ASSUME FailoverInit PROVE LinesRouted /\ Traced
    OBVIOUS
  <2>1. DOMAIN copy = {}
    BY DEF FailoverInit
  <2> QED BY <2>1 DEF FailoverInit, LinesRouted, LineRouted, NoLine, Traced
<1>2. Typing /\ LinesRouted /\ Traced /\ [FailoverNext]_<<billingVars, failoverVars>>
        => LinesRouted' /\ Traced'
  <2> SUFFICES ASSUME Typing, LinesRouted, Traced, [FailoverNext]_<<billingVars, failoverVars>>
               PROVE  LinesRouted' /\ Traced'
    OBVIOUS
  <2>1. CASE FailoverStep
    BY <2>1, RoutedKept, TracedKept
  <2>2. CASE UNCHANGED failoverVars
    BY <2>2 DEF failoverVars, LinesRouted, LineRouted, NextOf, ServiceChains, Traced, Trace, ClosedBackwards,
       NoRepeats
  <2> QED BY <2>1, <2>2 DEF FailoverNext, failoverVars
<1> QED BY <1>1, <1>2, TypingAlways, PTL DEF FailoverSpec

LEMMA TracesBound == ASSUME Typing, Traced PROVE EscalationEnds
<1> SUFFICES ASSUME NEW chain \in ServiceChains, chain # << >>, NoRepeats(chain), NEW d \in DOMAIN copy
             PROVE  Cardinality(Lineage(d)) <= Len(chain)
  BY DEF EscalationEnds
<1>1. PICK S \in SUBSET DOMAIN copy : Trace(chain, d, S)
  BY DEF Traced
<1>2. IsFiniteSet(S) /\ Lineage(d) \subseteq S
  BY <1>1 DEF Lineage, Trace, ClosedBackwards
<1>3. /\ Cardinality(Lineage(d)) <= Cardinality(S)
      /\ Cardinality(Lineage(d)) \in Nat /\ Cardinality(S) \in Nat
  BY <1>2, FS_Subset, FS_CardinalityType
<1>4. chain \in Seq(Channel)
  BY OneChain DEF Typing
<1>5. DOMAIN chain = 1..Len(chain) /\ Len(chain) \in Nat /\ Len(chain) >= 1
  BY <1>4, LenProperties, EmptySeq
<1>6. Cardinality(S) <= Len(chain)
  BY <1>1, <1>3, <1>5 DEF Trace
<1> QED BY <1>3, <1>5, <1>6

\* Escalation ends: whatever fails, and however often and late it is reported, the
\* messages in a row from one message are no more than the channels of the chain,
\* if the chain names none twice.
THEOREM EscalationsEnd == FailoverSpec => []EscalationEnds
BY RoutedAlways, TypingAlways, TracesBound, PTL

-----------------------------------------------------------------------------
(* Callbacks keep the contract of escalation. *)

LEMMA SameLength == \A a, b \in Nat : 1..a = 1..b => a = b
<1> SUFFICES ASSUME NEW a \in Nat, NEW b \in Nat, 1..a = 1..b, a < b PROVE FALSE
  OBVIOUS
<1>1. b \in 1..b /\ b \notin 1..a
  OBVIOUS
<1> QED BY <1>1

\* A message as it is seen from outside.
View(c) ==
  [channel |-> copy[c].channel, fate |-> Verdict(copy[c].fate),
   after |-> IF copy[c].by = "callback" THEN copy[c].after ELSE 0]

LEMMA MessagesTyped ==
  ASSUME Typing
  PROVE  /\ Messages = [c \in 1..Len(copy) |-> View(c)] /\ DOMAIN copy = 1..Len(copy)
         /\ Len(copy) \in Nat /\ Len(Messages) = Len(copy)
         /\ \A c \in DOMAIN copy : copy[c] \in Copy
<1>1. DOMAIN copy = 1..Len(copy) /\ Len(copy) \in Nat /\ \A c \in DOMAIN copy : copy[c] \in Copy
  BY LenProperties DEF Typing
<1>2. Messages = [c \in 1..Len(copy) |-> View(c)]
  BY <1>1 DEF Messages, View
<1>3. Len(Messages) = Len(copy)
  <2>1. Messages \in [1..Len(copy) -> {View(c) : c \in 1..Len(copy)}]
    BY <1>2
  <2>2. Messages \in Seq({View(c) : c \in 1..Len(copy)})
    BY <1>1, <2>1, SeqDef
  <2>3. DOMAIN Messages = 1..Len(Messages) /\ Len(Messages) \in Nat /\ DOMAIN Messages = 1..Len(copy)
    BY <1>2, <2>2, LenProperties
  <2> HIDE DEF Messages
  <2> QED BY <1>1, <2>3, SameLength
<1> QED BY <1>1, <1>2, <1>3

\* A message more.
LEMMA OneMore ==
  ASSUME Typing, NEW p \in Person \cup {Stranger}, NEW channel \in Channel,
         NEW by \in {"handler", "callback", "exhausted", "unread"}, NEW after \in Nat,
         Accept(p, channel, by, after), by # "callback" => after = 0, Typing'
  PROVE  Escalation!Emit(channel, after)
<1> DEFINE n == Len(copy) + 1
           new == [channel |-> channel, fate |-> "sent", after |-> after]
<1>1. /\ DOMAIN copy' = DOMAIN copy \cup {n} /\ \A c \in DOMAIN copy : copy'[c] = copy[c]
      /\ copy'[n] = [to |-> p, channel |-> channel, by |-> by, after |-> after, fate |-> "sent"]
  BY Accepted DEF Typing
<1>2. copy'[n].channel = channel /\ copy'[n].fate = "sent" /\ copy'[n].by = by /\ copy'[n].after = after
  BY <1>1
<1>3. /\ Messages = [c \in 1..Len(copy) |-> View(c)] /\ DOMAIN copy = 1..Len(copy)
      /\ Len(copy) \in Nat /\ Len(Messages) = Len(copy)
  BY MessagesTyped
<1>4. Messages' = [c \in DOMAIN copy' |-> View(c)']
  BY DEF Messages, View
<1>5. DOMAIN copy' = 1..n
  BY <1>1, <1>3
<1>6. ASSUME NEW c \in 1..n PROVE Messages'[c] = IF c = n THEN new ELSE Messages[c]
  <2>1. CASE c = n
    <3>1. Messages'[c] = [channel |-> copy'[n].channel, fate |-> Verdict(copy'[n].fate),
                          after |-> IF copy'[n].by = "callback" THEN copy'[n].after ELSE 0]
      BY <1>4, <1>5, <2>1 DEF View, Verdict
    <3> QED BY <1>2, <2>1, <3>1 DEF Verdict, Failing
  <2>2. CASE c # n
    <3>1. c \in DOMAIN copy /\ copy'[c] = copy[c]
      BY <1>1, <1>3, <2>2
    <3> QED BY <1>3, <1>4, <1>5, <2>2, <3>1 DEF View, Verdict
  <2> QED BY <2>1, <2>2
<1>7. Messages' = [c \in 1..n |-> IF c = n THEN new ELSE Messages[c]]
  BY <1>4, <1>5, <1>6
<1>8. Messages' = Append(Messages, new)
  <2> DEFINE T == {View(c) : c \in 1..Len(copy)} \cup {new}
  <2>1. Messages \in Seq(T)
    <3>1. Messages \in [1..Len(copy) -> T]
      BY <1>3
    <3> QED BY <1>3, <3>1, SeqDef
  <2> HIDE DEF T, new, Messages
  <2>2. new \in T
    BY DEF T
  <2>3. /\ DOMAIN Append(Messages, new) = 1..n
        /\ Append(Messages, new) = [c \in DOMAIN Append(Messages, new) |-> Append(Messages, new)[c]]
        /\ \A c \in 1..n : Append(Messages, new)[c] = IF c = n THEN new ELSE Messages[c]
    BY <1>3, <2>1, <2>2, AppendProperties, LenProperties
  <2> QED BY <1>7, <2>3
<1> QED BY <1>8 DEF Escalation!Emit

\* The rest of the contract sees nothing of a step that sends nothing and leaves
\* the settings alone.
LEMMA ViewStays ==
  ASSUME setup' = setup
  PROVE  /\ Routes' = Routes
         /\ copy' = copy => Messages' = Messages
BY DEF Routes, NextOf, ServiceChains, Messages, Verdict

LEMMA OwnSendsKeep ==
  ASSUME Typing, Typing', setup' = setup, faults' = faults,
         NEW p \in Person \cup {Stranger}, NEW channel \in Channel,
         NEW by \in {"handler", "exhausted", "unread"}, Accept(p, channel, by, 0)
  PROVE  Escalation!Next
<1>1. Escalation!Emit(channel, 0)
  BY OneMore
<1> QED BY <1>1, ViewStays DEF Escalation!Next, Escalation!Send

LEMMA FallbackKeeps ==
  ASSUME Typing, Typing', Heeded, Bounded, LinesRouted, NEW l \in Line, SendFallback(l)
  PROVE  Escalation!Next
<1>0. PICK c, x : c = line[l].of /\ x = line[l].channel
  OBVIOUS
<1>1. /\ line[l] \in Callback /\ c \in DOMAIN copy /\ c \in Nat /\ x \in Channel
      /\ x \in NextOf(ServiceChains, copy[c].channel) /\ line[l].status \in Failing
      /\ line[l].at = "send" /\ faults \in Nat
  BY <1>0 DEF Typing, LinesOK, SendFallback, Callback, LinesRouted, LineRouted, Heeded, LineKnows, Bounded
<1>2. Head(setup.people) \in Person
  <2>1. setup.people # << >> /\ setup.people \in Seq(Person)
    BY <1>1, SettingsTyped DEF Typing, Peopled
  <2> QED BY <2>1, HeadTailProperties
<1>3. Accept(Head(setup.people), x, "callback", c) /\ setup' = setup /\ faults' = faults
  BY <1>0 DEF SendFallback, billingVars
<1>4. Escalation!Emit(x, c)
  BY <1>1, <1>2, <1>3, OneMore
<1>5. InBounds(c) /\ l \in Handlings(c)
  BY <1>0, <1>1 DEF Bounded, Handlings
<1>6. copy[c].fate \in Failing
  BY <1>5 DEF InBounds, Spared
<1>7. Cardinality(FallbacksOf(c)) <= faults
  <2>1. /\ Cardinality(Reports(c)) \in Nat /\ Cardinality(Handlings(c)) \in Nat
        /\ Cardinality(FallbacksOf(c)) \in Nat /\ IsFiniteSet(Handlings(c))
    BY <1>5, SetsFinite DEF InBounds
  <2>2. Cardinality(Handlings(c)) # 0
    BY <1>5, <2>1, FS_EmptySet
  <2>3. Cardinality(Reports(c)) + Cardinality(Handlings(c)) + Cardinality(FallbacksOf(c)) <= 1 + faults
    BY <1>5 DEF InBounds, Within
  <2> QED BY <1>1, <2>1, <2>2, <2>3
<1>8. /\ DOMAIN Messages = DOMAIN copy /\ DOMAIN copy = 1..Len(copy)
      /\ \A d \in DOMAIN copy : Messages[d] = View(d) /\ copy[d] \in Copy
  BY MessagesTyped
<1>9. Escalation!Successors(c) = FallbacksOf(c)
  <2>1. c # 0
    BY <1>1, <1>8
  <2> QED BY <1>8, <2>1 DEF Escalation!Successors, FallbacksOf, View
<1>10. /\ Messages[c].fate = "failed" /\ Messages[c].channel = copy[c].channel
  BY <1>1, <1>6, <1>8 DEF View, Verdict
<1>11. <<copy[c].channel, x>> \in Routes
  BY <1>1, <1>8 DEF Routes, Copy
<1>12. Escalation!FallBack(c, x)
  <2>1. UNCHANGED <<Routes, faults>>
    BY <1>3, ViewStays
  <2>2. Escalation!Cardinality(FallbacksOf(c)) = Cardinality(FallbacksOf(c))
    BY DEF Escalation!Cardinality, Cardinality
  <2> QED BY <1>4, <1>7, <1>9, <1>10, <1>11, <2>1, <2>2 DEF Escalation!FallBack
<1> QED BY <1>1, <1>8, <1>12 DEF Escalation!Next

LEMMA ReportKeeps ==
  ASSUME Typing, Typing', NEW c \in DOMAIN copy, ProviderReports(c)
  PROVE  Escalation!Next
<1>1. setup.failures \subseteq Failing
  BY SettingsTyped DEF Typing, Setup
<1>2. PICK fate \in Fate : /\ Becomes(c, fate)
                           /\ \/ copy[c].fate = "sent" /\ fate \in {"delivered"} \cup Failing
                              \/ copy[c].fate = "delivered" /\ fate = "read"
  BY <1>1 DEF ProviderReports, Fate, Failing
<1>3. /\ DOMAIN copy' = DOMAIN copy /\ copy'[c].fate = fate
      /\ \A d \in DOMAIN copy : /\ copy'[d].by = copy[d].by /\ copy'[d].after = copy[d].after
                                /\ copy'[d].channel = copy[d].channel /\ (d # c => copy'[d] = copy[d])
  BY <1>2, FateChanged DEF Becomes, Typing
<1>4. setup' = setup /\ faults' = faults
  BY <1>2 DEF Becomes, billingVars
<1>5. /\ Messages = [d \in DOMAIN copy |-> View(d)]
      /\ Messages' = [d \in DOMAIN copy |-> View(d)']
  BY <1>3 DEF Messages, View
<1>6. Messages' = [Messages EXCEPT ![c].fate = Verdict(fate)]
  <2>1. ASSUME NEW d \in DOMAIN copy, d # c PROVE View(d)' = View(d)
    BY <1>3, <2>1 DEF View, Verdict
  <2>2. View(c)' = [View(c) EXCEPT !.fate = Verdict(fate)]
    BY <1>3 DEF View, Verdict
  <2> QED BY <1>5, <2>1, <2>2
<1>7. \/ Messages[c].fate = "sent" /\ Verdict(fate) \in {"delivered", "failed"}
      \/ Messages[c].fate = "delivered" /\ Verdict(fate) = "read"
  BY <1>2, <1>5 DEF View, Verdict, Failing
<1>8. c \in DOMAIN Messages
  BY <1>5
<1>9. Escalation!Report(c, Verdict(fate))
  BY <1>4, <1>6, <1>7, ViewStays DEF Escalation!Report
<1>10. Verdict(fate) \in {"delivered", "failed", "read"}
  BY <1>7
<1> QED BY <1>8, <1>9, <1>10 DEF Escalation!Next

\* A step that leaves the messages alone is nothing to the contract, or a fault.
LEMMA QuietKeeps ==
  ASSUME FailoverNext, setup' = setup, copy' = copy
  PROVE  [Escalation!Next]_<<Messages, Routes, faults>>
BY FaultsGrow, ViewStays DEF Escalation!Next, Escalation!Fault

LEMMA ContractKept ==
  ASSUME Typing, Typing', Heeded, Bounded, LinesRouted, [FailoverNext]_<<billingVars, failoverVars>>
  PROVE  [Escalation!Next]_<<Messages, Routes, faults>>
<1>1. CASE FailoverStep
  BY <1>1, CopySteps, QuietKeeps, OwnSendsKeep, FallbackKeeps, ReportKeeps DEF FailoverNext
<1>2. CASE FailoverNext /\ UNCHANGED failoverVars
  BY <1>2, QuietKeeps DEF failoverVars
<1>3. CASE UNCHANGED <<billingVars, failoverVars>>
  BY <1>3, ViewStays DEF billingVars, failoverVars
<1> QED BY <1>1, <1>2, <1>3 DEF FailoverNext

\* ChannelFailover implements EscalationContract: for every step of callbacks, of the
\* reminder's handler, of the unread check and of billing there is one of the
\* contract, or none is seen.
THEOREM EscalationKeepsContract == FailoverSpec => KeepsEscalation
<1>1. BillingInit /\ FailoverInit => Escalation!Init
  <2> SUFFICES ASSUME BillingInit, FailoverInit PROVE Escalation!Init
    OBVIOUS
  <2>1. copy = << >> /\ faults = 0
    BY DEF BillingInit, FailoverInit
  <2>2. Messages = << >>
    BY <2>1 DEF Messages
  <2> QED BY <2>1, <2>2 DEF Escalation!Init, Routes
<1>2. Typing /\ Typing' /\ Heeded /\ Bounded /\ LinesRouted
        /\ [FailoverNext]_<<billingVars, failoverVars>> => [Escalation!Next]_Escalation!contractVars
  BY ContractKept DEF Escalation!contractVars
<1> QED BY <1>1, <1>2, TypingAlways, AnsweringAlways, RoutedAlways, PTL
        DEF FailoverSpec, KeepsEscalation, Escalation!Spec

=============================================================================
