-------------------------------- MODULE Realtime --------------------------------
(***************************************************************************)
(* One realtime socket: the server coroutines that replay the append-only  *)
(* event logs of the markets over it, and the client that applies what it  *)
(* receives and reconnects from its last contiguous sequence.              *)
(*                                                                         *)
(* An event is its sequence number, so a market's log is the number of     *)
(* events it holds.  The server is one JavaScript closure per socket: code *)
(* between two awaits is one action, a database read is an action of its   *)
(* own, and at every await any other coroutine of the socket may run.  The *)
(* ticket exchange is not modelled: a connection starts authenticated.     *)
(* The client is not under src/; it follows the x-recovery procedure of    *)
(* the protocol contract (api/asyncapi.json).                              *)
(***************************************************************************)
EXTENDS Naturals, Sequences, SequencesExt, FiniteSets

CONSTANTS
  Markets,         \* published markets
  PageLimit,       \* events one page carries (100 in the code)
  MaxBuffered,     \* frames the outbound buffer may hold before a poll gives up
  SubscribeLimit,  \* subscribe frames a client sends on one connection
  EventLimit,      \* events committed in all, bounds the runs
  ConnectLimit     \* connections opened in all, bounds the runs

ASSUME PageLimitAssumption == PageLimit \in Nat \ {0}
ASSUME BufferAssumption == MaxBuffered \in Nat
ASSUME SubscribeAssumption == SubscribeLimit \in Nat
ASSUME MarketsAssumption == "none" \notin Markets

VARIABLES
  log,           \* clob_events: committed events of each market
  socket,        \* readyState, and "none" between two connections
  connections,   \* connections opened so far
  subscription,  \* the closure's subscription, NoSubscription until the first
  working,       \* the closure's working flag
  tasks,         \* the coroutines of the socket: publish and one per subscribe
  wire,          \* frames sent and not yet received, socket.bufferedAmount
  view,          \* the subscription the client's last subscribed frame named
  retained       \* highest contiguous sequence the client applied, by market

server == <<subscription, working, tasks>>
client == <<view, retained>>
streamVars == <<log, socket, connections, server, wire, client>>

NoSubscription == [market |-> "none", after |-> 0]
Publisher == 0
Requests  == 1..SubscribeLimit
Task      == {Publisher} \cup Requests

(* What a coroutine does next: read from the database, or resume with what *)
(* it read ("got").  A request not sent yet is unsent, a finished one idle. *)
Idle   == [at |-> "idle"]
Unsent == [at |-> "unsent"]

Subscribed(m, n)     == [type |-> "subscribed", market |-> m, sequence |-> n]
MarketEvent(m, n)    == [type |-> "market_event", market |-> m, sequence |-> n]
BookSnapshot(m, n)   == [type |-> "book_snapshot", market |-> m, sequence |-> n]
PositionSnapshot(m, n, seen) ==
  [type |-> "position_snapshot", market |-> m, sequence |-> n, reflects |-> seen]

EventCount == LET Add(m, n) == log[m] + n IN FoldSet(Add, 0, Markets)
Least(a, b) == IF a <= b THEN a ELSE b

StreamInit ==
  /\ log = [m \in Markets |-> 0]
  /\ socket = "none" /\ connections = 0
  /\ subscription = NoSubscription /\ working = FALSE
  /\ tasks = [t \in Task |-> IF t = Publisher THEN Idle ELSE Unsent]
  /\ wire = <<>>
  /\ view = NoSubscription
  /\ retained = [m \in Markets |-> 0]

(* A transaction on the book of m commits one event; the book's row lock    *)
(* makes sequences appear in order.                                         *)
CommitEvent(m) ==
  /\ EventCount < EventLimit
  /\ log' = [log EXCEPT ![m] = @ + 1]
  /\ UNCHANGED <<socket, connections, server, wire, client>>

Connect ==
  /\ socket = "none" /\ connections < ConnectLimit
  /\ socket' = "open" /\ connections' = connections + 1
  /\ subscription' = NoSubscription /\ working' = FALSE
  /\ tasks' = [t \in Task |-> IF t = Publisher THEN Idle ELSE Unsent]
  /\ wire' = <<>> /\ view' = NoSubscription
  /\ UNCHANGED <<log, retained>>

(* The connection breaks, a query fails (1011, 4404) or the client leaves:  *)
(* frames not received yet are lost, and what the coroutines of the closed  *)
(* socket still send goes nowhere.                                          *)
Disconnect ==
  /\ socket # "none"
  /\ socket' = "none" /\ wire' = <<>>
  /\ subscription' = NoSubscription /\ working' = FALSE
  /\ tasks' = [t \in Task |-> Idle]
  /\ UNCHANGED <<log, connections, client>>

(* The client asks for market m from the last sequence it applied.          *)
SendSubscribe(r, m) ==
  /\ socket = "open" /\ tasks[r] = Unsent
  /\ \A q \in Requests : q < r => tasks[q] # Unsent
  /\ tasks' = [tasks EXCEPT ![r] = [at |-> "initial", market |-> m, after |-> retained[m]]]
  /\ UNCHANGED <<log, socket, connections, subscription, working, wire, client>>

(* The subscribe handler reads its first page; a cursor past the end of the *)
(* log answers CURSOR_AHEAD and leaves the old subscription.                *)
ReadInitial(r) ==
  /\ tasks[r].at = "initial"
  /\ LET m == tasks[r].market  after == tasks[r].after
     IN tasks' = [tasks EXCEPT ![r] =
          IF after <= log[m]
            THEN [at |-> "install", market |-> m, after |-> after, items |-> after < log[m]]
            ELSE Idle]
  /\ UNCHANGED <<log, socket, connections, subscription, working, wire, client>>

StartPublish(sub)   == [at |-> "page", market |-> sub.market, after |-> sub.after]
StartSnapshots(sub) == [at |-> "books", market |-> sub.market]

(* What a closed or closing socket is sent is discarded.                    *)
Sent(frames) == IF socket = "open" THEN wire \o frames ELSE wire

(* publish() past its first guard: it gives up on a client whose buffer is  *)
(* over the limit, and otherwise takes the working flag and reads a page.   *)
(* buffer is what is on the wire, ts the coroutines at the time of the call. *)
BeginPublish(sub, buffer, ts) ==
  \/ /\ Len(buffer) > MaxBuffered
     /\ socket' = "closing"
     /\ tasks' = ts
     /\ UNCHANGED working
  \/ /\ Len(buffer) <= MaxBuffered
     /\ working' = TRUE
     /\ tasks' = [ts EXCEPT ![Publisher] = StartPublish(sub)]
     /\ UNCHANGED socket

(* The handler replaces the subscription, then publishes when its page had  *)
(* events (publish returns at once while another call of it is working) and *)
(* otherwise sends snapshots, outside the working flag.                     *)
Install(r) ==
  /\ tasks[r].at = "install"
  /\ LET sub == [market |-> tasks[r].market, after |-> tasks[r].after]
         frames == Sent(<<Subscribed(sub.market, sub.after)>>)
     IN /\ subscription' = sub
        /\ wire' = frames
        /\ \/ /\ tasks[r].items /\ ~working /\ socket = "open"
              /\ BeginPublish(sub, frames, [tasks EXCEPT ![r] = Idle])
           \/ /\ tasks[r].items /\ (working \/ socket # "open")
              /\ tasks' = [tasks EXCEPT ![r] = Idle]
              /\ UNCHANGED <<socket, working>>
           \/ /\ ~tasks[r].items
              /\ tasks' = [tasks EXCEPT ![r] = StartSnapshots(sub)]
              /\ UNCHANGED <<socket, working>>
  /\ UNCHANGED <<log, connections, client>>

(* Mutant: polling stops with the first page.                               *)
PollFirstPage ==
  /\ socket = "open" /\ subscription # NoSubscription /\ ~working /\ subscription.after = 0
  /\ BeginPublish(subscription, wire, tasks)
  /\ UNCHANGED <<log, connections, subscription, wire, client>>

(* One tick of the poll interval, or the microtask that fetches the next    *)
(* page of a log longer than one.                                           *)
Poll ==
  /\ socket = "open" /\ subscription # NoSubscription /\ ~working
  /\ BeginPublish(subscription, wire, tasks)
  /\ UNCHANGED <<log, connections, subscription, wire, client>>

(* The page query: the events after the cursor, at most one page of them.   *)
(* A cursor past the end of the log is an error, which closes the socket:   *)
(* that is a Disconnect.                                                    *)
ReadPage ==
  /\ tasks[Publisher].at = "page"
  /\ LET m == tasks[Publisher].market  after == tasks[Publisher].after
     IN /\ after <= log[m]
        /\ tasks' = [tasks EXCEPT ![Publisher] =
             [at |-> "events", after |-> after, upto |-> Least(log[m], after + PageLimit)]]
  /\ UNCHANGED <<log, socket, connections, subscription, working, wire, client>>

(* publish resumes: an empty page ends it.                                  *)
EmptyPage ==
  /\ tasks[Publisher].at = "events" /\ tasks[Publisher].upto = tasks[Publisher].after
  /\ tasks' = [tasks EXCEPT ![Publisher] = Idle] /\ working' = FALSE
  /\ UNCHANGED <<log, socket, connections, subscription, wire, client>>

(* Mutant: the cursor stays where it was, and the page is sent again.       *)
SendEventsKeepsCursor ==
  /\ tasks[Publisher].at = "events" /\ tasks[Publisher].upto > tasks[Publisher].after
  /\ LET after == tasks[Publisher].after  upto == tasks[Publisher].upto
     IN /\ wire' = Sent([i \in 1..(upto - after) |-> MarketEvent(subscription.market, after + i)])
        /\ UNCHANGED subscription
        /\ tasks' = [tasks EXCEPT ![Publisher] = StartSnapshots(subscription)]
  /\ UNCHANGED <<log, socket, connections, working, client>>

(* publish resumes with events: they are sent under the subscription the    *)
(* closure holds now, whose cursor moves to the last of them.               *)
SendEvents ==
  /\ tasks[Publisher].at = "events" /\ tasks[Publisher].upto > tasks[Publisher].after
  /\ LET after == tasks[Publisher].after  upto == tasks[Publisher].upto
     IN /\ wire' = Sent([i \in 1..(upto - after) |-> MarketEvent(subscription.market, after + i)])
        /\ subscription' = [subscription EXCEPT !.after = upto]
        /\ tasks' = [tasks EXCEPT ![Publisher] = StartSnapshots(subscription')]
  /\ UNCHANGED <<log, socket, connections, working, client>>

(* A snapshot query of a coroutine: the state of the book, or of the        *)
(* account's positions, at the sequence the log has now.                    *)
ReadSnapshot(t) ==
  /\ tasks[t].at \in {"books", "positions"}
  /\ tasks' = [tasks EXCEPT ![t] =
       IF tasks[t].at = "books"
         THEN [at |-> "book", market |-> tasks[t].market, seen |-> log[tasks[t].market]]
         ELSE [at |-> "position", market |-> tasks[t].market, label |-> tasks[t].label,
               seen |-> log[tasks[t].market]]]
  /\ UNCHANGED <<log, socket, connections, subscription, working, wire, client>>

(* Mutant: a position snapshot is labelled with the book's sequence.        *)
SendBookLabelsLatest(t) ==
  /\ tasks[t].at = "book"
  /\ wire' = Sent(<<BookSnapshot(tasks[t].market, tasks[t].seen)>>)
  /\ tasks' = [tasks EXCEPT ![t] =
       [at |-> "positions", market |-> subscription.market, label |-> tasks[t].seen]]
  /\ UNCHANGED <<log, socket, connections, subscription, working, client>>

(* The book snapshot is sent; the position snapshot is built next, its      *)
(* market and its sequence taken before its query is awaited.               *)
SendBook(t) ==
  /\ tasks[t].at = "book"
  /\ wire' = Sent(<<BookSnapshot(tasks[t].market, tasks[t].seen)>>)
  /\ tasks' = [tasks EXCEPT ![t] =
       [at |-> "positions", market |-> subscription.market, label |-> subscription.after]]
  /\ UNCHANGED <<log, socket, connections, subscription, working, client>>

SendPositions(t) ==
  /\ tasks[t].at = "position"
  /\ wire' = Sent(<<PositionSnapshot(tasks[t].market, tasks[t].label, tasks[t].seen)>>)
  /\ tasks' = [tasks EXCEPT ![t] = Idle]
  /\ working' = (working /\ t # Publisher)
  /\ UNCHANGED <<log, socket, connections, subscription, client>>

(* The client applies one frame; an event counts when it is the next one of *)
(* the market the frame names.                                              *)
Receive ==
  /\ wire # <<>>
  /\ wire' = Tail(wire)
  /\ LET frame == Head(wire)
     IN /\ view' = CASE frame.type = "subscribed" -> [market |-> frame.market, after |-> frame.sequence]
                     [] frame.type = "market_event" -> [view EXCEPT !.after = frame.sequence]
                     [] OTHER -> view
        /\ retained' = IF frame.type = "market_event" /\ frame.sequence = retained[frame.market] + 1
                         THEN [retained EXCEPT ![frame.market] = @ + 1] ELSE retained
  /\ UNCHANGED <<log, socket, connections, server>>

Advance(t) == ReadSnapshot(t) \/ SendBook(t) \/ SendPositions(t)
Publish == ReadPage \/ EmptyPage \/ SendEvents

StreamNext ==
  \/ \E m \in Markets : CommitEvent(m)
  \/ Connect
  \/ Disconnect
  \/ \E r \in Requests, m \in Markets : SendSubscribe(r, m)
  \/ \E r \in Requests : ReadInitial(r)
  \/ \E r \in Requests : Install(r)
  \/ Poll
  \/ Publish
  \/ \E t \in Task : Advance(t)
  \/ Receive

StreamSpec == StreamInit /\ [][StreamNext]_streamVars

(* The poll interval fires every half second, a query that is awaited       *)
(* answers, and a frame that is sent is read while the connection lasts.    *)
Fairness ==
  /\ WF_streamVars(Poll) /\ WF_streamVars(Publish) /\ WF_streamVars(Receive)
  /\ \A r \in Requests : WF_streamVars(ReadInitial(r)) /\ WF_streamVars(Install(r))
  /\ \A t \in Task : WF_streamVars(Advance(t))

FairSpec == StreamSpec /\ Fairness

-----------------------------------------------------------------------------
Frame == [type : {"subscribed", "market_event", "book_snapshot"}, market : Markets, sequence : Nat]
         \cup [type : {"position_snapshot"}, market : Markets, sequence : Nat, reflects : Nat]
Cursor == [market : Markets, after : Nat] \cup {NoSubscription}

(* Every variable keeps its shape, and the publishing coroutine runs        *)
(* exactly while the working flag is set.                                   *)
StreamTypeOK ==
  /\ log \in [Markets -> Nat] /\ retained \in [Markets -> Nat]
  /\ socket \in {"none", "open", "closing"} /\ connections \in Nat
  /\ subscription \in Cursor /\ view \in Cursor
  /\ working \in BOOLEAN /\ working = (tasks[Publisher] # Idle)
  /\ \A i \in DOMAIN wire : wire[i] \in Frame

(* Frame i continues the stream: what came before it on this connection,    *)
(* read or still on the wire, ended at sequence n of the same market.       *)
StreamedBefore(i) ==
  LET streamed == {j \in 1..(i - 1) : wire[j].type \in {"subscribed", "market_event"}}
  IN IF streamed = {} THEN view
     ELSE LET j == CHOOSE j \in streamed : \A k \in streamed : k <= j
          IN [market |-> wire[j].market, after |-> wire[j].sequence]

(* The events of a subscription arrive strictly after its cursor, in order  *)
(* and without a gap or a repetition, whatever polls, pages and lost        *)
(* connections came between: publish() in socket.ts.                        *)
NoSkippedHistory ==
  \A i \in DOMAIN wire : wire[i].type = "market_event" =>
    StreamedBefore(i) = [market |-> wire[i].market, after |-> wire[i].sequence - 1]

(* A position snapshot shows at least the events up to the sequence it is   *)
(* labelled with, and those events were sent before it, so replacing local  *)
(* state with it loses none of them: snapshots() in socket.ts.              *)
SnapshotsCoverTheirSequence ==
  \A i \in DOMAIN wire : wire[i].type = "position_snapshot" =>
    /\ wire[i].reflects >= wire[i].sequence
    /\ StreamedBefore(i).market = wire[i].market /\ StreamedBefore(i).after >= wire[i].sequence

(* While a connection lasts, its subscriber receives every event committed  *)
(* to its market.                                                           *)
SubscriberCatchesUp ==
  \A m \in Markets, n \in 1..EventLimit :
    (log[m] >= n /\ subscription.market = m)
      ~> (view = [market |-> m, after |-> view.after] /\ view.after >= n)
         \/ subscription.market # m \/ socket # "open"
=============================================================================
