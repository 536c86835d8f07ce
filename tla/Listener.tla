------------------------------ MODULE Listener ------------------------------
(***************************************************************************)
(* SolanaEventListener (src/solana/listener_improved.rs): the connection   *)
(* loop, which connects, subscribes to the program's logs and reads the    *)
(* WebSocket; the ping task of the connection; the handling of a           *)
(* notification; the broadcast channel; and the event processor.           *)
(*                                                                         *)
(* The node, the network and the program's transactions are the            *)
(* environment.  An event is a pair <<t, n>>: line n of the logs of         *)
(* transaction t.  stop() is called nowhere and should_stop stays false.   *)
(***************************************************************************)
EXTENDS CallStack, FiniteSets

CONSTANTS
  LogsOf,        (* of each transaction, in chain order, its log lines     *)
  ShownOf,       (* how many of its lines a notification shows             *)
  Failed,        (* transactions that failed                               *)
  ProcessFailed, (* config.process_failed_transactions                     *)
  MaxReconnect,  (* config.max_reconnect_attempts                          *)
  Capacity,      (* of the broadcast channel, 1000 in the code             *)
  MaxPingFailures, (* 3 in the code                                        *)
  MaxBreaks,     (* bound: connections the network breaks                  *)
  MaxRepeats     (* bound: notifications the node sends again, and pings   *)

Txs == 1..Len(LogsOf)
Events == UNION {{t} \X EmittedLines(LogsOf[t]) : t \in Txs}

(* A key stands for what events_are_equal compares: the kind, and for the  *)
(* kinds of an order its account.                                          *)
Keys == {"create", "trade", "discount", "orderA", "orderB"}

ASSUME ListenerAssumption ==
  /\ LogsOf \in Seq(Seq(LogLine))
  /\ \A t \in Txs : \A n \in 1..Len(LogsOf[t]) :
       LogsOf[t][n].op = "data" /\ LogsOf[t][n].prog = Target
         => LogsOf[t][n].key \in Keys
  /\ ShownOf \in [Txs -> Nat] /\ \A t \in Txs : ShownOf[t] <= Len(LogsOf[t])
  /\ Failed \subseteq Txs
  /\ ProcessFailed \in BOOLEAN
  /\ MaxReconnect \in Nat /\ Capacity \in Nat \ {0} /\ MaxPingFailures \in Nat \ {0}
  /\ MaxBreaks \in Nat /\ MaxRepeats \in Nat

VARIABLES
  executed,   \* transactions executed so far, in order
  socket,     \* the connection: none, open, silent (a peer gone) or closed
  inbox,      \* notifications on their way to the reader
  loop,       \* the connection loop's position
  connection_state, reconnect_attempts,
  ping,       \* the connection's ping task: is it alive, failures in a row
  processed_signatures,
  fetching,   \* the transaction being fetched, 0 if none
  pending,    \* events found in the notification, not yet broadcast
  channel,    \* the broadcast channel: events the processor has not received
  skipped,    \* events overwritten since the processor's last receive
  lost,       \* the events overwritten
  handled,    \* the events handed to the handler, in order
  breaks, repeats

netVars == <<executed, socket, inbox, breaks, repeats>>
loopVars == <<loop, connection_state, reconnect_attempts, ping>>
msgVars == <<processed_signatures, fetching, pending>>
chanVars == <<channel, skipped, lost, handled>>
vars == <<netVars, loopVars, msgVars, chanVars>>

NoPing == [alive |-> FALSE, failures |-> 0]

Init ==
  /\ executed = 0 /\ socket = "none" /\ inbox = <<>> /\ breaks = 0 /\ repeats = 0
  /\ loop = "start" /\ connection_state = "Disconnected" /\ reconnect_attempts = 0
  /\ ping = NoPing
  /\ processed_signatures = {} /\ fetching = 0 /\ pending = <<>>
  /\ channel = <<>> /\ skipped = 0 /\ lost = {} /\ handled = <<>>

-----------------------------------------------------------------------------
(* The node and the network *)

(* The reader is in its loop: it waits for a message, or answers a ping.   *)
Subscribed == loop \in {"listen", "pong"}

(* The next transaction executes; the node notifies who is subscribed.     *)
Execute ==
  /\ executed < Len(LogsOf)
  /\ executed' = executed + 1
  /\ inbox' = IF socket = "open" /\ Subscribed THEN Append(inbox, executed + 1)
                                                ELSE inbox
  /\ UNCHANGED <<socket, breaks, repeats, loopVars, msgVars, chanVars>>

(* The node notifies of a transaction again. *)
Repeat(t) ==
  /\ socket = "open" /\ Subscribed /\ repeats < MaxRepeats
  /\ t \in processed_signatures \/ \E i \in 1..Len(inbox) : inbox[i] = t
  /\ inbox' = Append(inbox, t) /\ repeats' = repeats + 1
  /\ UNCHANGED <<executed, socket, breaks, loopVars, msgVars, chanVars>>

(* The connection breaks.  The reader still gets the first n messages, and *)
(* then the end of the stream, unless nobody tells it (silent).            *)
Break(how, n) ==
  /\ socket = "open" /\ breaks < MaxBreaks
  /\ socket' = how /\ breaks' = breaks + 1
  /\ inbox' = SubSeq(inbox, 1, n)
  /\ UNCHANGED <<executed, repeats, loopVars, msgVars, chanVars>>

-----------------------------------------------------------------------------
(* connection_loop and connect_and_listen *)

Connecting ==
  /\ loop = "start"
  /\ connection_state' = "Connecting" /\ loop' = "connect"
  /\ UNCHANGED <<reconnect_attempts, ping, netVars, msgVars, chanVars>>

ConnectOk ==
  /\ loop = "connect"
  /\ connection_state' = "Connected" /\ loop' = "subscribe"
  /\ socket' = "open" /\ inbox' = <<>>
  /\ UNCHANGED <<executed, breaks, repeats, reconnect_attempts, ping, msgVars, chanVars>>

(* Faulty variants (named ..Faulty..) are not part of the specification: each *)
(* is a slip a property must notice.  Here: one failure too few before the *)
(* loop gives up, and failures that are not counted.                       *)
RetryFaultyLimit ==
  /\ socket' = "none" /\ inbox' = <<>>
  /\ reconnect_attempts' = reconnect_attempts + 1
  /\ IF reconnect_attempts + 1 >= MaxReconnect
       THEN connection_state' = "Disconnected" /\ loop' = "ended"
       ELSE connection_state' = "Reconnecting" /\ loop' = "sleep"
  /\ UNCHANGED <<executed, breaks, repeats, ping, msgVars, chanVars>>
RetryFaultyCount ==
  /\ socket' = "none" /\ inbox' = <<>>
  /\ connection_state' = "Reconnecting" /\ loop' = "sleep"
  /\ UNCHANGED <<executed, breaks, repeats, reconnect_attempts, ping, msgVars, chanVars>>

(* connect_and_listen ends with an error: back off, or give up for good.   *)
Retry ==
  /\ socket' = "none" /\ inbox' = <<>>
  /\ reconnect_attempts' = reconnect_attempts + 1
  /\ IF reconnect_attempts + 1 > MaxReconnect
       THEN connection_state' = "Disconnected" /\ loop' = "ended"
       ELSE connection_state' = "Reconnecting" /\ loop' = "sleep"
  /\ UNCHANGED <<executed, breaks, repeats, ping, msgVars, chanVars>>

ConnectErr == loop = "connect" /\ Retry
SubscribeErr == loop = "subscribe" /\ socket # "open" /\ Retry

SubscribeOk ==
  /\ loop = "subscribe" /\ socket # "closed"
  /\ loop' = "listen" /\ ping' = [alive |-> TRUE, failures |-> 0]
  /\ UNCHANGED <<connection_state, reconnect_attempts, netVars, msgVars, chanVars>>

SleepOver ==
  /\ loop = "sleep" /\ loop' = "start"
  /\ UNCHANGED <<connection_state, reconnect_attempts, ping, netVars, msgVars, chanVars>>

Idle == fetching = 0 /\ pending = <<>>

(* connect_and_listen returns Ok, whatever it left its loop for.           *)
Leave ==
  /\ socket' = "none" /\ inbox' = <<>>
  /\ loop' = "start" /\ reconnect_attempts' = 0 /\ ping' = NoPing
  /\ UNCHANGED <<executed, breaks, repeats, connection_state, msgVars, chanVars>>

StreamEnds == loop = "listen" /\ Idle /\ socket = "closed" /\ inbox = <<>> /\ Leave

(* The node pings, and the reader answers before it reads on.              *)
NodePings ==
  /\ loop = "listen" /\ Idle /\ socket = "open" /\ repeats < MaxRepeats
  /\ loop' = "pong" /\ repeats' = repeats + 1
  /\ UNCHANGED <<executed, socket, inbox, breaks>>
  /\ UNCHANGED <<connection_state, reconnect_attempts, ping, msgVars, chanVars>>

PongSent ==
  /\ loop = "pong" /\ loop' = "listen"
  /\ UNCHANGED <<connection_state, reconnect_attempts, ping, netVars, msgVars, chanVars>>

PongErr == loop = "pong" /\ socket # "open" /\ Leave

(* The ping task.  After MaxPingFailures it ends, and tells nobody.        *)
PingOk ==
  /\ ping.alive /\ socket = "open"
  /\ ping' = [ping EXCEPT !.failures = 0]
  /\ UNCHANGED <<loop, connection_state, reconnect_attempts, netVars, msgVars, chanVars>>

PingErrFaulty ==   \* the task never ends
  /\ ping.alive /\ socket # "open"
  /\ ping' = [alive |-> TRUE, failures |-> ping.failures + 1]
  /\ UNCHANGED <<loop, connection_state, reconnect_attempts, netVars, msgVars, chanVars>>
PingErr ==
  /\ ping.alive /\ socket # "open"
  /\ ping' = [alive |-> ping.failures + 1 < MaxPingFailures, failures |-> ping.failures + 1]
  /\ UNCHANGED <<loop, connection_state, reconnect_attempts, netVars, msgVars, chanVars>>

-----------------------------------------------------------------------------
(* handle_websocket_message *)

(* The events at the given lines of t, in the order of the lines. *)
Nth(S, i) == CHOOSE n \in S : Cardinality({m \in S : m <= n}) = i
EventsAt(t, S) == [i \in 1..Cardinality(S) |-> <<t, Nth(S, i)>>]

ShownLogs(t) == SubSeq(LogsOf[t], 1, ShownOf[t])

(* What the parser finds in the notification and in the whole transaction  *)
ShownEvents == [t \in Txs |-> EventLines(ShownLogs(t))]
AllEvents == [t \in Txs |-> EventLines(LogsOf[t])]

(* Of the transaction's events, those no event found before is equal to.   *)
MergedEvents ==
  [t \in Txs |-> ShownEvents[t] \cup
     {n \in AllEvents[t] : \A m \in ShownEvents[t] \cup AllEvents[t] :
        m < n \/ m \in ShownEvents[t] => LogsOf[t][m].key # LogsOf[t][n].key}]

Nested(t) == \E n \in 1..ShownOf[t] :
               LogsOf[t][n].op = "invoke" /\ LogsOf[t][n].depth \in 2..4

SkipsFaulty(t) == t \in Failed /\ ~ProcessFailed   \* repeats are not noticed
Skips(t) == (t \in Failed /\ ~ProcessFailed) \/ t \in processed_signatures

(* The signature is recorded before anything else is done with it.         *)
ReadMessage ==
  LET t == Head(inbox)
  IN /\ loop = "listen" /\ Idle /\ inbox # <<>>
     /\ inbox' = Tail(inbox)
     /\ IF Skips(t)
          THEN UNCHANGED msgVars
          ELSE /\ processed_signatures' = processed_signatures \cup {t}
               /\ IF Nested(t) THEN fetching' = t /\ pending' = pending
                                  ELSE fetching' = 0 /\ pending' = EventsAt(t, ShownEvents[t])
     /\ UNCHANGED <<executed, socket, breaks, repeats, loopVars, chanVars>>

(* get_transaction_with_logs answers with the transaction, or with nothing. *)
FetchOk ==
  /\ fetching # 0
  /\ pending' = EventsAt(fetching, MergedEvents[fetching]) /\ fetching' = 0
  /\ UNCHANGED <<processed_signatures, netVars, loopVars, chanVars>>

FetchNothing ==
  /\ fetching # 0
  /\ pending' = EventsAt(fetching, ShownEvents[fetching]) /\ fetching' = 0
  /\ UNCHANGED <<processed_signatures, netVars, loopVars, chanVars>>

(* A full channel overwrites its oldest event. *)
BroadcastFaulty ==   \* a slip a property must notice: it refuses the newest
  /\ pending # <<>>
  /\ pending' = Tail(pending)
  /\ IF Len(channel) < Capacity
       THEN channel' = Append(channel, Head(pending)) /\ UNCHANGED <<skipped, lost>>
       ELSE /\ skipped' = skipped + 1 /\ lost' = lost \cup {Head(pending)}
            /\ UNCHANGED channel
  /\ UNCHANGED <<processed_signatures, fetching, handled, netVars, loopVars>>
Broadcast ==
  /\ pending # <<>>
  /\ pending' = Tail(pending)
  /\ IF Len(channel) < Capacity
       THEN channel' = Append(channel, Head(pending)) /\ UNCHANGED <<skipped, lost>>
       ELSE /\ channel' = Append(Tail(channel), Head(pending))
            /\ skipped' = skipped + 1 /\ lost' = lost \cup {Head(channel)}
  /\ UNCHANGED <<processed_signatures, fetching, handled, netVars, loopVars>>

-----------------------------------------------------------------------------
(* The event processor: it hears once of the events it missed, and goes on. *)
LaggedFaulty ==   \* the processor does not go on
  /\ skipped > 0 /\ UNCHANGED vars
Lagged ==
  /\ skipped > 0 /\ skipped' = 0
  /\ UNCHANGED <<channel, lost, handled, netVars, loopVars, msgVars>>

HandleEvent ==
  /\ skipped = 0 /\ channel # <<>>
  /\ handled' = Append(handled, Head(channel)) /\ channel' = Tail(channel)
  /\ UNCHANGED <<skipped, lost, netVars, loopVars, msgVars>>

-----------------------------------------------------------------------------
Loop == Connecting \/ ConnectOk \/ ConnectErr \/ SubscribeErr \/ SubscribeOk
        \/ SleepOver \/ StreamEnds \/ NodePings \/ PongSent \/ PongErr
Message == ReadMessage \/ FetchOk \/ FetchNothing \/ Broadcast
Processor == Lagged \/ HandleEvent

Next ==
  \/ Execute
  \/ \E t \in Txs : Repeat(t)
  \/ \E how \in {"closed", "silent"}, n \in 0..Len(inbox) : Break(how, n)
  \/ Loop \/ PingOk \/ PingErr \/ Message \/ Processor

Spec == Init /\ [][Next]_vars

(* The tasks are polled when they are ready, and a sleep ends.  Nothing is *)
(* assumed of the awaits the code puts no limit to: connecting, sending the *)
(* subscription or a pong, and the fetch, which first waits for the lock of *)
(* the RPC client.                                                         *)
FairSpec ==
  /\ Spec
  /\ WF_vars(Connecting \/ SleepOver \/ StreamEnds)
  /\ WF_vars(ReadMessage \/ Broadcast)
  /\ WF_vars(Processor)

-----------------------------------------------------------------------------
(* Types of every variable. *)
TypeOK ==
  /\ executed \in 0..Len(LogsOf) /\ inbox \in Seq(Txs)
  /\ socket \in {"none", "open", "silent", "closed"}
  /\ loop \in {"start", "connect", "subscribe", "listen", "pong", "sleep", "ended"}
  /\ connection_state \in {"Disconnected", "Connecting", "Connected", "Reconnecting"}
  /\ reconnect_attempts \in Nat
  /\ ping \in [alive : BOOLEAN, failures : 0..MaxPingFailures]
  /\ processed_signatures \subseteq Txs /\ fetching \in {0} \cup Txs
  /\ pending \in Seq(Events) /\ channel \in Seq(Events) /\ handled \in Seq(Events)
  /\ skipped \in Nat /\ lost \subseteq Events
  /\ breaks \in 0..MaxBreaks /\ repeats \in 0..MaxRepeats

Precedes(e, f) == e[1] < f[1] \/ (e[1] = f[1] /\ e[2] < f[2])

(* The handler gets the events in the order of the chain and none twice,   *)
(* however often the node notifies of a transaction, and although an event *)
(* may be found both in the notification and in the fetched transaction.   *)
HandledInOrder ==
  \A i, j \in 1..Len(handled) : i < j => Precedes(handled[i], handled[j])

(* What the proofs ask of the transactions: their lines nest, and only the *)
(* target program writes data that decodes to an event.                    *)
LogsNest == \A t \in Txs : WellNested(LogsOf[t])
OnlyTargetDecodes ==
  \A t \in Txs : \A n \in 1..Len(LogsOf[t]) :
    LogsOf[t][n].op = "data" /\ LogsOf[t][n].key # NoKey => LogsOf[t][n].prog = Target

In(e, s) == \E i \in 1..Len(s) : s[i] = e

(* Every event of the program that a notification shows, once it was read, *)
(* is on its way, handled, or one the processor lagged behind: neither the *)
(* parser nor the handling of the notification drops it.                   *)
ReadEventsAccounted ==
  \A e \in Events :
    e[1] \in processed_signatures /\ fetching # e[1] /\ e[2] <= ShownOf[e[1]] =>
      In(e, pending) \/ In(e, channel) \/ In(e, handled) \/ e \in lost

(* A transaction may be published as any part of the events it emitted, in *)
(* their order, that has all those the notification shows.                 *)
Wanted == {t \in Txs : t \notin Failed \/ ProcessFailed}
Emissions ==
  [t \in Txs |-> {EventsAt(t, S) : S \in
     {R \in SUBSET EmittedLines(LogsOf[t]) : EmittedLines(LogsOf[t]) \cap 1..ShownOf[t] \subseteq R}}]
ToHandler ==
  INSTANCE Feed WITH
    Transactions <- Wanted, Yields <- Emissions,
    published <- processed_signatures \ {fetching}, backlog <- channel \o pending,
    dropped <- lost, unreported <- skipped, delivered <- handled

(* Breaks, repeats, fetches and the stop-and-go of broadcasting come to one *)
(* feed: of each transaction taken in, at once, an ordered part of its     *)
(* events with all those shown; the oldest dropped, only when too many      *)
(* wait, and never without a word before the next delivery.                *)
ImplementsFeed == ToHandler!Spec

(* The loop counts failures in a row up to the one that exceeds the limit; *)
(* it ends exactly then, and only then reports Disconnected for good.      *)
GivesUpAtLimit ==
  /\ reconnect_attempts <= MaxReconnect + 1
  /\ loop = "ended" <=> reconnect_attempts = MaxReconnect + 1
  /\ loop = "ended" => connection_state = "Disconnected" /\ ~ping.alive

(* One of the awaits without a limit never ends. *)
HangsInLoop == \E await \in {"connect", "subscribe", "pong"} : [](loop = await)
HangsInFetch(T) == [](fetching \in T)

(* Whatever happens to the connections, the loop ends up listening, or     *)
(* having given up: a stream that ends is followed by a new connection.    *)
(* Only an await the code puts no limit to can keep it from that.          *)
ListensOrGivesUp ==
  loop # "listen" \/ socket = "closed" ~>
    \/ loop = "listen" /\ socket # "closed"
    \/ loop = "ended"
    \/ HangsInLoop \/ HangsInFetch(Txs)

(* Each event the notification of a read transaction shows reaches the     *)
(* handler, unless the channel overwrote it, or the fetch for that same    *)
(* transaction never ends: then its events stay with the reader.           *)
ReadEventsHandled ==
  \A e \in Events :
    e[1] \in processed_signatures /\ e[2] <= ShownOf[e[1]] ~>
      In(e, handled) \/ e \in lost \/ HangsInFetch({e[1]})
=============================================================================
