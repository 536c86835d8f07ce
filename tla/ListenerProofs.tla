--------------------------- MODULE ListenerProofs ---------------------------
(***************************************************************************)
(* Theorems about Listener and the parser it contains, for any transactions *)
(* and any channel.                                                        *)
(***************************************************************************)
EXTENDS Listener, Induction, SequenceTheorems

-----------------------------------------------------------------------------
(* The parser's state and the calls under way, line by line *)

ParserState == [stack : Seq(STRING), in_target : BOOLEAN]
Start == [stack |-> <<>>, in_target |-> FALSE]

LEMMA StepType ==
  ASSUME NEW s \in ParserState, NEW line \in LogLine
  PROVE  Step(s, line) \in ParserState
<1>1. /\ s.stack \in Seq(STRING) /\ s.in_target \in BOOLEAN /\ s = [stack |-> s.stack, in_target |-> s.in_target]
      /\ line.prog \in STRING
  BY DEF ParserState, LogLine
<1>2. Append(s.stack, line.prog) \in Seq(STRING)
  BY <1>1
<1>3. s.stack # <<>> => SubSeq(s.stack, 1, Len(s.stack) - 1) \in Seq(STRING)
  BY <1>1
<1>4. Push(s, line.prog) \in ParserState
  BY <1>1, <1>2 DEF Push, ParserState
<1>5. s.stack # <<>> => Pop(s) \in ParserState
  BY <1>3 DEF Pop, ParserState, OnStack
<1>. QED  BY <1>4, <1>5 DEF Step

(* States is the function its definition says it is. *)
LEMMA StatesAre ==
  ASSUME NEW logs \in Seq(LogLine)
  PROVE  /\ States(logs) \in [0..Len(logs) -> ParserState]
         /\ States(logs)[0] = Start
         /\ \A n \in 1..Len(logs) : States(logs)[n] = Step(States(logs)[n - 1], logs[n])
<1>. DEFINE L == Len(logs)
            F(g) == [n \in 0..L |-> IF n = 0 THEN Start ELSE Step(g[n - 1], logs[n])]
            G == [n \in 1..L |-> [s \in ParserState |-> Step(s, logs[n])]]
<1>1. L \in Nat /\ \A n \in 1..L : logs[n] \in LogLine
  OBVIOUS
<1>2. /\ \A n \in 1..L : \A s \in ParserState : G[n][s] = Step(s, logs[n])
      /\ \A n \in 1..L : \A s \in ParserState : G[n][s] \in ParserState
      /\ Start \in ParserState
  <2>1. \A n \in 1..L : \A s \in ParserState : Step(s, logs[n]) \in ParserState
    BY <1>1, StepType
  <2>2. Start \in ParserState  BY DEF Start, ParserState
  <2>. QED  BY <2>1, <2>2
<1>3. \E f \in [0..L -> ParserState] : Follows(f, L, Start, G)
  <2>. HIDE DEF G, L
  <2>. QED  BY <1>1, <1>2, StepsExist
<1>4. PICK f \in [0..L -> ParserState] :
        f[0] = Start /\ \A n \in 1..L : f[n] = Step(f[n - 1], logs[n])
  <2>1. PICK f \in [0..L -> ParserState] : Follows(f, L, Start, G)
    BY <1>3
  <2>2. ASSUME NEW n \in 1..L PROVE f[n] = Step(f[n - 1], logs[n])
    <3>1. n - 1 \in 0..L  BY <1>1
    <3>2. f[n - 1] \in ParserState  BY <3>1
    <3>3. f[n] = G[n][f[n - 1]]  BY <2>1 DEF Follows
    <3>. HIDE DEF G, L
    <3>. QED  BY <1>2, <3>2, <3>3
  <2>. QED  BY <2>1, <2>2 DEF Follows
<1>5. f = F(f)
  BY <1>1, <1>4
<1>6. States(logs) = CHOOSE g : g = F(g)
  BY DEF States, Start
<1>7. States(logs) = F(States(logs))
  <2>. HIDE DEF F
  <2>. QED  BY <1>5, <1>6
<1>. DEFINE S == States(logs)
<1>8. DOMAIN S = 0..L /\ S[0] = Start /\ \A n \in 1..L : S[n] = Step(S[n - 1], logs[n])
  <2>. HIDE DEF S
  <2>1. S = F(S)  BY <1>7 DEF S
  <2>. QED  BY <1>1, <2>1
<1>9. 0..L \subseteq {n \in 0..L : S[n] \in ParserState}
  <2>. DEFINE T == {n \in 0..L : S[n] \in ParserState}
  <2>. HIDE DEF S
  <2>1. 0 \in T  BY <1>1, <1>2, <1>8
  <2>2. ASSUME NEW n \in 1..L, n - 1 \in T PROVE n \in T
    BY <1>1, <1>8, <2>2, StepType
  <2>. HIDE DEF T, L
  <2>. QED  BY <1>1, <2>1, <2>2, UpTo DEF T
<1>10. S = F(S)  BY <1>7
<1>. HIDE DEF S
<1>11. S \in [0..L -> ParserState]  BY <1>9, <1>10
<1>. QED  BY <1>8, <1>11 DEF S

(* Likewise Calls. *)
LEMMA CallsAre ==
  ASSUME NEW logs \in Seq(LogLine)
  PROVE  /\ Calls(logs) \in [0..Len(logs) -> Seq(STRING)]
         /\ Calls(logs)[0] = <<>>
         /\ \A n \in 1..Len(logs) : Calls(logs)[n] = CallsAfter(Calls(logs)[n - 1], logs[n])
<1>. DEFINE L == Len(logs)  P == Seq(STRING)
            F(g) == [n \in 0..L |-> IF n = 0 THEN <<>> ELSE CallsAfter(g[n - 1], logs[n])]
            G == [n \in 1..L |-> [s \in P |-> CallsAfter(s, logs[n])]]
<1>1. L \in Nat /\ \A n \in 1..L : logs[n] \in LogLine
  OBVIOUS
<1>2. /\ \A n \in 1..L : \A s \in P : CallsAfter(s, logs[n]) \in P
      /\ <<>> \in P
  <2>1. ASSUME NEW n \in 1..L, NEW s \in P PROVE CallsAfter(s, logs[n]) \in P
    <3>1. logs[n].prog \in STRING  BY <1>1 DEF LogLine
    <3>2. Append(s, logs[n].prog) \in P  BY <3>1
    <3>3. s # <<>> => SubSeq(s, 1, Len(s) - 1) \in P  OBVIOUS
    <3>. QED  BY <3>2, <3>3 DEF CallsAfter
  <2>. QED  BY <2>1
<1>3. /\ \A n \in 1..L : \A s \in P : G[n][s] = CallsAfter(s, logs[n])
      /\ \A n \in 1..L : \A s \in P : G[n][s] \in P
  BY <1>1, <1>2
<1>4. \E f \in [0..L -> P] : Follows(f, L, <<>>, G)
  <2>. HIDE DEF G, L, P
  <2>. QED  BY <1>1, <1>2, <1>3, StepsExist
<1>5. PICK f \in [0..L -> P] :
        f[0] = <<>> /\ \A n \in 1..L : f[n] = CallsAfter(f[n - 1], logs[n])
  <2>1. PICK f \in [0..L -> P] : Follows(f, L, <<>>, G)
    BY <1>4
  <2>2. ASSUME NEW n \in 1..L PROVE f[n] = CallsAfter(f[n - 1], logs[n])
    <3>1. n - 1 \in 0..L  BY <1>1
    <3>2. f[n - 1] \in P  BY <3>1
    <3>3. f[n] = G[n][f[n - 1]]  BY <2>1 DEF Follows
    <3>. HIDE DEF G, L, P
    <3>. QED  BY <1>3, <3>2, <3>3
  <2>. QED  BY <2>1, <2>2 DEF Follows
<1>6. f = F(f)
  BY <1>1, <1>5
<1>7. Calls(logs) = CHOOSE g : g = F(g)
  BY DEF Calls
<1>. DEFINE C == Calls(logs)
<1>8. C = F(C)
  <2>. HIDE DEF F
  <2>. QED  BY <1>6, <1>7
<1>. HIDE DEF C
<1>9. C[0] = <<>> /\ \A n \in 1..L : C[n] = CallsAfter(C[n - 1], logs[n])
  BY <1>1, <1>8
<1>10. 0..L \subseteq {n \in 0..L : C[n] \in P}
  <2>. DEFINE T == {n \in 0..L : C[n] \in P}
  <2>. HIDE DEF P
  <2>1. 0 \in T  BY <1>1, <1>2, <1>9
  <2>2. ASSUME NEW n \in 1..L, n - 1 \in T PROVE n \in T
    BY <1>1, <1>2, <1>9, <2>2
  <2>. HIDE DEF T, L
  <2>. QED  BY <1>1, <2>1, <2>2, UpTo DEF T
<1>11. C \in [0..L -> P]
  <2>1. DOMAIN C = 0..L /\ C = [n \in 0..L |-> C[n]]  BY <1>8
  <2>2. \A n \in 0..L : C[n] \in P  BY <1>10
  <2>. HIDE DEF P, L
  <2>. QED  BY <2>1, <2>2
<1>. QED  BY <1>9, <1>11 DEF C

-----------------------------------------------------------------------------
(* What the parser finds *)

(* In well-nested logs the parser's stack is the calls under way, and it is *)
(* in the target while a call of the target is among them.                 *)
LEMMA ParserFollowsCalls ==
  ASSUME NEW logs \in Seq(LogLine), WellNested(logs), NEW n \in 0..Len(logs)
  PROVE  /\ States(logs)[n].stack = Calls(logs)[n]
         /\ (States(logs)[n].in_target <=> OnStack(Target, Calls(logs)[n]))
<1>. DEFINE L == Len(logs)  S == States(logs)  C == Calls(logs)
            T == {k \in 0..L : S[k].stack = C[k] /\ (S[k].in_target <=> OnStack(Target, C[k]))}
<1>1. L \in Nat /\ \A k \in 1..L : logs[k] \in LogLine
  OBVIOUS
<1>2. /\ S[0] = Start /\ \A k \in 1..L : S[k] = Step(S[k - 1], logs[k])
      /\ S \in [0..L -> ParserState]
  BY StatesAre
<1>3. /\ C[0] = <<>> /\ \A k \in 1..L : C[k] = CallsAfter(C[k - 1], logs[k])
      /\ C \in [0..L -> Seq(STRING)]
  BY CallsAre
<1>4. \A k \in 1..L :
        /\ logs[k].op # "invoke" => (logs[k].endish <=> logs[k].op = "exit")
        /\ logs[k].op \in {"exit", "data"} =>
             C[k - 1] # <<>> /\ C[k - 1][Len(C[k - 1])] = logs[k].prog
  BY DEF WellNested
<1>. HIDE DEF L, S, C
<1>5. 0 \in T
  <2>1. Start.stack = <<>> /\ ~Start.in_target  BY DEF Start
  <2>2. ~OnStack(Target, <<>>)  BY DEF OnStack
  <2>. QED  BY <1>1, <1>2, <1>3, <2>1, <2>2
<1>6. ASSUME NEW k \in 1..L, k - 1 \in T PROVE k \in T
  <2>. DEFINE s == S[k - 1]  c == C[k - 1]  line == logs[k]
  <2>1. /\ s.stack = c /\ (s.in_target <=> OnStack(Target, c)) /\ k - 1 \in 0..L
        /\ S[k] = Step(s, line) /\ C[k] = CallsAfter(c, line) /\ k \in 0..L
    BY <1>1, <1>2, <1>3, <1>6
  <2>2. c \in Seq(STRING) /\ line \in LogLine /\ line.prog \in STRING
    BY <1>1, <1>3, <2>1 DEF LogLine
  <2>3. /\ line.op # "invoke" => (line.endish <=> line.op = "exit")
        /\ line.op = "exit" => c # <<>>
    BY <1>4
  <2>. HIDE DEF s, c, line
  <2>4. CASE line.op = "invoke"
    <3>1. C[k] = Append(c, line.prog) /\ S[k] = Push(s, line.prog)
      BY <2>1, <2>4 DEF CallsAfter, Step
    <3>2. OnStack(Target, Append(c, line.prog)) <=> OnStack(Target, c) \/ line.prog = Target
      <4>1. /\ Len(Append(c, line.prog)) = Len(c) + 1 /\ Len(c) \in Nat
            /\ \A i \in 1..Len(c) : Append(c, line.prog)[i] = c[i]
            /\ Append(c, line.prog)[Len(c) + 1] = line.prog
        BY <2>2
      <4>. QED  BY <4>1 DEF OnStack
    <3>3. /\ Push(s, line.prog).stack = Append(s.stack, line.prog)
          /\ Push(s, line.prog).in_target <=> s.in_target \/ line.prog = Target
      BY DEF Push
    <3>. QED  BY <2>1, <3>1, <3>2, <3>3
  <2>5. CASE line.op = "exit"
    <3>1. C[k] = SubSeq(c, 1, Len(c) - 1) /\ S[k] = Pop(s)
      BY <2>1, <2>3, <2>5 DEF CallsAfter, Step
    <3>2. /\ Pop(s).stack = SubSeq(s.stack, 1, Len(s.stack) - 1)
          /\ Pop(s).in_target <=> OnStack(Target, SubSeq(s.stack, 1, Len(s.stack) - 1))
      BY DEF Pop
    <3>. QED  BY <2>1, <3>1, <3>2
  <2>6. CASE line.op \notin {"invoke", "exit"}
    <3>1. C[k] = c /\ S[k] = s
      BY <2>1, <2>3, <2>6 DEF CallsAfter, Step
    <3>. QED  BY <2>1, <3>1
  <2>. QED  BY <2>4, <2>5, <2>6
<1>7. 0..L \subseteq T
  <2>. HIDE DEF T
  <2>. QED  BY <1>1, <1>5, <1>6, UpTo
<1>8. n \in T  BY <1>7 DEF L
<1>. QED  BY <1>8 DEF S, C

(* In well-nested logs the parser makes events of the data lines that      *)
(* decode to one and are written while a call of the target is under way:  *)
(* those the target wrote, and those of the programs it called.            *)
THEOREM ParserFinds ==
  ASSUME NEW logs \in Seq(LogLine), WellNested(logs)
  PROVE  /\ EventLines(logs) = {n \in 1..Len(logs) :
                /\ logs[n].op = "data" /\ logs[n].key # NoKey
                /\ OnStack(Target, Calls(logs)[n])}
         /\ \A n \in EmittedLines(logs) : logs[n].key # NoKey => n \in EventLines(logs)
<1>1. Len(logs) \in Nat  OBVIOUS
<1>2. \A n \in 1..Len(logs) : (States(logs)[n].in_target <=> OnStack(Target, Calls(logs)[n]))
  BY <1>1, ParserFollowsCalls
<1>3. EventLines(logs) = {n \in 1..Len(logs) :
         /\ logs[n].op = "data" /\ logs[n].key # NoKey
         /\ OnStack(Target, Calls(logs)[n])}
  BY <1>2 DEF EventLines
<1>4. ASSUME NEW n \in EmittedLines(logs) PROVE OnStack(Target, Calls(logs)[n])
  <2>. DEFINE c == Calls(logs)[n - 1]
  <2>1. n \in 1..Len(logs) /\ logs[n].op = "data" /\ logs[n].prog = Target
    BY DEF EmittedLines
  <2>2. c # <<>> /\ c[Len(c)] = Target
    BY <2>1 DEF WellNested
  <2>3. Calls(logs)[n] = c /\ c \in Seq(STRING)
    BY <1>1, <2>1, CallsAre DEF CallsAfter
  <2>. HIDE DEF c
  <2>4. Len(c) \in 1..Len(c)  BY <2>2, <2>3
  <2>. QED  BY <2>2, <2>3, <2>4 DEF OnStack
<1>5. EmittedLines(logs) \subseteq {n \in 1..Len(logs) : logs[n].op = "data"}
  BY DEF EmittedLines
<1>. QED  BY <1>3, <1>4, <1>5

(* The parser finds in the first k lines what it finds there in all.       *)
LEMMA PartFinds ==
  ASSUME NEW logs \in Seq(LogLine), NEW k \in 0..Len(logs)
  PROVE  EventLines(SubSeq(logs, 1, k)) = EventLines(logs) \cap 1..k
<1>. DEFINE part == SubSeq(logs, 1, k)  S == States(logs)  R == States(part)
            T == {n \in 0..k : R[n] = S[n]}
<1>1. Len(logs) \in Nat /\ k \in Nat  OBVIOUS
<1>2. part \in Seq(LogLine) /\ Len(part) = k /\ \A n \in 1..k : part[n] = logs[n]
  BY <1>1
<1>. HIDE DEF part
<1>3. S[0] = Start /\ \A n \in 1..Len(logs) : S[n] = Step(S[n - 1], logs[n])
  BY StatesAre
<1>4. R[0] = Start /\ \A n \in 1..k : R[n] = Step(R[n - 1], part[n])
  BY <1>2, StatesAre
<1>. HIDE DEF S, R
<1>5. 0 \in T  BY <1>1, <1>3, <1>4
<1>6. ASSUME NEW n \in 1..k, n - 1 \in T PROVE n \in T
  <2>1. n \in 1..Len(logs)  BY <1>1
  <2>. QED  BY <1>2, <1>3, <1>4, <1>6, <2>1
<1>7. 0..k \subseteq T
  <2>. HIDE DEF T
  <2>. QED  BY <1>1, <1>5, <1>6, UpTo
<1>8. \A n \in 1..k : States(part)[n] = States(logs)[n]  BY <1>1, <1>7 DEF S, R
<1>. QED  BY <1>1, <1>2, <1>8 DEF EventLines, part

-----------------------------------------------------------------------------
(* The connection loop *)

LoopInv ==
  /\ reconnect_attempts \in 0..MaxReconnect + 1
  /\ loop = "ended" <=> reconnect_attempts = MaxReconnect + 1
  /\ loop = "ended" => connection_state = "Disconnected"
  /\ ~Subscribed => ping.alive = FALSE

(* The connection loop counts failures in a row and ends exactly when they *)
(* exceed the limit; no ping task outlives its connection.                 *)
THEOREM GivesUp == Spec => []GivesUpAtLimit
<1>1. Init => LoopInv
  BY ListenerAssumption DEF Init, LoopInv, NoPing, Subscribed
<1>2. LoopInv /\ [Next]_vars => LoopInv'
  <2>. SUFFICES ASSUME LoopInv, [Next]_vars PROVE LoopInv'
    OBVIOUS
  <2>. USE ListenerAssumption DEF LoopInv, Subscribed
  <2>1. CASE Execute
    BY <2>1 DEF Execute, loopVars
  <2>2. ASSUME NEW t \in Txs, Repeat(t) PROVE LoopInv'
    BY <2>2 DEF Repeat, loopVars
  <2>3. ASSUME NEW how \in {"closed", "silent"}, NEW n \in 0..Len(inbox), Break(how, n)
        PROVE LoopInv'
    BY <2>3 DEF Break, loopVars
  <2>4. CASE Connecting \/ ConnectOk \/ SubscribeOk \/ SleepOver
    BY <2>4 DEF Connecting, ConnectOk, SubscribeOk, SleepOver
  <2>5. CASE ConnectErr \/ SubscribeErr
    BY <2>5 DEF ConnectErr, SubscribeErr, Retry
  <2>6. CASE StreamEnds \/ PongErr
    BY <2>6 DEF StreamEnds, PongErr, Leave, NoPing
  <2>10. CASE NodePings \/ PongSent
    BY <2>10 DEF NodePings, PongSent
  <2>7. CASE PingOk \/ PingErr
    BY <2>7 DEF PingOk, PingErr
  <2>8. CASE Message \/ Processor
    BY <2>8 DEF Message, ReadMessage, FetchOk, FetchNothing, Broadcast, Processor, Lagged,
                HandleEvent, loopVars
  <2>9. CASE UNCHANGED vars
    BY <2>9 DEF vars, loopVars
  <2>. QED  BY <2>1, <2>2, <2>3, <2>4, <2>5, <2>6, <2>7, <2>8, <2>9, <2>10 DEF Next, Loop
<1>3. LoopInv => GivesUpAtLimit
  BY ListenerAssumption DEF LoopInv, GivesUpAtLimit, Subscribed
<1>. QED  BY <1>1, <1>2, <1>3, PTL DEF Spec

-----------------------------------------------------------------------------
(* The order of the events *)

Mark == Nat \X Nat
Ordered(s) == \A i, j \in 1..Len(s) : i < j => Precedes(s[i], s[j])
Before(s, r) == \A i \in 1..Len(s), j \in 1..Len(r) : Precedes(s[i], r[j])
Of(s, T) == \A i \in 1..Len(s) : s[i][1] \in T

(* A notification that will be handled when its turn comes: not of a       *)
(* transaction ignored, not read before, and the first of its transaction. *)
Ignored(t) == t \in Failed /\ ~ProcessFailed
Fresh(box, done, i) ==
  /\ ~Ignored(box[i]) /\ box[i] \notin done
  /\ \A k \in 1..Len(box) : k < i => box[k] # box[i]
Later(box, done, i) ==
  /\ \A p \in done : p < box[i]
  /\ \A k \in 1..Len(box) : k < i => box[k] < box[i]
FreshAreLater(box, done) ==
  \A i \in 1..Len(box) : Fresh(box, done, i) => Later(box, done, i)

InboxInv ==
  /\ executed \in Nat /\ inbox \in Seq(Nat) /\ processed_signatures \in SUBSET Nat
  /\ \A p \in processed_signatures : p <= executed
  /\ \A i \in 1..Len(inbox) : inbox[i] \in Txs /\ inbox[i] <= executed
  /\ FreshAreLater(inbox, processed_signatures)

FlowInv ==
  /\ handled \in Seq(Mark) /\ channel \in Seq(Mark) /\ pending \in Seq(Mark)
  /\ Ordered(handled) /\ Ordered(channel) /\ Ordered(pending)
  /\ Before(handled, channel) /\ Before(handled, pending) /\ Before(channel, pending)
  /\ Of(handled, processed_signatures) /\ Of(channel, processed_signatures)
  /\ Of(pending, processed_signatures)
  /\ fetching # 0 =>
       /\ fetching \in processed_signatures /\ fetching \in Txs /\ pending = <<>>
       /\ \A i \in 1..Len(handled) : handled[i][1] < fetching
       /\ \A i \in 1..Len(channel) : channel[i][1] < fetching

(* The notifications of transactions not read yet come in the order of the *)
(* chain: repeats and failures between them change nothing.                *)
LEMMA InboxStep == InboxInv /\ [Next]_vars => InboxInv'
<1>. SUFFICES ASSUME InboxInv, [Next]_vars PROVE InboxInv'
  OBVIOUS
<1>0. Txs \subseteq Nat  BY ListenerAssumption DEF Txs
<1>. DEFINE done == processed_signatures
<1>i. /\ executed \in Nat /\ inbox \in Seq(Nat) /\ done \in SUBSET Nat /\ Len(inbox) \in Nat
      /\ \A p \in done : p <= executed
      /\ \A i \in 1..Len(inbox) : inbox[i] \in Txs /\ inbox[i] \in Nat /\ inbox[i] <= executed
      /\ \A i \in 1..Len(inbox) : Fresh(inbox, done, i) => Later(inbox, done, i)
  BY <1>0 DEF InboxInv, FreshAreLater
<1>p. ASSUME executed' = executed, inbox' = inbox, done' = done PROVE InboxInv'
  BY <1>p DEF InboxInv, FreshAreLater, Fresh, Later
<1>1. CASE Execute
  <2>1. executed + 1 \in Txs /\ executed' = executed + 1 /\ done' = done
    BY <1>1, <1>i, ListenerAssumption DEF Execute, Txs, msgVars
  <2>2. CASE inbox' = inbox
    <3>1. FreshAreLater(inbox, done)'
      BY <2>1, <2>2, <1>i DEF FreshAreLater, Fresh, Later
    <3>. QED  BY <1>i, <2>1, <2>2, <3>1 DEF InboxInv
  <2>3. CASE inbox' = Append(inbox, executed + 1)
    <3>1. /\ inbox' \in Seq(Nat) /\ Len(inbox') = Len(inbox) + 1
          /\ \A i \in 1..Len(inbox) : inbox'[i] = inbox[i]
          /\ inbox'[Len(inbox) + 1] = executed + 1
      BY <1>i, <2>3
    <3>2. ASSUME NEW i \in 1..Len(inbox'), Fresh(inbox', done, i) PROVE Later(inbox', done, i)
      <4>1. CASE i = Len(inbox) + 1
        <5>1. ASSUME NEW k \in 1..Len(inbox'), k < i PROVE inbox'[k] < inbox'[i]
          <6>1. k \in 1..Len(inbox)  BY <1>i, <3>1, <4>1, <5>1
          <6>2. inbox'[k] = inbox[k] /\ inbox[k] \in Nat /\ inbox[k] <= executed
            BY <1>i, <3>1, <6>1
          <6>3. inbox'[i] = executed + 1 /\ executed \in Nat  BY <1>i, <3>1, <4>1
          <6>. QED  BY <6>2, <6>3
        <5>2. \A p \in done : p < inbox'[i]  BY <1>i, <3>1, <4>1
        <5>. QED  BY <5>1, <5>2 DEF Later
      <4>2. CASE i \in 1..Len(inbox)
        <5>1. Fresh(inbox, done, i)  BY <1>i, <3>1, <3>2, <4>2 DEF Fresh
        <5>2. Later(inbox, done, i)  BY <1>i, <4>2, <5>1
        <5>3. ASSUME NEW k \in 1..Len(inbox'), k < i PROVE inbox'[k] < inbox'[i]
          <6>1. k \in 1..Len(inbox)  BY <1>i, <3>1, <4>2, <5>3
          <6>. QED  BY <3>1, <4>2, <5>2, <5>3, <6>1 DEF Later
        <5>4. \A p \in done : p < inbox'[i]  BY <3>1, <4>2, <5>2 DEF Later
        <5>. QED  BY <5>3, <5>4 DEF Later
      <4>. QED  BY <1>i, <3>1, <4>1, <4>2
    <3>3. FreshAreLater(inbox', done')
      BY <2>1, <3>2 DEF FreshAreLater
    <3>4. \A i \in 1..Len(inbox') : inbox'[i] \in Txs /\ inbox'[i] <= executed'
      <4>1. SUFFICES ASSUME NEW i \in 1..Len(inbox') PROVE inbox'[i] \in Txs /\ inbox'[i] <= executed'
        OBVIOUS
      <4>2. CASE i \in 1..Len(inbox)  BY <1>i, <2>1, <3>1, <4>2
      <4>3. CASE i = Len(inbox) + 1  BY <1>i, <2>1, <3>1, <4>3
      <4>. QED  BY <1>i, <3>1, <4>2, <4>3
    <3>5. executed' \in Nat /\ done' \in SUBSET Nat /\ \A p \in done' : p <= executed'
      BY <1>i, <2>1
    <3>. HIDE DEF done
    <3>. QED  BY <3>1, <3>3, <3>4, <3>5 DEF InboxInv, done
  <2>. QED  BY <1>1, <2>2, <2>3 DEF Execute
<1>2. ASSUME NEW t \in Txs, Repeat(t) PROVE InboxInv'
  <2>1. /\ inbox' \in Seq(Nat) /\ Len(inbox') = Len(inbox) + 1
        /\ \A i \in 1..Len(inbox) : inbox'[i] = inbox[i]
        /\ inbox'[Len(inbox) + 1] = t
    BY <1>0, <1>i, <1>2 DEF Repeat
  <2>2. executed' = executed /\ done' = done
    BY <1>2 DEF Repeat, msgVars
  <2>3. t \in done \/ \E i \in 1..Len(inbox) : inbox[i] = t
    BY <1>2 DEF Repeat
  <2>4. ASSUME NEW i \in 1..Len(inbox'), Fresh(inbox', done, i) PROVE Later(inbox', done, i)
    <3>1. i # Len(inbox) + 1
      BY <1>i, <2>1, <2>3, <2>4 DEF Fresh
    <3>2. i \in 1..Len(inbox)  BY <1>i, <2>1, <3>1
    <3>3. Fresh(inbox, done, i)  BY <1>i, <2>1, <2>4, <3>2 DEF Fresh
    <3>4. Later(inbox, done, i)  BY <1>i, <3>2, <3>3
    <3>5. ASSUME NEW k \in 1..Len(inbox'), k < i PROVE inbox'[k] < inbox'[i]
      <4>1. k \in 1..Len(inbox)  BY <1>i, <2>1, <3>2, <3>5
      <4>. QED  BY <2>1, <3>2, <3>4, <3>5, <4>1 DEF Later
    <3>6. \A p \in done : p < inbox'[i]  BY <2>1, <3>2, <3>4 DEF Later
    <3>. QED  BY <3>5, <3>6 DEF Later
  <2>5. FreshAreLater(inbox', done')
    BY <2>2, <2>4 DEF FreshAreLater
  <2>6. t <= executed
    BY <1>i, <2>3
  <2>7. ASSUME NEW i \in 1..Len(inbox') PROVE inbox'[i] \in Txs /\ inbox'[i] <= executed
    <3>1. CASE i = Len(inbox) + 1  BY <2>1, <2>6, <3>1
    <3>2. CASE i \in 1..Len(inbox)  BY <1>i, <2>1, <3>2
    <3>. QED  BY <1>i, <2>1, <3>1, <3>2
  <2>. QED  BY <1>i, <2>1, <2>2, <2>5, <2>7 DEF InboxInv, FreshAreLater
<1>3. ASSUME NEW how \in {"closed", "silent"}, NEW n \in 0..Len(inbox), Break(how, n)
      PROVE InboxInv'
  <2>1. inbox' \in Seq(Nat) /\ Len(inbox') = n /\ \A i \in 1..n : inbox'[i] = inbox[i]
    BY <1>3, <1>i DEF Break
  <2>2. executed' = executed /\ done' = done
    BY <1>3 DEF Break, msgVars
  <2>3. ASSUME NEW i \in 1..n, Fresh(inbox', done, i) PROVE Later(inbox', done, i)
    <3>1. Fresh(inbox, done, i)  BY <1>i, <2>1, <2>3 DEF Fresh
    <3>2. Later(inbox, done, i)  BY <1>i, <3>1
    <3>3. ASSUME NEW k \in 1..Len(inbox'), k < i PROVE inbox'[k] < inbox'[i]
      <4>1. k \in 1..Len(inbox)  BY <1>i, <2>1, <3>3
      <4>. QED  BY <2>1, <3>2, <3>3, <4>1 DEF Later
    <3>4. \A p \in done : p < inbox'[i]  BY <2>1, <3>2 DEF Later
    <3>. QED  BY <3>3, <3>4 DEF Later
  <2>4. FreshAreLater(inbox', done')
    BY <2>1, <2>2, <2>3 DEF FreshAreLater
  <2>5. \A i \in 1..Len(inbox') : inbox'[i] \in Txs /\ inbox'[i] <= executed
    <3>1. 1..Len(inbox') \subseteq 1..Len(inbox)  BY <1>i, <2>1
    <3>. QED  BY <1>i, <2>1, <3>1
  <2>. QED  BY <1>i, <2>1, <2>2, <2>4, <2>5 DEF InboxInv
<1>4. CASE ConnectOk \/ ConnectErr \/ SubscribeErr \/ StreamEnds \/ PongErr
  <2>1. inbox' = <<>> /\ executed' = executed /\ done' = done
    BY <1>4 DEF ConnectOk, ConnectErr, SubscribeErr, Retry, StreamEnds, PongErr, Leave, msgVars
  <2>. QED  BY <1>i, <2>1 DEF InboxInv, FreshAreLater
<1>5. CASE ReadMessage
  <2>. DEFINE t == Head(inbox)
  <2>1. /\ inbox' \in Seq(Nat) /\ Len(inbox') = Len(inbox) - 1 /\ Len(inbox) > 0
        /\ \A i \in 1..Len(inbox') : inbox'[i] = inbox[i + 1]
        /\ t = inbox[1] /\ t \in Txs /\ t \in Nat /\ t <= executed /\ executed' = executed
    BY <1>5, <1>i DEF ReadMessage
  <2>2. Ignored(t) \/ (t \in done' /\ done' \in {done, done \cup {t}})
    BY <1>5 DEF ReadMessage, Skips, Ignored, msgVars
  <2>3. done' \in {done, done \cup {t}}
    BY <1>5 DEF ReadMessage, msgVars
  <2>4. ASSUME NEW i \in 1..Len(inbox'), Fresh(inbox', done', i) PROVE Later(inbox', done', i)
    <3>1. i + 1 \in 1..Len(inbox) /\ inbox'[i] = inbox[i + 1]
      BY <1>i, <2>1
    <3>2. ~Ignored(inbox[i + 1]) /\ inbox[i + 1] \notin done /\ inbox[i + 1] # t
      BY <2>2, <2>3, <2>4, <3>1 DEF Fresh
    <3>3. ASSUME NEW k \in 1..Len(inbox), k < i + 1 PROVE inbox[k] # inbox[i + 1]
      <4>1. CASE k = 1
        BY <2>1, <3>2, <4>1
      <4>2. CASE k > 1
        <5>1. k - 1 \in 1..Len(inbox') /\ k - 1 < i /\ inbox'[k - 1] = inbox[k]
          <6>1. Len(inbox) \in Nat /\ Len(inbox') = Len(inbox) - 1  BY <1>i, <2>1
          <6>2. k - 1 \in 1..Len(inbox') /\ k - 1 < i /\ (k - 1) + 1 = k  BY <3>3, <4>2, <6>1
          <6>3. inbox'[k - 1] = inbox[(k - 1) + 1]  BY <2>1, <6>2
          <6>. QED  BY <6>2, <6>3
        <5>. QED  BY <2>4, <3>1, <5>1 DEF Fresh
      <4>. QED  BY <4>1, <4>2
    <3>4. Later(inbox, done, i + 1)
      BY <1>i, <3>1, <3>2, <3>3 DEF Fresh
    <3>5. ASSUME NEW k \in 1..Len(inbox'), k < i PROVE inbox'[k] < inbox'[i]
      <4>1. k + 1 \in 1..Len(inbox) /\ k + 1 < i + 1  BY <1>i, <2>1, <3>5
      <4>. QED  BY <2>1, <3>1, <3>4, <3>5, <4>1 DEF Later
    <3>6. inbox[1] < inbox[i + 1]
      BY <1>i, <2>1, <3>1, <3>4 DEF Later
    <3>7. \A p \in done' : p < inbox'[i]  BY <2>1, <2>3, <3>1, <3>4, <3>6 DEF Later
    <3>. QED  BY <3>5, <3>7 DEF Later
  <2>5. FreshAreLater(inbox', done')
    BY <2>4 DEF FreshAreLater
  <2>6. ASSUME NEW i \in 1..Len(inbox') PROVE inbox'[i] \in Txs /\ inbox'[i] <= executed
    <3>1. i + 1 \in 1..Len(inbox)  BY <1>i, <2>1
    <3>. QED  BY <1>i, <2>1, <3>1
  <2>7. done' \in SUBSET Nat /\ \A p \in done' : p <= executed
    BY <1>i, <2>1, <2>3
  <2>. QED  BY <1>i, <2>1, <2>5, <2>6, <2>7 DEF InboxInv
<1>6. CASE Connecting \/ SubscribeOk \/ SleepOver \/ NodePings \/ PongSent \/ PingOk \/ PingErr
           \/ FetchOk \/ FetchNothing \/ Broadcast \/ Processor \/ UNCHANGED vars
  BY <1>6, <1>p DEF Connecting, SubscribeOk, SleepOver, NodePings, PongSent, PingOk, PingErr, FetchOk,
              FetchNothing, Broadcast, Processor, Lagged, HandleEvent, netVars, msgVars, vars
<1>. QED  BY <1>1, <1>2, <1>3, <1>4, <1>5, <1>6 DEF Next, Loop, Message

(* A set of lines makes a sequence of events: all of them, in their order. *)
(* The rank of a line in the set takes each of the values up to its size,  *)
(* for it is injective.                                                    *)
LEMMA EventsAtIs ==
  ASSUME NEW t, NEW N \in Nat, NEW S \in SUBSET (1..N)
  PROVE  /\ EventsAt(t, S) \in Seq({t} \X S)
         /\ \A i, j \in 1..Len(EventsAt(t, S)) :
              i < j => EventsAt(t, S)[i][2] < EventsAt(t, S)[j][2]
         /\ \A n \in S : In(<<t, n>>, EventsAt(t, S))
<1>. DEFINE R(n) == {m \in S : m <= n}  k == Cardinality(S)
            rank == [n \in S |-> Cardinality(R(n))]
<1>0. \A n \in S : n \in Nat  OBVIOUS
<1>1. IsFiniteSet(S) /\ k \in Nat
  <2>1. IsFiniteSet(1..N)  BY FS_Interval
  <2>2. IsFiniteSet(S)  BY <2>1, FS_Subset
  <2>. QED  BY <2>2, FS_CardinalityType
<1>2. ASSUME NEW n \in S
      PROVE R(n) \in SUBSET S /\ IsFiniteSet(R(n)) /\ Cardinality(R(n)) \in 1..k
  <2>1. R(n) \in SUBSET S /\ n \in R(n)  OBVIOUS
  <2>2. IsFiniteSet(R(n)) /\ Cardinality(R(n)) <= k  BY <1>1, <2>1, FS_Subset
  <2>3. Cardinality(R(n)) \in Nat  BY <2>2, FS_CardinalityType
  <2>4. R(n) # {}  BY <2>1
  <2>. HIDE DEF R
  <2>5. Cardinality(R(n)) # 0  BY <2>2, <2>4, FS_EmptySet
  <2>. QED  BY <1>1, <2>1, <2>2, <2>3, <2>5
<1>3. ASSUME NEW m \in S, NEW n \in S, m < n
      PROVE Cardinality(R(m)) < Cardinality(R(n))
  <2>1. R(m) \in SUBSET R(n) /\ R(m) # R(n)
    <3>1. \A x \in R(m) : x \in R(n)  BY <1>3
    <3>2. n \in R(n) /\ n \notin R(m)  BY <1>3
    <3>. QED  BY <3>1, <3>2
  <2>2. IsFiniteSet(R(n)) /\ Cardinality(R(m)) \in Nat /\ Cardinality(R(n)) \in Nat
    BY <1>1, <1>2
  <2>. HIDE DEF R
  <2>3. Cardinality(R(m)) <= Cardinality(R(n)) /\ Cardinality(R(m)) # Cardinality(R(n))
    BY <2>1, <2>2, FS_Subset
  <2>. QED  BY <2>2, <2>3
<1>4. rank \in Injection(S, 1..k)
  <2>1. rank \in [S -> 1..k]  BY <1>2
  <2>2. ASSUME NEW m \in S, NEW n \in S, m # n PROVE rank[m] # rank[n]
    <3>1. m < n \/ n < m  BY <2>2
    <3>2. Cardinality(R(m)) \in Nat /\ Cardinality(R(n)) \in Nat  BY <1>1, <1>2
    <3>. HIDE DEF R
    <3>. QED  BY <1>3, <3>1, <3>2
  <2>. HIDE DEF rank
  <2>. QED  BY <2>1, <2>2 DEF Injection, IsInjective
<1>5. rank \in Surjection(S, 1..k)
  <2>1. IsFiniteSet(1..k) /\ Cardinality(1..k) = k  BY <1>1, FS_Interval
  <2>. HIDE DEF rank
  <2>. QED  BY <1>4, <2>1, FS_Injection
<1>6. ASSUME NEW i \in 1..k PROVE Nth(S, i) \in S /\ Cardinality(R(Nth(S, i))) = i
  <2>1. \E n \in S : rank[n] = i
    <3>. HIDE DEF rank
    <3>. QED  BY <1>5 DEF Surjection
  <2>2. \E n \in S : Cardinality(R(n)) = i  BY <2>1
  <2>3. Nth(S, i) = CHOOSE n \in S : Cardinality(R(n)) = i  BY DEF Nth
  <2>. HIDE DEF R
  <2>. QED  BY <2>2, <2>3
<1>. DEFINE e == EventsAt(t, S)
<1>7. e = [i \in 1..k |-> <<t, Nth(S, i)>>]  BY DEF EventsAt
<1>. HIDE DEF e, k
<1>8. e \in Seq({t} \X S) /\ Len(e) = k
  <2>1. e \in [1..k -> {t} \X S]  BY <1>6, <1>7
  <2>. QED  BY <1>1, <2>1
<1>9. ASSUME NEW i \in 1..k, NEW j \in 1..k, i < j PROVE e[i][2] < e[j][2]
  <2>1. e[i][2] = Nth(S, i) /\ e[j][2] = Nth(S, j)  BY <1>7
  <2>. DEFINE a == Nth(S, i)  b == Nth(S, j)
  <2>2. a \in S /\ b \in S /\ Cardinality(R(a)) = i /\ Cardinality(R(b)) = j
    BY <1>6
  <2>. HIDE DEF a, b, R
  <2>3. ~(b < a) /\ a # b  BY <1>1, <1>3, <1>9, <2>2
  <2>4. a < b  BY <1>0, <2>2, <2>3
  <2>. QED  BY <2>1, <2>4 DEF a, b
<1>10. ASSUME NEW n \in S PROVE In(<<t, n>>, e)
  <2>. DEFINE i == Cardinality(R(n))
  <2>1. i \in 1..k  BY <1>2 DEF k
  <2>2. Nth(S, i) \in S /\ Cardinality(R(Nth(S, i))) = i  BY <1>6, <2>1
  <2>3. ~(Nth(S, i) < n) /\ ~(n < Nth(S, i))
    <3>1. i \in Nat  BY <1>1, <2>1
    <3>2. \A m \in S : Cardinality(R(m)) = i => ~(m < n) /\ ~(n < m)
      <4>. HIDE DEF R
      <4>. QED  BY <1>3, <3>1 DEF i
    <3>. QED  BY <2>2, <3>2
  <2>4. Nth(S, i) = n
    <3>1. \A m \in S : ~(m < n) /\ ~(n < m) => m = n  BY <1>0
    <3>. HIDE DEF i
    <3>. QED  BY <2>2, <2>3, <3>1
  <2>. HIDE DEF i
  <2>. QED  BY <1>7, <1>8, <2>1, <2>4 DEF In
<1>. QED  BY <1>8, <1>9, <1>10 DEF e

(* Events move down the line from the notification to the handler in the   *)
(* order of the chain, and those lost on the way leave the rest in order.  *)
LEMMA FlowStep ==
  ASSUME InboxInv, FlowInv, [Next]_vars PROVE FlowInv'
<1>. DEFINE done == processed_signatures
<1>i. /\ handled \in Seq(Mark) /\ channel \in Seq(Mark) /\ pending \in Seq(Mark)
      /\ Ordered(handled) /\ Ordered(channel) /\ Ordered(pending)
      /\ Before(handled, channel) /\ Before(handled, pending) /\ Before(channel, pending)
      /\ Of(handled, done) /\ Of(channel, done) /\ Of(pending, done)
  BY DEF FlowInv
<1>f. fetching # 0 =>
        /\ fetching \in done /\ fetching \in Txs /\ pending = <<>>
        /\ \A i \in 1..Len(handled) : handled[i][1] < fetching
        /\ \A i \in 1..Len(channel) : channel[i][1] < fetching
  BY DEF FlowInv
<1>0. ASSUME NEW t \in Txs
      PROVE /\ t \in Nat \ {0} /\ ShownEvents[t] \subseteq 1..Len(LogsOf[t])
            /\ MergedEvents[t] \subseteq 1..Len(LogsOf[t])
  <2>1. /\ t \in Nat \ {0} /\ LogsOf[t] \in Seq(LogLine) /\ ShownOf[t] \in Nat
        /\ ShownOf[t] <= Len(LogsOf[t])
    BY ListenerAssumption DEF Txs
  <2>2. Len(LogsOf[t]) \in Nat /\ Len(ShownLogs(t)) = ShownOf[t]
    BY <2>1 DEF ShownLogs
  <2>3. ShownEvents[t] \subseteq 1..Len(LogsOf[t]) /\ AllEvents[t] \subseteq 1..Len(LogsOf[t])
    BY <2>1, <2>2 DEF ShownEvents, AllEvents, EventLines
  <2>. QED  BY <2>1, <2>3 DEF MergedEvents
<1>s. ASSUME NEW t \in Txs, NEW S \in SUBSET (1..Len(LogsOf[t]))
      PROVE /\ EventsAt(t, S) \in Seq(Mark) /\ Ordered(EventsAt(t, S))
            /\ Of(EventsAt(t, S), {t})
  <2>. DEFINE e == EventsAt(t, S)
  <2>1. e \in Seq({t} \X S) /\ \A i, j \in 1..Len(e) : i < j => e[i][2] < e[j][2]
    <3>1. Len(LogsOf[t]) \in Nat  BY ListenerAssumption DEF Txs
    <3>. QED  BY <1>s, <3>1, EventsAtIs
  <2>2. {t} \X S \subseteq Mark
    <3>1. S \subseteq Nat  BY <1>s
    <3>. QED  BY <1>0, <1>s, <3>1 DEF Mark
  <2>. HIDE DEF e
  <2>3. /\ Len(e) \in Nat
        /\ \A i \in 1..Len(e) : e[i] \in {t} \X S /\ e[i][1] = t
    BY <2>1
  <2>4. e \in Seq(Mark)  BY <2>1, <2>2
  <2>5. Ordered(e)  BY <2>1, <2>3 DEF Ordered, Precedes
  <2>. QED  BY <2>3, <2>4, <2>5 DEF e, Of
(* the head of r goes to the end of s *)
<1>m. ASSUME NEW s \in Seq(Mark), NEW r \in Seq(Mark), r # <<>>,
             Ordered(s), Ordered(r), Before(s, r), NEW T, Of(s, T), Of(r, T)
      PROVE /\ Append(s, Head(r)) \in Seq(Mark) /\ Tail(r) \in Seq(Mark)
            /\ Ordered(Append(s, Head(r))) /\ Ordered(Tail(r))
            /\ Before(Append(s, Head(r)), Tail(r))
            /\ Of(Append(s, Head(r)), T) /\ Of(Tail(r), T)
            /\ \A x \in Seq(Mark) : Before(x, s) /\ Before(x, r) =>
                 Before(x, Append(s, Head(r))) /\ Before(x, Tail(r))
            /\ \A x \in Seq(Mark) : Before(s, x) /\ Before(r, x) =>
                 Before(Append(s, Head(r)), x) /\ Before(Tail(r), x)
  <2>. DEFINE s2 == Append(s, Head(r))  r2 == Tail(r)
  <2>1. /\ s2 \in Seq(Mark) /\ Len(s2) = Len(s) + 1 /\ Len(s) \in Nat
        /\ \A i \in 1..Len(s) : s2[i] = s[i]
        /\ s2[Len(s) + 1] = r[1]
    BY <1>m
  <2>2. /\ r2 \in Seq(Mark) /\ Len(r) \in Nat /\ Len(r) >= 1 /\ Len(r2) = Len(r) - 1
        /\ \A i \in 1..Len(r2) : i + 1 \in 1..Len(r) /\ r2[i] = r[i + 1]
    BY <1>m
  <2>. HIDE DEF s2, r2
  <2>3. Ordered(s2)
    <3>1. ASSUME NEW i \in 1..Len(s2), NEW j \in 1..Len(s2), i < j PROVE Precedes(s2[i], s2[j])
      <4>1. i \in 1..Len(s) /\ s2[i] = s[i]
        <5>1. Len(s2) = Len(s) + 1 /\ Len(s) \in Nat  BY <2>1
        <5>2. i \in 1..Len(s)  BY <3>1, <5>1
        <5>. QED  BY <2>1, <5>2
      <4>2. CASE j = Len(s) + 1
        <5>1. 1 \in 1..Len(r)  BY <2>2
        <5>2. Precedes(s[i], r[1])  BY <1>m, <4>1, <5>1 DEF Before
        <5>. QED  BY <2>1, <4>1, <4>2, <5>2
      <4>3. CASE j \in 1..Len(s)
        <5>1. Precedes(s[i], s[j])  BY <1>m, <3>1, <4>1, <4>3 DEF Ordered
        <5>. QED  BY <2>1, <4>1, <4>3, <5>1
      <4>. QED  BY <2>1, <4>2, <4>3
    <3>. QED  BY <3>1 DEF Ordered
  <2>4. Ordered(r2)
    <3>1. ASSUME NEW i \in 1..Len(r2), NEW j \in 1..Len(r2), i < j PROVE Precedes(r2[i], r2[j])
      <4>1. i + 1 < j + 1  BY <3>1
      <4>. QED  BY <1>m, <2>2, <4>1 DEF Ordered
    <3>. QED  BY <3>1 DEF Ordered
  <2>5. Before(s2, r2)
    <3>1. ASSUME NEW i \in 1..Len(s2), NEW j \in 1..Len(r2) PROVE Precedes(s2[i], r2[j])
      <4>1. CASE i = Len(s) + 1
        <5>1. 1 \in 1..Len(r) /\ 1 < j + 1  BY <2>2
        <5>. QED  BY <1>m, <2>1, <2>2, <4>1, <5>1 DEF Ordered
      <4>2. CASE i \in 1..Len(s)  BY <1>m, <2>1, <2>2, <4>2 DEF Before
      <4>. QED  BY <2>1, <4>1, <4>2
    <3>. QED  BY <3>1 DEF Before
  <2>6. Of(s2, T) /\ Of(r2, T)
    <3>1. ASSUME NEW i \in 1..Len(s2) PROVE s2[i][1] \in T
      <4>1. CASE i = Len(s) + 1  BY <1>m, <2>1, <2>2, <4>1 DEF Of
      <4>2. CASE i \in 1..Len(s)  BY <1>m, <2>1, <4>2 DEF Of
      <4>. QED  BY <2>1, <4>1, <4>2
    <3>2. ASSUME NEW i \in 1..Len(r2) PROVE r2[i][1] \in T
      BY <1>m, <2>2 DEF Of
    <3>. QED  BY <3>1, <3>2 DEF Of
  <2>7. ASSUME NEW x \in Seq(Mark), Before(x, s), Before(x, r)
        PROVE Before(x, s2) /\ Before(x, r2)
    <3>1. ASSUME NEW i \in 1..Len(x), NEW j \in 1..Len(s2) PROVE Precedes(x[i], s2[j])
      <4>1. CASE j = Len(s) + 1  BY <2>1, <2>2, <2>7, <4>1 DEF Before
      <4>2. CASE j \in 1..Len(s)  BY <2>1, <2>7, <4>2 DEF Before
      <4>. QED  BY <2>1, <4>1, <4>2
    <3>2. ASSUME NEW i \in 1..Len(x), NEW j \in 1..Len(r2) PROVE Precedes(x[i], r2[j])
      BY <2>2, <2>7 DEF Before
    <3>. QED  BY <3>1, <3>2 DEF Before
  <2>8. ASSUME NEW x \in Seq(Mark), Before(s, x), Before(r, x)
        PROVE Before(s2, x) /\ Before(r2, x)
    <3>1. ASSUME NEW i \in 1..Len(s2), NEW j \in 1..Len(x) PROVE Precedes(s2[i], x[j])
      <4>1. CASE i = Len(s) + 1  BY <2>1, <2>2, <2>8, <4>1 DEF Before
      <4>2. CASE i \in 1..Len(s)  BY <2>1, <2>8, <4>2 DEF Before
      <4>. QED  BY <2>1, <4>1, <4>2
    <3>2. ASSUME NEW i \in 1..Len(r2), NEW j \in 1..Len(x) PROVE Precedes(r2[i], x[j])
      BY <2>2, <2>8 DEF Before
    <3>. QED  BY <3>1, <3>2 DEF Before
  <2>. QED  BY <2>1, <2>2, <2>3, <2>4, <2>5, <2>6, <2>7, <2>8 DEF s2, r2
<1>1. CASE ReadMessage
  <2>. DEFINE t == Head(inbox)
  <2>1. inbox # <<>> /\ fetching = 0 /\ pending = <<>> /\ UNCHANGED <<channel, handled>>
    BY <1>1 DEF ReadMessage, Idle, chanVars
  <2>2. CASE Skips(t)
    BY <1>1, <1>i, <1>f, <2>2 DEF ReadMessage, FlowInv, msgVars, chanVars
  <2>3. CASE ~Skips(t)
    <3>1. t \in Txs /\ t \in Nat \ {0} /\ \A p \in done : p \in Nat /\ p < t
      <4>1. 1 \in 1..Len(inbox) /\ t = inbox[1]  BY <2>1 DEF InboxInv
      <4>2. Fresh(inbox, done, 1)
        BY <2>3, <4>1 DEF Fresh, Skips, Ignored, InboxInv
      <4>3. Later(inbox, done, 1)  BY <4>1, <4>2 DEF InboxInv, FreshAreLater
      <4>. QED  BY <1>0, <4>1, <4>3 DEF Later, InboxInv
    <3>2. \A i \in 1..Len(handled) : handled[i][1] < t /\ handled[i][1] \in done
      BY <1>i, <3>1 DEF Of
    <3>3. \A i \in 1..Len(channel) : channel[i][1] < t /\ channel[i][1] \in done
      BY <1>i, <3>1 DEF Of
    <3>4. done' = done \cup {t}
      BY <1>1, <2>3 DEF ReadMessage
    <3>5. Of(handled, done') /\ Of(channel, done')
      BY <3>2, <3>3, <3>4 DEF Of
    <3>6. CASE fetching' = t /\ pending' = pending
      BY <1>i, <2>1, <3>1, <3>2, <3>3, <3>4, <3>5, <3>6 DEF FlowInv, Of, Before, Ordered
    <3>7. CASE fetching' = 0 /\ pending' = EventsAt(t, ShownEvents[t])
      <4>1. pending' \in Seq(Mark) /\ Ordered(pending') /\ Of(pending', {t})
        BY <1>0, <1>s, <3>1, <3>7
      <4>2. Before(handled, pending') /\ Before(channel, pending')
        BY <3>2, <3>3, <4>1 DEF Before, Of, Precedes
      <4>3. Of(pending', done')  BY <3>4, <4>1 DEF Of
      <4>. QED  BY <1>i, <2>1, <3>5, <3>7, <4>1, <4>2, <4>3 DEF FlowInv
    <3>. QED  BY <1>1, <2>3, <3>6, <3>7 DEF ReadMessage
  <2>. QED  BY <2>2, <2>3
<1>2. CASE FetchOk \/ FetchNothing
  <2>1. /\ fetching # 0 /\ fetching' = 0 /\ done' = done /\ UNCHANGED <<channel, handled>>
        /\ \/ pending' = EventsAt(fetching, MergedEvents[fetching])
           \/ pending' = EventsAt(fetching, ShownEvents[fetching])
    BY <1>2 DEF FetchOk, FetchNothing, chanVars
  <2>2. pending' \in Seq(Mark) /\ Ordered(pending') /\ Of(pending', {fetching})
    BY <1>0, <1>s, <1>f, <2>1
  <2>3. Before(handled, pending') /\ Before(channel, pending')
    BY <1>f, <2>1, <2>2 DEF Before, Of, Precedes
  <2>4. Of(pending', done)  BY <1>f, <2>1, <2>2 DEF Of
  <2>. QED  BY <1>i, <2>1, <2>2, <2>3, <2>4 DEF FlowInv
<1>3. CASE Broadcast
  <2>1. /\ pending # <<>> /\ fetching = 0 /\ fetching' = 0 /\ done' = done /\ handled' = handled
        /\ pending' = Tail(pending)
    BY <1>3, <1>f DEF Broadcast
  <2>2. CASE channel' = Append(channel, Head(pending))
    BY <1>i, <1>m, <2>1, <2>2 DEF FlowInv
  <2>3. CASE channel # <<>> /\ channel' = Append(Tail(channel), Head(pending))
    <3>. DEFINE rest == Tail(channel)
    <3>2. /\ rest \in Seq(Mark) /\ Len(rest) \in Nat /\ Len(channel) \in Nat
          /\ \A i \in 1..Len(rest) : i + 1 \in 1..Len(channel) /\ rest[i] = channel[i + 1]
      BY <1>i, <2>3
    <3>. HIDE DEF rest
    <3>3. Ordered(rest)
      <4>1. ASSUME NEW i \in 1..Len(rest), NEW j \in 1..Len(rest), i < j
            PROVE Precedes(rest[i], rest[j])
        <5>1. i + 1 < j + 1  BY <3>2, <4>1
        <5>. QED  BY <1>i, <3>2, <5>1 DEF Ordered
      <4>. QED  BY <4>1 DEF Ordered
    <3>4. Of(rest, done)  BY <1>i, <3>2 DEF Of
    <3>5. Before(handled, rest) /\ Before(rest, pending)  BY <1>i, <3>2 DEF Before
    <3>1. /\ Tail(channel) \in Seq(Mark) /\ Ordered(Tail(channel)) /\ Of(Tail(channel), done)
          /\ Before(handled, Tail(channel)) /\ Before(Tail(channel), pending)
      BY <3>2, <3>3, <3>4, <3>5 DEF rest
    <3>. QED  BY <1>i, <1>m, <2>1, <2>3, <3>1 DEF FlowInv
  <2>4. Len(channel) < Capacity \/ channel # <<>>
    BY <1>i, ListenerAssumption
  <2>. QED  BY <1>3, <2>2, <2>3, <2>4 DEF Broadcast
<1>4. CASE HandleEvent
  <2>1. /\ channel # <<>> /\ handled' = Append(handled, Head(channel)) /\ channel' = Tail(channel)
        /\ pending' = pending /\ fetching' = fetching /\ done' = done
    BY <1>4 DEF HandleEvent, msgVars
  <2>2. /\ handled' \in Seq(Mark) /\ channel' \in Seq(Mark) /\ Ordered(handled')
        /\ Ordered(channel') /\ Before(handled', channel') /\ Of(handled', done)
        /\ Of(channel', done) /\ Before(handled', pending) /\ Before(channel', pending)
    BY <1>i, <1>m, <2>1
  <2>3. ASSUME fetching # 0
        PROVE /\ \A i \in 1..Len(handled') : handled'[i][1] < fetching
              /\ \A i \in 1..Len(channel') : channel'[i][1] < fetching
    <3>. DEFINE T == {n \in Nat : n < fetching}
    <3>1. Of(handled, T) /\ Of(channel, T)
      <4>1. ASSUME NEW s \in Seq(Mark), NEW i \in 1..Len(s) PROVE s[i][1] \in Nat
        BY DEF Mark
      <4>. QED  BY <1>i, <1>f, <2>3, <4>1 DEF Of
    <3>2. Of(handled', T) /\ Of(channel', T)
      BY <1>i, <1>m, <2>1, <3>1
    <3>. QED  BY <3>2 DEF Of
  <2>. QED  BY <1>i, <1>f, <2>1, <2>2, <2>3 DEF FlowInv
<1>5. ASSUME UNCHANGED <<handled, channel, pending, fetching, processed_signatures>>
      PROVE FlowInv'
  BY <1>5, <1>i, <1>f DEF FlowInv
<1>6. ASSUME NEW t \in Txs, Repeat(t) PROVE FlowInv'
  BY <1>5, <1>6 DEF Repeat, msgVars, chanVars
<1>7. ASSUME NEW how \in {"closed", "silent"}, NEW n \in 0..Len(inbox), Break(how, n)
      PROVE FlowInv'
  BY <1>5, <1>7 DEF Break, msgVars, chanVars
<1>8. CASE Execute \/ Loop \/ PingOk \/ PingErr \/ Lagged \/ UNCHANGED vars
  BY <1>5, <1>8 DEF Execute, Loop, Connecting, ConnectOk, ConnectErr, SubscribeErr, Retry,
     SubscribeOk, SleepOver, StreamEnds, NodePings, PongSent, PongErr, Leave, PingOk, PingErr, Lagged, vars, msgVars, chanVars
<1>. QED  BY <1>1, <1>2, <1>3, <1>4, <1>6, <1>7, <1>8 DEF Next, Message, Processor

(* The handler gets the events in the order of the chain and none twice,   *)
(* for any transactions, any capacity of the channel, however often the    *)
(* connection breaks and the node repeats itself.                          *)
THEOREM EventsInOrder == Spec => []HandledInOrder
<1>1. Init => InboxInv /\ FlowInv
  BY DEF Init, InboxInv, FreshAreLater, FlowInv, Ordered, Before, Of
<1>2. InboxInv /\ FlowInv /\ [Next]_vars => (InboxInv /\ FlowInv)'
  BY InboxStep, FlowStep
<1>3. FlowInv => HandledInOrder
  BY DEF FlowInv, Ordered, HandledInOrder
<1>. QED  BY <1>1, <1>2, <1>3, PTL DEF Spec

-----------------------------------------------------------------------------
(* Types *)

(* The events found in a transaction are events of the transaction, and    *)
(* those the notification shows are among those found in its lines.        *)
LEMMA FoundEvents ==
  ASSUME NEW t \in Txs
  PROVE  /\ ShownEvents[t] = EventLines(LogsOf[t]) \cap 1..ShownOf[t]
         /\ ShownEvents[t] \subseteq MergedEvents[t]
         /\ MergedEvents[t] \subseteq EventLines(LogsOf[t])
<1>1. LogsOf[t] \in Seq(LogLine) /\ ShownOf[t] \in 0..Len(LogsOf[t])
  BY ListenerAssumption DEF Txs
<1>2. ShownEvents[t] = EventLines(LogsOf[t]) \cap 1..ShownOf[t]
  BY <1>1, PartFinds DEF ShownEvents, ShownLogs
<1>. QED  BY <1>2 DEF MergedEvents, AllEvents

LEMMA FoundTypes ==
  ASSUME OnlyTargetDecodes, NEW t \in Txs
  PROVE  /\ EventsAt(t, ShownEvents[t]) \in Seq(Events)
         /\ EventsAt(t, MergedEvents[t]) \in Seq(Events)
<1>1. LogsOf[t] \in Seq(LogLine) /\ Len(LogsOf[t]) \in Nat
  BY ListenerAssumption DEF Txs
<1>2. EventLines(LogsOf[t]) \subseteq EmittedLines(LogsOf[t])
  BY DEF OnlyTargetDecodes, EventLines, EmittedLines
<1>3. ASSUME NEW S \in SUBSET EmittedLines(LogsOf[t]) PROVE EventsAt(t, S) \in Seq(Events)
  <2>1. S \in SUBSET (1..Len(LogsOf[t]))  BY DEF EmittedLines
  <2>2. EventsAt(t, S) \in Seq({t} \X S)  BY <1>1, <2>1, EventsAtIs
  <2>3. {t} \X S \subseteq Events  BY DEF Events
  <2>. QED  BY <2>2, <2>3
<1>. QED  BY <1>2, <1>3, FoundEvents

(* The types, part by part; a live ping task has not reached its limit yet. *)
NetTypes ==
  /\ executed \in 0..Len(LogsOf) /\ inbox \in Seq(Txs)
  /\ socket \in {"none", "open", "silent", "closed"}
  /\ breaks \in 0..MaxBreaks /\ repeats \in 0..MaxRepeats
LoopTypes ==
  /\ loop \in {"start", "connect", "subscribe", "listen", "pong", "sleep", "ended"}
  /\ connection_state \in {"Disconnected", "Connecting", "Connected", "Reconnecting"}
  /\ reconnect_attempts \in Nat
  /\ ping \in [alive : BOOLEAN, failures : 0..MaxPingFailures]
  /\ ping.alive => ping.failures < MaxPingFailures
MsgTypes ==
  /\ processed_signatures \subseteq Txs /\ fetching \in {0} \cup Txs
  /\ pending \in Seq(Events)
ChanTypes ==
  /\ channel \in Seq(Events) /\ handled \in Seq(Events)
  /\ skipped \in Nat /\ lost \subseteq Events
TypeInv == NetTypes /\ LoopTypes /\ MsgTypes /\ ChanTypes

LEMMA TypeStep ==
  ASSUME OnlyTargetDecodes, TypeInv, [Next]_vars PROVE TypeInv'
<1>0. /\ MaxPingFailures \in Nat \ {0} /\ MaxBreaks \in Nat /\ MaxRepeats \in Nat
      /\ Capacity \in Nat \ {0} /\ Len(LogsOf) \in Nat
      /\ NetTypes /\ LoopTypes /\ MsgTypes /\ ChanTypes
  BY ListenerAssumption DEF TypeInv
<1>a. /\ UNCHANGED netVars => NetTypes'
      /\ UNCHANGED loopVars => LoopTypes'
      /\ UNCHANGED msgVars => MsgTypes'
      /\ UNCHANGED chanVars => ChanTypes'
  BY <1>0 DEF NetTypes, LoopTypes, MsgTypes, ChanTypes, netVars, loopVars, msgVars, chanVars
<1>1. CASE Execute
  <2>1. executed + 1 \in Txs /\ executed' \in 0..Len(LogsOf)
    BY <1>0, <1>1 DEF Execute, Txs, NetTypes
  <2>2. inbox' \in Seq(Txs)  BY <1>0, <1>1, <2>1 DEF Execute, NetTypes
  <2>. QED  BY <1>0, <1>1, <1>a, <2>1, <2>2 DEF Execute, TypeInv, NetTypes
<1>2. ASSUME NEW t \in Txs, Repeat(t) PROVE TypeInv'
  <2>1. inbox' \in Seq(Txs) /\ repeats' \in 0..MaxRepeats
    BY <1>0, <1>2 DEF Repeat, NetTypes
  <2>. QED  BY <1>0, <1>2, <1>a, <2>1 DEF Repeat, TypeInv, NetTypes
<1>3. ASSUME NEW how \in {"closed", "silent"}, NEW n \in 0..Len(inbox), Break(how, n)
      PROVE TypeInv'
  <2>1. inbox' \in Seq(Txs) /\ breaks' \in 0..MaxBreaks
    BY <1>0, <1>3 DEF Break, NetTypes
  <2>. QED  BY <1>0, <1>3, <1>a, <2>1 DEF Break, TypeInv, NetTypes
<1>4. CASE Connecting \/ SubscribeOk \/ SleepOver \/ PongSent
  <2>1. ASSUME Connecting PROVE LoopTypes'  BY <1>0, <2>1 DEF Connecting, LoopTypes
  <2>2. ASSUME SubscribeOk PROVE LoopTypes'
    <3>1. ping' = [alive |-> TRUE, failures |-> 0]  BY <2>2 DEF SubscribeOk
    <3>2. ping' \in [alive : BOOLEAN, failures : 0..MaxPingFailures] /\ ping'.failures = 0
      BY <1>0, <3>1
    <3>. QED  BY <1>0, <2>2, <3>2 DEF SubscribeOk, LoopTypes
  <2>3. ASSUME SleepOver PROVE LoopTypes'  BY <1>0, <2>3 DEF SleepOver, LoopTypes
  <2>4. ASSUME PongSent PROVE LoopTypes'  BY <1>0, <2>4 DEF PongSent, LoopTypes
  <2>. QED
    BY <1>4, <1>a, <2>1, <2>2, <2>3, <2>4 DEF Connecting, SubscribeOk, SleepOver, PongSent, TypeInv
<1>5. CASE ConnectOk \/ StreamEnds \/ PongErr \/ NodePings \/ ConnectErr \/ SubscribeErr
  <2>1. ASSUME ConnectOk PROVE LoopTypes' /\ NetTypes'
    BY <1>0, <2>1 DEF ConnectOk, LoopTypes, NetTypes
  <2>2. ASSUME Leave PROVE LoopTypes' /\ NetTypes'
    <3>1. ping' \in [alive : BOOLEAN, failures : 0..MaxPingFailures] /\ ~ping'.alive
      BY <1>0, <2>2 DEF Leave, NoPing
    <3>. QED  BY <1>0, <2>2, <3>1 DEF Leave, LoopTypes, NetTypes
  <2>3. ASSUME Retry PROVE LoopTypes' /\ NetTypes'
    BY <1>0, <2>3 DEF Retry, LoopTypes, NetTypes
  <2>4. ASSUME NodePings PROVE LoopTypes' /\ NetTypes'
    BY <1>0, <2>4 DEF NodePings, LoopTypes, NetTypes
  <2>. QED
    BY <1>5, <1>a, <2>1, <2>2, <2>3, <2>4
    DEF ConnectOk, StreamEnds, PongErr, Leave, NodePings, ConnectErr, SubscribeErr, Retry, TypeInv
<1>6. CASE PingOk \/ PingErr
  <2>1. /\ ping' \in [alive : BOOLEAN, failures : 0..MaxPingFailures]
        /\ ping'.alive => ping'.failures < MaxPingFailures
    <3>1. CASE PingOk  BY <1>0, <3>1 DEF PingOk, LoopTypes
    <3>2. CASE PingErr
      <4>1. ping.failures + 1 \in 0..MaxPingFailures  BY <1>0, <3>2 DEF PingErr, LoopTypes
      <4>. DEFINE f == ping.failures + 1  b == f < MaxPingFailures
      <4>2. ping' = [alive |-> b, failures |-> f]  BY <3>2 DEF PingErr
      <4>3. b \in BOOLEAN /\ f \in 0..MaxPingFailures  BY <4>1
      <4>4. ping'.failures = f /\ (ping'.alive <=> b)  BY <4>2
      <4>5. ping' \in [alive : BOOLEAN, failures : 0..MaxPingFailures]
        <5>. HIDE DEF b, f
        <5>. QED  BY <4>2, <4>3
      <4>. QED  BY <4>4, <4>5
    <3>. QED  BY <1>6, <3>1, <3>2
  <2>2. LoopTypes'  BY <1>0, <1>6, <2>1 DEF PingOk, PingErr, LoopTypes
  <2>. QED  BY <1>6, <1>a, <2>2 DEF PingOk, PingErr, TypeInv
<1>7. CASE ReadMessage
  <2>. DEFINE t == Head(inbox)
  <2>1. t \in Txs /\ inbox' \in Seq(Txs)  BY <1>0, <1>7 DEF ReadMessage, NetTypes
  <2>2. EventsAt(t, ShownEvents[t]) \in Seq(Events)  BY <2>1, FoundTypes
  <2>3. MsgTypes'
    <3>1. CASE UNCHANGED msgVars  BY <1>a, <3>1
    <3>2. CASE ~UNCHANGED msgVars
      BY <1>0, <1>7, <2>1, <2>2, <3>2 DEF ReadMessage, MsgTypes
    <3>. QED  BY <3>1, <3>2
  <2>4. NetTypes'  BY <1>0, <1>7, <2>1 DEF ReadMessage, NetTypes
  <2>. QED  BY <1>7, <1>a, <2>3, <2>4 DEF ReadMessage, TypeInv
<1>8. CASE FetchOk \/ FetchNothing
  <2>1. fetching \in Txs  BY <1>0, <1>8 DEF FetchOk, FetchNothing, MsgTypes
  <2>2. pending' \in Seq(Events)  BY <1>8, <2>1, FoundTypes DEF FetchOk, FetchNothing
  <2>. QED  BY <1>0, <1>8, <1>a, <2>2 DEF FetchOk, FetchNothing, TypeInv, MsgTypes
<1>9. CASE Broadcast
  <2>1. pending' \in Seq(Events) /\ Head(pending) \in Events
    BY <1>0, <1>9 DEF Broadcast, MsgTypes
  <2>2. MsgTypes'  BY <1>0, <1>9, <2>1 DEF Broadcast, MsgTypes
  <2>3. channel \in Seq(Events) /\ handled \in Seq(Events) /\ lost \subseteq Events /\ skipped \in Nat
    BY <1>0 DEF ChanTypes
  <2>4. handled' = handled  BY <1>9 DEF Broadcast
  <2>5. CASE channel' = Append(channel, Head(pending)) /\ UNCHANGED <<skipped, lost>>
    <3>1. channel' \in Seq(Events)  BY <2>1, <2>3, <2>5
    <3>. QED  BY <1>9, <1>a, <2>2, <2>3, <2>4, <2>5, <3>1 DEF Broadcast, TypeInv, ChanTypes
  <2>6. CASE /\ channel # <<>> /\ channel' = Append(Tail(channel), Head(pending))
             /\ skipped' = skipped + 1 /\ lost' = lost \cup {Head(channel)}
    <3>1. Tail(channel) \in Seq(Events) /\ Head(channel) \in Events  BY <2>3, <2>6
    <3>2. channel' \in Seq(Events)  BY <2>1, <2>6, <3>1
    <3>3. lost' \subseteq Events /\ skipped' \in Nat  BY <2>3, <2>6, <3>1
    <3>. QED  BY <1>9, <1>a, <2>2, <2>3, <2>4, <3>2, <3>3 DEF Broadcast, TypeInv, ChanTypes
  <2>7. Len(channel) < Capacity \/ channel # <<>>  BY <1>0, <2>3
  <2>. QED  BY <1>9, <2>5, <2>6, <2>7 DEF Broadcast
<1>10. CASE Processor
  <2>1. ASSUME Lagged PROVE ChanTypes'  BY <1>0, <2>1 DEF Lagged, ChanTypes
  <2>2. ASSUME HandleEvent PROVE ChanTypes'
    <3>1. channel \in Seq(Events) /\ handled \in Seq(Events) /\ channel # <<>>
      BY <1>0, <2>2 DEF HandleEvent, ChanTypes
    <3>2. Head(channel) \in Events /\ Tail(channel) \in Seq(Events)  BY <3>1
    <3>3. channel' \in Seq(Events) /\ handled' \in Seq(Events)
      BY <2>2, <3>1, <3>2 DEF HandleEvent
    <3>. QED  BY <1>0, <2>2, <3>3 DEF HandleEvent, ChanTypes
  <2>. QED  BY <1>10, <1>a, <2>1, <2>2 DEF Processor, Lagged, HandleEvent, TypeInv
<1>11. CASE UNCHANGED vars
  BY <1>11, <1>a DEF vars, TypeInv
<1>. QED
  BY <1>1, <1>2, <1>3, <1>4, <1>5, <1>6, <1>7, <1>8, <1>9, <1>10, <1>11
  DEF Next, Loop, Message

(* The types of every variable, for any transactions whose only data that  *)
(* decodes to an event is the target program's.                            *)
THEOREM TypeCorrect == OnlyTargetDecodes => (Spec => []TypeOK)
<1>. SUFFICES ASSUME OnlyTargetDecodes PROVE Spec => []TypeOK
  OBVIOUS
<1>1. Init => TypeInv
  BY ListenerAssumption
  DEF Init, TypeInv, NetTypes, LoopTypes, MsgTypes, ChanTypes, NoPing
<1>2. TypeInv /\ [Next]_vars => TypeInv'
  BY TypeStep
<1>3. TypeInv => TypeOK
  BY DEF TypeInv, TypeOK, NetTypes, LoopTypes, MsgTypes, ChanTypes
<1>. QED  BY <1>1, <1>2, <1>3, PTL DEF Spec

-----------------------------------------------------------------------------
(* No event is dropped *)

Accounted(e) == In(e, pending) \/ In(e, channel) \/ In(e, handled) \/ e \in lost

(* The parser finds the events a notification shows, in nested logs. *)
LEMMA ShownFound ==
  ASSUME LogsNest, NEW e \in Events, e[2] <= ShownOf[e[1]]
  PROVE  e[1] \in Txs /\ e[2] \in ShownEvents[e[1]] /\ e = <<e[1], e[2]>>
<1>1. PICK t \in Txs : e \in {t} \X EmittedLines(LogsOf[t])
  BY DEF Events
<1>2. e[1] = t /\ e[2] \in EmittedLines(LogsOf[t]) /\ e = <<e[1], e[2]>>
  BY <1>1
<1>. DEFINE n == e[2]
<1>3. LogsOf[t] \in Seq(LogLine) /\ n \in 1..Len(LogsOf[t]) /\ ShownOf[t] \in Nat
  BY <1>2, ListenerAssumption DEF Txs, EmittedLines
<1>4. LogsOf[t][n].key # NoKey
  BY <1>2, <1>3, ListenerAssumption DEF EmittedLines, Keys, NoKey
<1>5. n \in EventLines(LogsOf[t])
  BY <1>2, <1>3, <1>4, ParserFinds DEF LogsNest
<1>6. n \in ShownEvents[t]
  BY <1>2, <1>3, <1>5, FoundEvents
<1>. QED  BY <1>2, <1>6

(* Moving the head of one sequence to the end of another loses nothing. *)
LEMMA HeadMoves ==
  ASSUME NEW X, NEW s \in Seq(X), NEW r \in Seq(X), r # <<>>, NEW e
  PROVE  /\ In(e, r) <=> e = Head(r) \/ In(e, Tail(r))
         /\ In(e, Append(s, Head(r))) <=> In(e, s) \/ e = Head(r)
<1>1. /\ Len(r) \in Nat /\ Len(r) >= 1 /\ Head(r) = r[1] /\ Len(Tail(r)) = Len(r) - 1
      /\ \A i \in 1..Len(Tail(r)) : Tail(r)[i] = r[i + 1]
  OBVIOUS
<1>. DEFINE s2 == Append(s, Head(r))  r2 == Tail(r)
<1>2. /\ Len(s) \in Nat /\ Len(s2) = Len(s) + 1 /\ s2[Len(s) + 1] = Head(r)
      /\ \A i \in 1..Len(s) : s2[i] = s[i]
  OBVIOUS
<1>. HIDE DEF s2, r2
<1>3. In(e, r) <=> e = Head(r) \/ In(e, r2)
  <2>1. ASSUME NEW i \in 1..Len(r), r[i] = e PROVE e = Head(r) \/ In(e, r2)
    <3>1. CASE i = 1  BY <1>1, <2>1, <3>1
    <3>2. CASE i # 1
      <4>1. i - 1 \in 1..Len(r2) /\ r2[i - 1] = e  BY <1>1, <2>1, <3>2 DEF r2
      <4>. QED  BY <4>1 DEF In
    <3>. QED  BY <3>1, <3>2
  <2>2. ASSUME NEW i \in 1..Len(r2), r2[i] = e PROVE In(e, r)
    <3>1. i + 1 \in 1..Len(r) /\ r[i + 1] = e  BY <1>1, <2>2 DEF r2
    <3>. QED  BY <3>1 DEF In
  <2>3. e = Head(r) => In(e, r)
    <3>1. 1 \in 1..Len(r) /\ r[1] = Head(r)  BY <1>1
    <3>. QED  BY <3>1 DEF In
  <2>. QED  BY <2>1, <2>2, <2>3 DEF In
<1>4. In(e, s2) <=> In(e, s) \/ e = Head(r)
  <2>1. Len(s) + 1 \in 1..Len(s2) /\ \A i \in 1..Len(s2) : i \in 1..Len(s) \/ i = Len(s) + 1
    BY <1>2
  <2>2. \A i \in 1..Len(s) : i \in 1..Len(s2)  BY <1>2
  <2>. QED  BY <1>2, <2>1, <2>2 DEF In
<1>. QED  BY <1>3, <1>4 DEF s2, r2

LEMMA AccountStep ==
  ASSUME LogsNest, InboxInv, FlowInv, ReadEventsAccounted, [Next]_vars
  PROVE  ReadEventsAccounted'
<1>. DEFINE done == processed_signatures
<1>. SUFFICES ASSUME NEW e \in Events, e[1] \in done', fetching' # e[1], e[2] <= ShownOf[e[1]]
              PROVE  Accounted(e)'
  BY DEF ReadEventsAccounted, Accounted
<1>0. e[1] \in done /\ fetching # e[1] => Accounted(e)
  BY DEF ReadEventsAccounted, Accounted
<1>i. e[1] \in Txs /\ e[2] \in ShownEvents[e[1]] /\ e = <<e[1], e[2]>>
  BY ShownFound
<1>s. ASSUME NEW t \in Txs, e[1] = t,
             \/ pending' = EventsAt(t, ShownEvents[t])
             \/ pending' = EventsAt(t, MergedEvents[t])
      PROVE  In(e, pending)'
  <2>1. Len(LogsOf[t]) \in Nat /\ EventLines(LogsOf[t]) \subseteq 1..Len(LogsOf[t])
    BY ListenerAssumption DEF Txs, EventLines
  <2>2. /\ ShownEvents[t] \in SUBSET (1..Len(LogsOf[t]))
        /\ MergedEvents[t] \in SUBSET (1..Len(LogsOf[t]))
        /\ e[2] \in ShownEvents[t] /\ e[2] \in MergedEvents[t]
    BY <1>i, <1>s, <2>1, FoundEvents
  <2>3. /\ In(<<t, e[2]>>, EventsAt(t, ShownEvents[t]))
        /\ In(<<t, e[2]>>, EventsAt(t, MergedEvents[t]))
    BY <2>1, <2>2, EventsAtIs
  <2>. QED  BY <1>i, <1>s, <2>3 DEF In
<1>p. ASSUME UNCHANGED <<processed_signatures, fetching, pending, channel, handled, lost>>
      PROVE  Accounted(e)'
  BY <1>p, <1>0 DEF Accounted, In
<1>1. CASE ReadMessage
  <2>. DEFINE t == Head(inbox)
  <2>1. /\ t \in Txs /\ fetching = 0 /\ pending = <<>> /\ t # 0
        /\ UNCHANGED <<channel, handled, lost>>
    <3>1. inbox # <<>> /\ fetching = 0 /\ pending = <<>> /\ UNCHANGED <<channel, handled, lost>>
      BY <1>1 DEF ReadMessage, Idle, chanVars
    <3>2. t \in Txs  BY <3>1 DEF InboxInv
    <3>. QED  BY <3>1, <3>2, ListenerAssumption DEF Txs
  <2>2. CASE UNCHANGED msgVars
    BY <1>p, <2>1, <2>2 DEF msgVars
  <2>3. CASE done' = done \cup {t} /\ (fetching' = t \/ pending' = EventsAt(t, ShownEvents[t]))
    <3>1. CASE e[1] = t
      <4>1. pending' = EventsAt(t, ShownEvents[t])  BY <2>3, <3>1
      <4>. QED  BY <1>s, <2>1, <3>1, <4>1 DEF Accounted
    <3>2. CASE e[1] # t
      <4>1. Accounted(e) /\ ~In(e, pending)
        BY <1>0, <1>i, <2>1, <2>3, <3>2 DEF In, Txs
      <4>. QED  BY <2>1, <4>1 DEF Accounted, In
    <3>. QED  BY <3>1, <3>2
  <2>. QED  BY <1>1, <2>2, <2>3 DEF ReadMessage
<1>2. CASE FetchOk \/ FetchNothing
  <2>1. /\ fetching \in Txs /\ done' = done /\ pending = <<>> /\ UNCHANGED <<channel, handled, lost>>
        /\ \/ pending' = EventsAt(fetching, ShownEvents[fetching])
           \/ pending' = EventsAt(fetching, MergedEvents[fetching])
    BY <1>2 DEF FetchOk, FetchNothing, FlowInv, chanVars
  <2>2. CASE e[1] = fetching
    BY <1>s, <2>1, <2>2 DEF Accounted
  <2>3. CASE e[1] # fetching
    <3>1. Accounted(e) /\ ~In(e, pending)  BY <1>0, <2>1, <2>3 DEF In
    <3>. QED  BY <2>1, <3>1 DEF Accounted, In
  <2>. QED  BY <2>2, <2>3
<1>3. CASE Broadcast
  <2>1. /\ pending # <<>> /\ pending' = Tail(pending) /\ handled' = handled
        /\ Accounted(e)
    BY <1>0, <1>3 DEF Broadcast
  <2>2. pending \in Seq(Mark) /\ channel \in Seq(Mark)  BY DEF FlowInv
  <2>3. CASE channel' = Append(channel, Head(pending)) /\ lost' = lost
    <3>1. In(e, pending) <=> e = Head(pending) \/ In(e, Tail(pending))
      BY <2>1, <2>2, HeadMoves
    <3>2. In(e, channel') <=> In(e, channel) \/ e = Head(pending)
      BY <2>1, <2>2, <2>3, HeadMoves
    <3>3. Accounted(e)' <=> In(e, pending') \/ In(e, channel') \/ In(e, handled') \/ e \in lost'
      BY DEF Accounted, In
    <3>4. In(e, handled') <=> In(e, handled)  BY <2>1
    <3>. QED  BY <2>1, <2>3, <3>1, <3>2, <3>3, <3>4 DEF Accounted
  <2>4. CASE /\ channel # <<>> /\ channel' = Append(Tail(channel), Head(pending))
             /\ lost' = lost \cup {Head(channel)}
    <3>1. In(e, pending) <=> e = Head(pending) \/ In(e, Tail(pending))
      BY <2>1, <2>2, HeadMoves
    <3>2. In(e, channel) <=> e = Head(channel) \/ In(e, Tail(channel))
      BY <2>2, <2>4, HeadMoves
    <3>3. Tail(channel) \in Seq(Mark)  BY <2>2, <2>4
    <3>4. In(e, channel') <=> In(e, Tail(channel)) \/ e = Head(pending)
      BY <2>1, <2>2, <2>4, <3>3, HeadMoves
    <3>5. /\ Accounted(e)' <=> In(e, pending') \/ In(e, channel') \/ In(e, handled') \/ e \in lost'
      BY DEF Accounted, In
    <3>6. In(e, handled') <=> In(e, handled)  BY <2>1
    <3>. QED  BY <2>1, <2>4, <3>1, <3>2, <3>4, <3>5, <3>6 DEF Accounted
  <2>5. Len(channel) < Capacity \/ channel # <<>>  BY <2>2, ListenerAssumption
  <2>. QED  BY <1>3, <2>3, <2>4, <2>5 DEF Broadcast
<1>4. CASE HandleEvent
  <2>1. /\ channel # <<>> /\ handled' = Append(handled, Head(channel))
        /\ channel' = Tail(channel) /\ pending' = pending /\ lost' = lost /\ Accounted(e)
    BY <1>0, <1>4 DEF HandleEvent, msgVars
  <2>2. handled \in Seq(Mark) /\ channel \in Seq(Mark)  BY DEF FlowInv
  <2>3. In(e, channel) <=> e = Head(channel) \/ In(e, Tail(channel))
    BY <2>1, <2>2, HeadMoves
  <2>4. In(e, handled') <=> In(e, handled) \/ e = Head(channel)
    BY <2>1, <2>2, HeadMoves
  <2>5. Accounted(e)' <=> In(e, pending') \/ In(e, channel') \/ In(e, handled') \/ e \in lost'
    BY DEF Accounted, In
  <2>. QED  BY <2>1, <2>3, <2>4, <2>5 DEF Accounted
<1>5. ASSUME NEW t \in Txs, Repeat(t) PROVE Accounted(e)'
  BY <1>p, <1>5 DEF Repeat, msgVars, chanVars
<1>6. ASSUME NEW how \in {"closed", "silent"}, NEW n \in 0..Len(inbox), Break(how, n)
      PROVE Accounted(e)'
  BY <1>p, <1>6 DEF Break, msgVars, chanVars
<1>7. CASE Execute \/ Loop \/ PingOk \/ PingErr \/ Lagged \/ UNCHANGED vars
  BY <1>p, <1>7 DEF Execute, Loop, Connecting, ConnectOk, ConnectErr, SubscribeErr, Retry,
     SubscribeOk, SleepOver, StreamEnds, NodePings, PongSent, PongErr, Leave, PingOk, PingErr, Lagged, vars, msgVars, chanVars
<1>. QED  BY <1>1, <1>2, <1>3, <1>4, <1>5, <1>6, <1>7 DEF Next, Message, Processor

(* Every event a notification shows, once it was read, is on its way,      *)
(* handled, or one the processor lagged behind, for any transactions whose *)
(* lines nest: the parser finds it, the comparison with the fetched        *)
(* transaction keeps it, and the queues lose it only to the channel's limit. *)
THEOREM NoEventDropped ==
  LogsNest => (Spec => []ReadEventsAccounted)
<1>. SUFFICES ASSUME LogsNest PROVE Spec => []ReadEventsAccounted
  OBVIOUS
<1>1. Init => InboxInv /\ FlowInv /\ ReadEventsAccounted
  BY DEF Init, InboxInv, FreshAreLater, FlowInv, Ordered, Before, Of, ReadEventsAccounted
<1>2. InboxInv /\ FlowInv /\ ReadEventsAccounted /\ [Next]_vars
        => (InboxInv /\ FlowInv /\ ReadEventsAccounted)'
  BY InboxStep, FlowStep, AccountStep
<1>. QED  BY <1>1, <1>2, PTL DEF Spec

-----------------------------------------------------------------------------
(* The feed *)

(* While a transaction is fetched it is the latest of those read.          *)
FetchInv ==
  /\ processed_signatures \subseteq Txs
  /\ fetching # 0 => /\ fetching \in Wanted
                     /\ \A p \in processed_signatures \ {fetching} : p < fetching

(* The notification to be read next is of a transaction in chain order.    *)
LEMMA NextIsLater ==
  ASSUME InboxInv, inbox # <<>>, ~Skips(Head(inbox))
  PROVE  /\ Head(inbox) \in Wanted /\ Head(inbox) \notin processed_signatures
         /\ \A p \in processed_signatures : p < Head(inbox)
<1>1. 1 \in 1..Len(inbox) /\ Head(inbox) = inbox[1]  BY DEF InboxInv
<1>2. inbox[1] \in Txs  BY <1>1 DEF InboxInv
<1>3. Fresh(inbox, processed_signatures, 1)
  BY <1>1 DEF Fresh, Skips, Ignored, InboxInv
<1>4. Later(inbox, processed_signatures, 1)
  BY <1>1, <1>3 DEF InboxInv, FreshAreLater
<1>. QED  BY <1>1, <1>2, <1>3, <1>4 DEF Later, Fresh, Ignored, Wanted

(* What a transaction taken in is broadcast as has all the events shown,   *)
(* and none the program did not emit.                                      *)
LEMMA FoundAreEmissions ==
  ASSUME LogsNest, OnlyTargetDecodes, NEW t \in Txs
  PROVE  /\ EventsAt(t, ShownEvents[t]) \in Emissions[t]
         /\ EventsAt(t, MergedEvents[t]) \in Emissions[t]
<1>1. LogsOf[t] \in Seq(LogLine) /\ Len(LogsOf[t]) \in Nat /\ ShownOf[t] \in Nat
  BY ListenerAssumption DEF Txs
<1>2. EventLines(LogsOf[t]) \subseteq EmittedLines(LogsOf[t])
  BY DEF OnlyTargetDecodes, EventLines, EmittedLines
<1>3. ShownEvents[t] \subseteq EmittedLines(LogsOf[t])
      /\ MergedEvents[t] \subseteq EmittedLines(LogsOf[t])
      /\ ShownEvents[t] \subseteq MergedEvents[t]
  BY <1>2, FoundEvents
<1>4. EmittedLines(LogsOf[t]) \cap 1..ShownOf[t] \subseteq ShownEvents[t]
  <2>1. ASSUME NEW n \in EmittedLines(LogsOf[t]), n \in 1..ShownOf[t]
        PROVE  n \in ShownEvents[t]
    <3>1. <<t, n>> \in Events  BY <2>1 DEF Events
    <3>2. n <= ShownOf[t]  BY <1>1, <2>1
    <3>. QED  BY <3>1, <3>2, ShownFound
  <2>. QED  BY <2>1
<1>. QED  BY <1>3, <1>4 DEF Emissions

(* What is true of two sequences joined, when one of them loses or passes  *)
(* on an event.                                                            *)
LEMMA Joined ==
  ASSUME NEW X, NEW s \in Seq(X), NEW r \in Seq(X)
  PROVE  /\ s \o r \in Seq(X) /\ Len(s \o r) = Len(s) + Len(r)
         /\ s \o <<>> = s
         /\ r # <<>> => s \o r # <<>> /\ Append(s, Head(r)) \o Tail(r) = s \o r
         /\ s # <<>> => /\ s \o r # <<>> /\ Head(s \o r) = Head(s)
                        /\ Tail(s \o r) = Tail(s) \o r
<1>1. /\ Len(s) \in Nat /\ Len(r) \in Nat /\ s \o r \in Seq(X)
      /\ Len(s \o r) = Len(s) + Len(r)
      /\ \A i \in 1..Len(s) + Len(r) :
           (s \o r)[i] = IF i <= Len(s) THEN s[i] ELSE r[i - Len(s)]
  BY ConcatProperties
<1>2. s \o <<>> = s  OBVIOUS
<1>3. ASSUME r # <<>> PROVE s \o r # <<>> /\ Append(s, Head(r)) \o Tail(r) = s \o r
  <2>. DEFINE a == Append(s, Head(r))  b == Tail(r)
  <2>1. /\ Len(r) >= 1 /\ b \in Seq(X) /\ Len(b) = Len(r) - 1
        /\ \A i \in 1..Len(b) : b[i] = r[i + 1]
    BY <1>1, <1>3
  <2>2. /\ a \in Seq(X) /\ Len(a) = Len(s) + 1 /\ a[Len(s) + 1] = r[1]
        /\ \A i \in 1..Len(s) : a[i] = s[i]
    BY <1>1, <1>3
  <2>. HIDE DEF a, b
  <2>3. /\ a \o b \in Seq(X) /\ Len(a \o b) = Len(s) + Len(r)
        /\ \A i \in 1..Len(s) + Len(r) :
             (a \o b)[i] = IF i <= Len(s) + 1 THEN a[i] ELSE b[i - (Len(s) + 1)]
    <3>1. /\ a \o b \in Seq(X) /\ Len(a \o b) = Len(a) + Len(b)
          /\ \A i \in 1..Len(a) + Len(b) :
               (a \o b)[i] = IF i <= Len(a) THEN a[i] ELSE b[i - Len(a)]
      BY <2>1, <2>2, ConcatProperties
    <3>2. Len(a) = Len(s) + 1 /\ Len(a) + Len(b) = Len(s) + Len(r)
      BY <1>1, <2>1, <2>2
    <3>. QED  BY <3>1, <3>2
  <2>4. ASSUME NEW i \in 1..Len(s) + Len(r) PROVE (a \o b)[i] = (s \o r)[i]
    <3>1. CASE i \in 1..Len(s)  BY <1>1, <2>2, <2>3, <3>1
    <3>2. CASE i = Len(s) + 1
      <4>1. (a \o b)[i] = a[i]  BY <1>1, <2>3, <3>2
      <4>2. (s \o r)[i] = r[i - Len(s)] /\ i - Len(s) = 1  BY <1>1, <3>2
      <4>. QED  BY <2>2, <3>2, <4>1, <4>2
    <3>3. CASE i > Len(s) + 1
      <4>1. i - (Len(s) + 1) \in 1..Len(b) /\ (i - (Len(s) + 1)) + 1 = i - Len(s)
        BY <1>1, <2>1, <3>3
      <4>2. b[i - (Len(s) + 1)] = r[i - Len(s)]  BY <2>1, <4>1
      <4>3. (a \o b)[i] = b[i - (Len(s) + 1)]  BY <1>1, <2>3, <3>3
      <4>4. (s \o r)[i] = r[i - Len(s)]  BY <1>1, <3>3
      <4>. QED  BY <4>2, <4>3, <4>4
    <3>4. i \in 1..Len(s) \/ i = Len(s) + 1 \/ i > Len(s) + 1  BY <1>1
    <3>. QED  BY <3>1, <3>2, <3>3, <3>4
  <2>5. a \o b = s \o r
    <3>. DEFINE u == a \o b  v == s \o r
    <3>1. u \in Seq(X) /\ v \in Seq(X) /\ Len(u) = Len(v)  BY <1>1, <2>3
    <3>2. \A i \in 1..Len(u) : u[i] = v[i]  BY <2>3, <2>4
    <3>. HIDE DEF u, v
    <3>3. u = v  BY <3>1, <3>2, SeqEqual
    <3>. QED  BY <3>3 DEF u, v
  <2>6. s \o r # <<>>  BY <1>1, <2>1
  <2>. QED  BY <2>5, <2>6 DEF a, b
<1>4. ASSUME s # <<>>
      PROVE s \o r # <<>> /\ Head(s \o r) = Head(s) /\ Tail(s \o r) = Tail(s) \o r
  <2>. DEFINE c == s \o r  t == Tail(s)
  <2>1. Len(s) >= 1 /\ t \in Seq(X) /\ Len(t) = Len(s) - 1 /\ Head(s) = s[1]
        /\ \A i \in 1..Len(t) : t[i] = s[i + 1]
    <3>1. Len(s) >= 1  BY <1>1, <1>4
    <3>. QED  BY <1>4, <3>1, HeadTailProperties
  <2>2. /\ c \in Seq(X) /\ Len(c) = Len(s) + Len(r) /\ c # <<>>
        /\ \A i \in 1..Len(c) : c[i] = IF i <= Len(s) THEN s[i] ELSE r[i - Len(s)]
    BY <1>1, <2>1
  <2>. HIDE DEF c, t
  <2>3. Head(c) = s[1]  BY <1>1, <2>1, <2>2
  <2>4. Tail(c) \in Seq(X) /\ Len(Tail(c)) = Len(c) - 1
        /\ \A i \in 1..Len(Tail(c)) : Tail(c)[i] = c[i + 1]
    BY <2>2, HeadTailProperties
  <2>5. /\ t \o r \in Seq(X) /\ Len(t \o r) = Len(c) - 1
        /\ \A i \in 1..Len(c) - 1 :
             (t \o r)[i] = IF i <= Len(t) THEN t[i] ELSE r[i - Len(t)]
    <3>1. /\ t \o r \in Seq(X) /\ Len(t \o r) = Len(t) + Len(r)
          /\ \A i \in 1..Len(t) + Len(r) :
               (t \o r)[i] = IF i <= Len(t) THEN t[i] ELSE r[i - Len(t)]
      BY <2>1, ConcatProperties
    <3>2. Len(t) + Len(r) = Len(c) - 1  BY <1>1, <2>1, <2>2
    <3>. QED  BY <3>1, <3>2
  <2>6. ASSUME NEW i \in 1..Len(c) - 1 PROVE Tail(c)[i] = (t \o r)[i]
    <3>1. i \in Nat /\ i + 1 \in 1..Len(c) /\ Tail(c)[i] = c[i + 1]
      BY <1>1, <2>1, <2>2, <2>4
    <3>2. CASE i <= Len(t)
      <4>1. i \in 1..Len(t) /\ i + 1 <= Len(s)  BY <1>1, <2>1, <3>2
      <4>2. c[i + 1] = s[i + 1]  BY <2>2, <3>1, <4>1
      <4>3. (t \o r)[i] = t[i]  BY <2>5, <3>2
      <4>. QED  BY <2>1, <3>1, <4>1, <4>2, <4>3
    <3>3. CASE ~(i <= Len(t))
      <4>1. ~(i + 1 <= Len(s)) /\ (i + 1) - Len(s) = i - Len(t)
        BY <1>1, <2>1, <3>1, <3>3
      <4>2. c[i + 1] = r[(i + 1) - Len(s)]  BY <2>2, <3>1, <4>1
      <4>3. (t \o r)[i] = r[i - Len(t)]  BY <2>5, <3>3
      <4>. QED  BY <3>1, <4>1, <4>2, <4>3
    <3>. QED  BY <3>2, <3>3
  <2>7. Tail(c) = t \o r
    <3>. DEFINE u == Tail(c)  v == t \o r
    <3>1. u \in Seq(X) /\ v \in Seq(X) /\ Len(u) = Len(v)  BY <2>4, <2>5
    <3>2. \A i \in 1..Len(u) : u[i] = v[i]  BY <2>4, <2>6
    <3>. HIDE DEF u, v
    <3>3. u = v  BY <3>1, <3>2, SeqEqual
    <3>. QED  BY <3>3 DEF u, v
  <2>. QED  BY <2>1, <2>2, <2>3, <2>7 DEF c, t
<1>. QED  BY <1>1, <1>2, <1>3, <1>4

LEMMA FetchStep ==
  ASSUME InboxInv, FlowInv, FetchInv, [Next]_vars PROVE FetchInv'
<1>. USE DEF netVars, loopVars, msgVars, chanVars
<1>p. ASSUME UNCHANGED <<processed_signatures, fetching>> PROVE FetchInv'
  BY <1>p DEF FetchInv
<1>1. CASE ReadMessage
  <2>1. inbox # <<>> /\ fetching = 0  BY <1>1 DEF ReadMessage, Idle
  <2>2. CASE Skips(Head(inbox))
    BY <1>1, <1>p, <2>2 DEF ReadMessage
  <2>3. CASE ~Skips(Head(inbox))
    BY <1>1, <2>1, <2>3, NextIsLater DEF ReadMessage, FetchInv, Wanted
  <2>. QED  BY <2>2, <2>3
<1>2. CASE FetchOk \/ FetchNothing  BY <1>2 DEF FetchOk, FetchNothing, FetchInv
<1>3. CASE Broadcast  BY <1>3, <1>p DEF Broadcast
<1>4. CASE Processor  BY <1>4, <1>p DEF Processor, Lagged, HandleEvent
<1>5. ASSUME NEW t \in Txs, Repeat(t) PROVE FetchInv'  BY <1>5, <1>p DEF Repeat
<1>6. ASSUME NEW how \in {"closed", "silent"}, NEW n \in 0..Len(inbox), Break(how, n)
      PROVE FetchInv'
  BY <1>6, <1>p DEF Break
<1>7. CASE Execute \/ Loop \/ PingOk \/ PingErr \/ UNCHANGED vars
  BY <1>7, <1>p DEF Execute, Loop, Connecting, ConnectOk, ConnectErr, SubscribeErr, Retry,
     SubscribeOk, SleepOver, StreamEnds, NodePings, PongSent, PongErr, Leave, PingOk, PingErr, vars
<1>. QED  BY <1>1, <1>2, <1>3, <1>4, <1>5, <1>6, <1>7 DEF Next, Message

(* A transaction read and its events found are published at once. *)
LEMMA Publishes ==
  ASSUME FlowInv, NEW t \in Wanted, pending = <<>>, pending' \in Emissions[t],
         \A p \in processed_signatures \ {fetching} : p < t,
         processed_signatures' \ {fetching'} = (processed_signatures \ {fetching}) \cup {t},
         UNCHANGED <<channel, skipped, lost, handled>>
  PROVE  ToHandler!Next
<1>1. channel \o pending = channel  BY Joined DEF FlowInv
<1>2. (channel \o pending)' = (channel \o pending) \o pending'  BY <1>1
<1>. QED  BY <1>2 DEF ToHandler!Next, ToHandler!Publish

(* Every step of the listener is a step of the feed or leaves it alone. *)
LEMMA FeedStep ==
  ASSUME LogsNest, OnlyTargetDecodes, InboxInv, FlowInv, FetchInv, [Next]_vars
  PROVE  [ToHandler!Next]_(ToHandler!vars)
<1>. USE DEF netVars, loopVars, msgVars, chanVars
<1>t. channel \in Seq(Mark) /\ pending \in Seq(Mark) /\ Capacity \in Nat \ {0}
      /\ Len(channel) \in Nat /\ Len(pending) \in Nat
  BY ListenerAssumption DEF FlowInv
<1>p. ASSUME UNCHANGED <<processed_signatures, fetching, pending, chanVars>>
      PROVE  UNCHANGED ToHandler!vars
  BY <1>p DEF ToHandler!vars
<1>1. CASE ReadMessage
  <2>. DEFINE t == Head(inbox)
  <2>1. inbox # <<>> /\ fetching = 0 /\ pending = <<>>  BY <1>1 DEF ReadMessage, Idle
  <2>2. CASE Skips(t)  BY <1>1, <1>p, <2>2 DEF ReadMessage
  <2>3. CASE ~Skips(t)
    <3>1. t \in Wanted /\ t \in Txs /\ t # 0 /\ t \notin processed_signatures
          /\ \A p \in processed_signatures : p < t
      BY <2>1, <2>3, NextIsLater, ListenerAssumption DEF Wanted, Txs
    <3>2. 0 \notin processed_signatures
      BY ListenerAssumption DEF FetchInv, Txs
    <3>3. processed_signatures' = processed_signatures \cup {t}
          /\ UNCHANGED <<channel, skipped, lost, handled>>
      BY <1>1, <2>3 DEF ReadMessage
    <3>4. CASE Nested(t)
      <4>1. fetching' = t /\ pending' = pending
        BY <1>1, <2>3, <3>4 DEF ReadMessage
      <4>2. processed_signatures' \ {fetching'} = processed_signatures \ {fetching}
        BY <2>1, <3>1, <3>2, <3>3, <4>1
      <4>. QED  BY <3>3, <4>1, <4>2 DEF ToHandler!vars
    <3>5. CASE ~Nested(t)
      <4>1. fetching' = 0 /\ pending' = EventsAt(t, ShownEvents[t])
        BY <1>1, <2>3, <3>5 DEF ReadMessage
      <4>2. processed_signatures' \ {fetching'} = (processed_signatures \ {fetching}) \cup {t}
        BY <2>1, <3>1, <3>2, <3>3, <4>1
      <4>3. pending' \in Emissions[t]  BY <3>1, <4>1, FoundAreEmissions
      <4>. QED  BY <2>1, <3>1, <3>3, <4>2, <4>3, Publishes
    <3>. QED  BY <3>4, <3>5
  <2>. QED  BY <2>2, <2>3
<1>2. CASE FetchOk \/ FetchNothing
  <2>1. /\ fetching # 0 /\ fetching \in Wanted /\ fetching \in processed_signatures
        /\ pending = <<>> /\ \A p \in processed_signatures \ {fetching} : p < fetching
    BY <1>2 DEF FetchOk, FetchNothing, FlowInv, FetchInv
  <2>2. 0 \notin processed_signatures  BY ListenerAssumption DEF FetchInv, Txs
  <2>3. /\ fetching' = 0 /\ UNCHANGED <<processed_signatures, channel, skipped, lost, handled>>
        /\ pending' \in {EventsAt(fetching, MergedEvents[fetching]),
                         EventsAt(fetching, ShownEvents[fetching])}
    BY <1>2 DEF FetchOk, FetchNothing
  <2>4. processed_signatures' \ {fetching'} = (processed_signatures \ {fetching}) \cup {fetching}
    BY <2>1, <2>2, <2>3
  <2>5. pending' \in Emissions[fetching]  BY <2>1, <2>3, FoundAreEmissions DEF Wanted
  <2>. QED  BY <2>1, <2>3, <2>4, <2>5, Publishes
<1>3. CASE Broadcast
  <2>1. pending # <<>> /\ pending' = Tail(pending) /\ UNCHANGED <<processed_signatures, fetching, handled>>
    BY <1>3 DEF Broadcast
  <2>2. CASE Len(channel) < Capacity
    <3>1. channel' = Append(channel, Head(pending)) /\ UNCHANGED <<skipped, lost>>
      BY <1>3, <2>2 DEF Broadcast
    <3>2. (channel \o pending)' = channel \o pending
      BY <1>t, <2>1, <3>1, Joined
    <3>. QED  BY <2>1, <3>1, <3>2 DEF ToHandler!vars
  <2>3. CASE ~(Len(channel) < Capacity)
    <3>1. /\ channel' = Append(Tail(channel), Head(pending))
          /\ skipped' = skipped + 1 /\ lost' = lost \cup {Head(channel)}
      BY <1>3, <2>3 DEF Broadcast
    <3>2. channel # <<>> /\ Len(pending) > 0 /\ Len(channel) >= Capacity
      BY <1>t, <2>1, <2>3
    <3>3. Tail(channel) \in Seq(Mark)  BY <1>t, <3>2
    <3>4. (channel \o pending)' = Tail(channel) \o pending
      BY <1>t, <2>1, <3>1, <3>3, Joined
    <3>5. /\ Tail(channel \o pending) = Tail(channel) \o pending
          /\ Head(channel \o pending) = Head(channel)
          /\ Len(channel \o pending) > Capacity
      BY <1>t, <3>2, Joined
    <3>. QED  BY <2>1, <3>1, <3>4, <3>5 DEF ToHandler!Drop, ToHandler!Next
  <2>. QED  BY <2>2, <2>3
<1>4. CASE Lagged
  BY <1>4 DEF Lagged, ToHandler!Report, ToHandler!Next
<1>5. CASE HandleEvent
  <2>1. channel # <<>>  BY <1>5 DEF HandleEvent
  <2>2. /\ Tail(channel \o pending) = Tail(channel) \o pending
        /\ Head(channel \o pending) = Head(channel) /\ channel \o pending # <<>>
    BY <1>t, <2>1, Joined
  <2>. QED  BY <1>5, <2>2 DEF HandleEvent, ToHandler!Deliver, ToHandler!Next
<1>6. ASSUME NEW t \in Txs, Repeat(t) PROVE UNCHANGED ToHandler!vars
  BY <1>6, <1>p DEF Repeat
<1>7. ASSUME NEW how \in {"closed", "silent"}, NEW n \in 0..Len(inbox), Break(how, n)
      PROVE UNCHANGED ToHandler!vars
  BY <1>7, <1>p DEF Break
<1>8. CASE Execute \/ Loop \/ PingOk \/ PingErr \/ UNCHANGED vars
  BY <1>8, <1>p DEF Execute, Loop, Connecting, ConnectOk, ConnectErr, SubscribeErr, Retry,
     SubscribeOk, SleepOver, StreamEnds, NodePings, PongSent, PongErr, Leave, PingOk, PingErr, vars
<1>. QED
  BY <1>1, <1>2, <1>3, <1>4, <1>5, <1>6, <1>7, <1>8 DEF Next, Message, Processor

(* The listener implements the feed, for any transactions whose lines nest *)
(* and of which only the target's data decodes: connections that break,    *)
(* repeats, the fetch between two messages and the ring of the channel all *)
(* come to publishing each transaction once, in order and at once, and     *)
(* dropping only the oldest event of a backlog that is too long.           *)
THEOREM ListenerImplementsFeed ==
  LogsNest /\ OnlyTargetDecodes => (Spec => ImplementsFeed)
<1>. SUFFICES ASSUME LogsNest, OnlyTargetDecodes PROVE Spec => ImplementsFeed
  OBVIOUS
<1>1. Init => InboxInv /\ FlowInv /\ FetchInv
  BY DEF Init, InboxInv, FreshAreLater, FlowInv, FetchInv, Ordered, Before, Of
<1>2. InboxInv /\ FlowInv /\ FetchInv /\ [Next]_vars => (InboxInv /\ FlowInv /\ FetchInv)'
  BY InboxStep, FlowStep, FetchStep
<1>3. Init => ToHandler!Init
  BY DEF Init, ToHandler!Init
<1>4. InboxInv /\ FlowInv /\ FetchInv /\ [Next]_vars => [ToHandler!Next]_(ToHandler!vars)
  BY FeedStep
<1>. QED  BY <1>1, <1>2, <1>3, <1>4, PTL DEF Spec, ImplementsFeed, ToHandler!Spec
=============================================================================
