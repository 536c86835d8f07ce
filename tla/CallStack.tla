------------------------------ MODULE CallStack ------------------------------
(***************************************************************************)
(* EventParser (src/solana/events.rs): how the events of a transaction are *)
(* found in its log lines.  The parser keeps a stack of the programs       *)
(* invoked and decodes the data lines met while the target program is on it. *)
(*                                                                         *)
(* A line is one of                                                        *)
(*   op "invoke": "Program <prog> invoke [depth]"                          *)
(*   op "exit":   "Program <prog> success", "Program <prog> failed: ..."   *)
(*   op "data":   "Program data: ..." written by prog; key stands for what *)
(*                the data decodes to, NoKey if it is no event             *)
(*   op "says":   "Program log: ..."; endish if the text contains " success" *)
(*                or " failed".  A message with " invoke [" in it, which   *)
(*                the parser would take for an invocation, is left out.    *)
(***************************************************************************)
EXTENDS Naturals, Sequences

CONSTANT Target    (* config.program_id *)

NoKey == "nothing"

LogLine == [op : STRING, prog : STRING, depth : Nat, key : STRING, endish : BOOLEAN]

Invoke(p, d) == [op |-> "invoke", prog |-> p, depth |-> d, key |-> NoKey, endish |-> FALSE]
Exit(p)      == [op |-> "exit", prog |-> p, depth |-> 0, key |-> NoKey, endish |-> TRUE]
Data(p, k)   == [op |-> "data", prog |-> p, depth |-> 0, key |-> k, endish |-> FALSE]
Says(b)      == [op |-> "says", prog |-> Target, depth |-> 0, key |-> NoKey, endish |-> b]

OnStack(p, stack) == \E i \in 1..Len(stack) : stack[i] = p

(* One line: a line that mentions an end pops, whoever wrote it.           *)
Push(s, p) == [stack |-> Append(s.stack, p), in_target |-> s.in_target \/ p = Target]
PopFaulty(s) ==   \* a slip a property must notice: any end leaves the target
  [stack |-> SubSeq(s.stack, 1, Len(s.stack) - 1), in_target |-> FALSE]
Pop(s) == LET rest == SubSeq(s.stack, 1, Len(s.stack) - 1)
          IN [stack |-> rest, in_target |-> OnStack(Target, rest)]
Step(s, line) ==
  IF line.op = "invoke" THEN Push(s, line.prog)
  ELSE IF line.endish /\ s.stack # <<>> THEN Pop(s)
  ELSE s

(* The parser's state after each line. *)
States(logs) ==
  LET after[n \in 0..Len(logs)] ==
        IF n = 0 THEN [stack |-> <<>>, in_target |-> FALSE]
                 ELSE Step(after[n - 1], logs[n])
  IN after

(* The lines parse_events_with_call_stack makes events of. *)
EventLines(logs) ==
  LET after == States(logs)
  IN {n \in 1..Len(logs) :
        /\ logs[n].op = "data" /\ logs[n].key # NoKey
        /\ after[n].in_target}

(* The programs under way after each line, outermost first, as the runtime *)
(* keeps them: a line is written by the program invoked last.              *)
CallsAfter(calls, line) ==
  IF line.op = "invoke" THEN Append(calls, line.prog)
  ELSE IF line.op = "exit" /\ calls # <<>> THEN SubSeq(calls, 1, Len(calls) - 1)
  ELSE calls
Calls(logs) ==
  LET after[n \in 0..Len(logs)] ==
        IF n = 0 THEN <<>> ELSE CallsAfter(after[n - 1], logs[n])
  IN after

(* What the parser counts on: calls end in the order of a stack, and only  *)
(* the line that ends a call reads like one.                               *)
WellNested(logs) ==
  LET calls == Calls(logs)
  IN \A n \in 1..Len(logs) :
       /\ logs[n].op # "invoke" => (logs[n].endish <=> logs[n].op = "exit")
       /\ logs[n].op \in {"exit", "data"} =>
            calls[n - 1] # <<>> /\ calls[n - 1][Len(calls[n - 1])] = logs[n].prog

(* The lines that are events: the data the target program writes.          *)
EmittedLines(logs) ==
  {n \in 1..Len(logs) : logs[n].op = "data" /\ logs[n].prog = Target}
=============================================================================
