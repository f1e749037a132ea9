---------------------------- MODULE ScriptService ----------------------------
(* What the bridge promises its host, with no memory, pointers or loops in   *)
(* it: a table of scripts that only grows, and calls that answer at once or  *)
(* take the service down. A listing is promised for a script that parses; of *)
(* one that does not, nothing is, and listing a long one ends all promises.  *)
EXTENDS ScriptCodec

CONSTANTS Programs, ByteStrings, Outcomes,
          LowWords  \* operations of a script that does not parse that may be listed

VARIABLES table,    \* the scripts compiled so far
          replies,  \* the answers given, in order
          status    \* "up", "down", or "undefined": no promise holds any more

svars == <<table, replies, status>>

-----------------------------------------------------------------------------
(* The reference parse: the operations of a script, to its end, the failing  *)
(* reads among them.                                                         *)
Ops(s) ==
  LET from[pc \in 0..Len(s)] ==
        IF pc = Len(s) THEN <<>> ELSE <<GetOp(s, pc)>> \o from[GetOp(s, pc).next]
  IN  from[0]

WellFormed(s) == \A k \in 1..Len(Ops(s)) : Ops(s)[k].ok

(* A script too long to be listed: it does not parse, and has an operation   *)
(* after the first LowWords.                                                 *)
Overruns(s) ==
  /\ ~WellFormed(s)
  /\ \E k \in 1..Len(Ops(s)) : k > LowWords /\ Ops(s)[k].ok

Row(o) == SizedRow(<<o.op>> \o o.data)

(* Rows nobody promises anything about are shown as none. *)
Listing(s) == IF WellFormed(s) THEN [k \in 1..Len(Ops(s)) |-> Row(Ops(s)[k])] ELSE <<>>

FirstRow(rows) == IF rows = <<>> THEN <<>> ELSE <<rows[1]>>

-----------------------------------------------------------------------------
Init == table = <<>> /\ replies = <<>> /\ status = "up"

Answer(r) == replies' = Append(replies, r) /\ UNCHANGED status

AddScript(s) ==
  /\ status = "up"
  /\ table' = Append(table, s)
  /\ Answer([op |-> "handle", idx |-> Len(table)])

Compile(args) ==
  /\ \A k \in 1..Len(args) : ~Throws(args[k])
  /\ AddScript(FlattenSeq([k \in 1..Len(args) |-> TokenBytes(args[k])]))

Run(idx, outcome) ==
  /\ status = "up"
  /\ Answer([op |-> "run", idx |-> idx, success |-> outcome.ok,
             rows |-> [k \in 1..Len(outcome.stack) |-> SizedRow(outcome.stack[k])]])
  /\ UNCHANGED table

List(idx) ==
  /\ status = "up"
  /\ Answer([op |-> "list", idx |-> idx, known |-> WellFormed(table[idx+1]),
             rows |-> Listing(table[idx+1])])
  /\ UNCHANGED table

Show(idx) ==
  /\ status = "up"
  /\ Answer([op |-> "show", idx |-> idx, rows |-> FirstRow(Listing(table[idx+1]))])
  /\ UNCHANGED table

(* A bad handle, a token that does not parse, no memory: nothing half done   *)
(* remains.                                                                  *)
Fail == status = "up" /\ status' = "down" /\ UNCHANGED <<table, replies>>

(* The host had one listed that is too long: the table and the answers given *)
(* may be anything from then on.                                             *)
Spoil == /\ status = "up" /\ \E idx \in 0..(Len(table) - 1) : Overruns(table[idx+1])
         /\ status' = "undefined"

Undefined == status = "undefined" /\ status' = "undefined"

Next == \/ \E args \in Programs : Compile(args)
        \/ \E s \in ByteStrings : AddScript(s)
        \/ \E idx \in 0..(Len(table) - 1) :
             \/ \E outcome \in Outcomes : Run(idx, outcome)
             \/ List(idx)
             \/ Show(idx)
        \/ Fail \/ Spoil \/ Undefined

Spec == Init /\ [][Next]_svars
=============================================================================
