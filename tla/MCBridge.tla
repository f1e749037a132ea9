------------------------------ MODULE MCBridge -------------------------------
(* Small instances of Bridge for TLC. Sizes of data sit on both sides of the *)
(* boundaries of the code: 75/76 and 255/256 (push encodings), 127/128       *)
(* (signed row length) and 255/256 (uint8_t row length). One word is unused, *)
(* so that a script of two operations that does not parse overruns it.       *)
EXTENDS BridgeProps

Bytes(n) == [k \in 1..n |-> 7]

One  == [form |-> "dec", value |-> 1]
Two  == [form |-> "dec", value |-> 2]
N200 == [form |-> "dec", value |-> 200]
Add  == [form |-> "op", name |-> "OP_ADD"]
Bad  == [form |-> "op", name |-> "OP_NOSUCH"]
Push == [form |-> "op", name |-> "OP_PUSHDATA1"]
Hex5 == [form |-> "hex", upper |-> TRUE, digits |-> <<0, 2, 4, 5, 6, 7, 5, 1, 1>>]
Wide == [form |-> "hex", upper |-> FALSE, digits |-> <<0, 8, 0, 0, 0, 0, 0, 0, 0>>]
Long == [form |-> "hex", upper |-> TRUE, digits |-> [k \in 1..152 |-> k % 16]]
None == [form |-> "empty"]

MCTokens == {One, Two, N200, Add, Bad, Push, Hex5, Wide, Long, None}

MCPrograms == { <<Add, Bad, N200>>, <<Push, None, Add>>, <<Long>>, <<Hex5, Add>>, <<Add, Wide>> }

\* README.md:16 and run.js:4
ReadmePrograms == { <<One, Two, Add>> }

MCByteStrings == {
  <<>>,
  <<2, 7>>,                        \* a push cut short
  <<1, 5, 76, 147>>,               \* an operation, then a size cut short
  <<81, 147, 1>>,                  \* one operation more than LowWords, then a push cut short
  <<77, 255, 0>> \o Bytes(255) }   \* a row of 256 bytes: its length wraps

MCGarbage == {<<9>>}

MCOutcomes == {
  [ok |-> TRUE,  stack |-> <<>>],
  [ok |-> TRUE,  stack |-> <<<<3>>, Bytes(127)>>],
  [ok |-> FALSE, stack |-> <<Bytes(257)>>],
  [ok |-> FALSE, stack |-> <<<<1>>, Bytes(128)>>] }
=============================================================================
