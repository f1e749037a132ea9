----------------------------- MODULE ScriptCodec -----------------------------
(* The byte-level vocabulary of the bridge: how one token of a program is    *)
(* turned into script bytes (encodeOp), how one operation is read back       *)
(* (CScript::GetOp, external) and how a byte vector becomes a length-prefixed *)
(* row for the host (strvecToSizedCharPtr).                                  *)
(*                                                                           *)
(* A program token is a record; its form says how encodeOp classifies the C  *)
(* string it stands for:                                                     *)
(*   [form |-> "empty"]                        ""                            *)
(*   [form |-> "op",  name |-> n]              "OP..."                       *)
(*   [form |-> "hex", upper |-> b, digits |-> d]  "0X..." (b) or "0x..."     *)
(*   [form |-> "dec", value |-> v]             a number std::stoi accepts    *)
(*   [form |-> "junk"]                         what std::stoi throws on      *)
EXTENDS Integers, Sequences, SequencesExt, Powers

Byte == 0..255
Data == Seq(Byte)
INT_MAX == 2147483647

(* A number fits an int, and no string is longer than 32-bit addresses allow. *)
ProgramTokens ==
  [form : {"empty", "junk"}] \cup [form : {"op"}, name : STRING]
    \cup [form : {"dec"}, value : (-INT_MAX - 1)..INT_MAX]
    \cup {t \in [form : {"hex"}, upper : BOOLEAN, digits : Seq(0..15)] :
             Len(t.digits) <= INT_MAX}

OP_PUSHDATA1 == 76
OP_PUSHDATA2 == 77
OP_PUSHDATA4 == 78
OP_INVALIDOPCODE == 255

-----------------------------------------------------------------------------
(* Opcode names. GetOpName (external) answers "OP_UNKNOWN" for an opcode     *)
(* without a name, which includes every direct push; the opcodes no token of *)
(* a model uses are left out of the table.                                   *)
NamedOps == ( 0 :> "0")            @@ (76 :> "OP_PUSHDATA1") @@ (79 :> "-1")
         @@ (81 :> "1")            @@ (97 :> "OP_NOP")       @@ (106 :> "OP_RETURN")
         @@ (117 :> "OP_DROP")     @@ (118 :> "OP_DUP")      @@ (147 :> "OP_ADD")
         @@ (255 :> "OP_INVALIDOPCODE")

GetOpName(op) == IF op \in DOMAIN NamedOps THEN NamedOps[op] ELSE "OP_UNKNOWN"

(* The first opcode whose name it is. *)
opStringToOpCode(name) ==
  LET hits == {op \in Byte : GetOpName(op) = name}
  IN  IF hits = {} THEN OP_INVALIDOPCODE ELSE Min(hits)

-----------------------------------------------------------------------------
(* CScript::operator<< (external): a push of data, and of a script number.   *)
(* How many bytes of size follow an opcode. *)
SizeWidth(op) == CASE op = OP_PUSHDATA1 -> 1
                   [] op = OP_PUSHDATA2 -> 2
                   [] op = OP_PUSHDATA4 -> 4
                   [] OTHER -> 0

LittleEndian(n, width) == [k \in 1..width |-> (n \div Pow2[8 * (k - 1)]) % 256]

PushOp(n) == CASE n < OP_PUSHDATA1 -> n
               [] n >= OP_PUSHDATA1 /\ n <= 255 -> OP_PUSHDATA1
               [] n > 255 /\ n <= 65535 -> OP_PUSHDATA2
               [] OTHER -> OP_PUSHDATA4

PushHeader(op, n) == <<op>> \o LittleEndian(n, SizeWidth(op))

PushData(d) == PushHeader(PushOp(Len(d)), Len(d)) \o d

ScriptNum(v) ==
  LET m     == IF v < 0 THEN -v ELSE v
      width == CHOOSE k \in 0..4 : /\ k < 4 => m < Pow2[8 * k]
                                   /\ k > 0 => m >= Pow2[8 * (k - 1)]
      body  == LittleEndian(m, width)
      sign  == IF v < 0 THEN 128 ELSE 0
  IN  IF width = 0 THEN <<>>
      ELSE IF body[width] >= 128 THEN Append(body, sign)
      ELSE [body EXCEPT ![width] = @ + sign]

-----------------------------------------------------------------------------
(* encodeOp: a long "0X" string is data, every other non-opcode goes through *)
(* std::stoi, whose exceptions nobody catches.                               *)
IsData(t) == t.form = "hex" /\ t.upper /\ 2 + Len(t.digits) > 10

HexValue(ds) ==
  LET value[n \in 0..Len(ds)] == IF n = 0 THEN 0 ELSE 16 * value[n-1] + ds[n]
  IN  value[Len(ds)]

HexTooBig(ds) == \E k \in 1..Len(ds) : /\ ds[k] # 0
                                       /\ \/ k < Len(ds) - 7
                                          \/ k = Len(ds) - 7 /\ ds[k] >= 8

Throws(t) == \/ t.form = "junk"
             \/ t.form = "hex" /\ ~IsData(t) /\ HexTooBig(t.digits)

(* Two digits a byte; a lone last digit is a byte of its own. *)
HexBytes(ds) == [k \in 1..((Len(ds) + 1) \div 2) |->
                   HexValue(SubSeq(ds, 2*k - 1, IF 2*k <= Len(ds) THEN 2*k ELSE Len(ds)))]

(* The bytes a token adds to the script: none when it is empty or an opcode  *)
(* name nobody knows, which is reported and dropped.                         *)
TokenBytes(t) ==
  CASE t.form = "empty" -> <<>>
    [] t.form = "op"    -> LET op == opStringToOpCode(t.name)
                           IN  IF op # OP_INVALIDOPCODE THEN <<op>> ELSE <<>>
    [] t.form = "hex"   -> PushData(IF IsData(t) THEN HexBytes(t.digits)
                                    ELSE ScriptNum(HexValue(t.digits)))
    [] t.form = "dec"   -> PushData(ScriptNum(t.value))

(* Mutant: data appended as it is, without its push. *)
encodeOp_RawData(c, t) == c \o IF IsData(t) THEN HexBytes(t.digits) ELSE TokenBytes(t)

encodeOp(c, t) == c \o TokenBytes(t)

-----------------------------------------------------------------------------
(* CScript::GetOp (external) at offset pc of s: an operation above           *)
(* OP_PUSHDATA4 is one byte, a push carries its size and its data. On failure *)
(* the iterator stays behind the bytes already consumed, so it always moves. *)
PushSize(s, at, width) ==
  CASE width = 1 -> s[at+1]
    [] width = 2 -> s[at+1] + 256 * s[at+2]
    [] width = 4 -> s[at+1] + 256 * s[at+2] + 65536 * s[at+3] + 16777216 * s[at+4]

GetOp(s, pc) ==
  LET op    == s[pc+1]
      width == SizeWidth(op)
      body  == pc + 1 + width
      size  == IF width = 0 THEN op ELSE PushSize(s, pc + 1, width)
  IN  IF op > OP_PUSHDATA4 THEN [ok |-> TRUE, op |-> op, data |-> <<>>, next |-> pc + 1]
      ELSE IF body > Len(s) THEN [ok |-> FALSE, op |-> op, data |-> <<>>, next |-> pc + 1]
      ELSE IF size > Len(s) - body THEN [ok |-> FALSE, op |-> op, data |-> <<>>, next |-> body]
      ELSE [ok |-> TRUE, op |-> op, data |-> SubSeq(s, body + 1, body + size),
            next |-> body + size]

-----------------------------------------------------------------------------
(* strvecToSizedCharPtr: the length is a uint8_t, the block has room for two *)
(* bytes more than it, and the last of them is never written.                *)
Unwritten == -1

(* Mutants: the length is not cut to a byte; the data is copied over the length. *)
SizedRow_Unbounded(d) == <<Len(d)>> \o d \o <<Unwritten>>
SizedRow_Overlaps(d) == LET vsize == Len(d) % 256
                        IN  <<vsize>> \o SubSeq(d, 2, vsize) \o <<Unwritten, Unwritten>>

SizedRow(d) == LET vsize == Len(d) % 256
               IN  <<vsize>> \o SubSeq(d, 1, vsize) \o <<Unwritten>>

(* getValue(p, 'i8') in the host: the same byte, read as a signed one. *)
Signed8(b) == IF b < 128 THEN b ELSE b - 256
=============================================================================
