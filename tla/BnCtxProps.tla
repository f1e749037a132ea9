------------------------------ MODULE BnCtxProps ------------------------------
(* What must hold of a BN_CTX, and that it implements TempFrames.            *)
EXTENDS BnCtx

Number == (Nat \ {0}) \X (0 .. PoolSize - 1)

(* Types; the numbers in use have memory, and so have the frames pushed.     *)
CtxTypeOK ==
  /\ pool \in [used : Nat, size : Nat, current : Nat]
  /\ stack \in [indexes : Seq(Nat), size : Nat]
  /\ used \in Nat /\ err_stack \in Nat /\ too_many \in BOOLEAN
  /\ given \in Seq(Number) /\ marks \in Seq(Nat)
  /\ pool.used <= pool.size /\ (pool.size % PoolSize) = 0
  /\ Len(stack.indexes) <= stack.size /\ stack.size # 1

(* Starts that were counted and starts that were pushed are together the     *)
(* frames the caller has open, so that an end always meets its own start     *)
(* (bn_ctx.c:256-282), and the number at a place in the caller's order is    *)
(* the one at that place of the bundles: current has followed every release  *)
(* (bn_ctx.c:440-454).                                                       *)
CountsMatch ==
  /\ used = Len(given) /\ pool.used = used
  /\ Len(marks) = Len(stack.indexes) + err_stack
  /\ too_many => stack.indexes # <<>>

MarksMatch ==
  /\ \A i \in DOMAIN stack.indexes : stack.indexes[i] = marks[i]
  /\ \A i \in DOMAIN marks : i > Len(stack.indexes) => marks[i] = used
  /\ \A i, j \in DOMAIN marks : i <= j => marks[i] <= marks[j] /\ marks[j] <= used

NumbersMatch ==
  /\ used > 0 => pool.current = (used - 1) \div PoolSize + 1
  /\ \A i \in DOMAIN given :
       given[i] = <<(i - 1) \div PoolSize + 1, (i - 1) % PoolSize>>

FramesMatch == CountsMatch /\ MarksMatch /\ NumbersMatch

(* "The number of bignums currently assigned" (bn_ctx.c:142) is the length   *)
(* of what the caller has: that a function which is handed the context gives *)
(* it back with the frames it found (ec_mult.c:763-767, 888-890).            *)
UsedCountsAssigned == used = Len(given)

(* The caller sees frames of distinct numbers, whatever fails.               *)
BadFrame == IF too_many THEN Len(stack.indexes)
            ELSE IF err_stack > 0 THEN Len(stack.indexes) + 1 ELSE 0

F == INSTANCE TempFrames WITH Numbers <- Number, bad <- BadFrame
ImplementsFrames == F!FramesSpec
===============================================================================
