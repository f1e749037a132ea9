-------------------------------- MODULE BnCtx ---------------------------------
(* A BN_CTX (bn_ctx.c): the temporaries of a computation on big numbers, kept *)
(* in bundles that are never given back, and taken and released in frames.    *)
(* Its caller calls BN_CTX_get only between BN_CTX_start and BN_CTX_end, as   *)
(* every caller in the library does. malloc may fail.                         *)
EXTENDS Integers, Sequences

CONSTANTS
  PoolSize,     \* BN_CTX_POOL_SIZE: numbers in a bundle
  StartFrames,  \* BN_CTX_START_FRAMES: frames the stack first has room for
  MaxUsed, MaxOpen  \* bounds for TLC: numbers in use, and frames open, at once

ASSUME PoolSizeAssumption == PoolSize \in Nat \ {0}
ASSUME StartFramesAssumption == StartFrames \in Nat /\ StartFrames >= 2

VARIABLES
  pool,      \* [used, size, current]: current is a bundle's place, 0 for NULL
  stack,     \* [indexes, size]: the frames pushed; depth is Len(indexes)
  used, err_stack, too_many,
  given, marks  \* the caller: the numbers it has, and how many at each start

ctxVars == <<pool, stack, used, err_stack, too_many, given, marks>>

CtxInit ==
  /\ pool = [used |-> 0, size |-> 0, current |-> 0]
  /\ stack = [indexes |-> <<>>, size |-> 0]
  /\ used = 0 /\ err_stack = 0 /\ too_many = FALSE
  /\ given = <<>> /\ marks = <<>>

\* BN_CTX_start after something failed: the frame is only counted
StartCounts == /\ err_stack > 0 \/ too_many
               /\ err_stack' = err_stack + 1
               /\ UNCHANGED stack

StackFull == Len(stack.indexes) = stack.size

StartPushes == /\ err_stack = 0 /\ ~too_many
               /\ stack' = [indexes |-> Append(stack.indexes, used),
                            size |-> IF ~StackFull THEN stack.size
                                     ELSE IF stack.size = 0 THEN StartFrames
                                     ELSE (stack.size * 3) \div 2]
               /\ UNCHANGED err_stack

StartFails == /\ err_stack = 0 /\ ~too_many /\ StackFull
              /\ err_stack' = 1
              /\ UNCHANGED stack

BN_CTX_start == /\ Len(marks) < MaxOpen
                /\ StartCounts \/ StartPushes \/ StartFails
                /\ marks' = Append(marks, Len(given))
                /\ UNCHANGED <<pool, used, too_many, given>>

\* Mutant: the release does not follow the bundles back.
BN_POOL_release_Stays(num) == pool' = [pool EXCEPT !.used = @ - num]

\* current goes back a bundle for every first slot among those released
BN_POOL_release(num) ==
  pool' = [used |-> pool.used - num, size |-> pool.size,
           current |-> pool.current - ((pool.used - 1) \div PoolSize
                                       - (pool.used - num - 1) \div PoolSize)]

\* Mutant: the end of a frame does not unjam its failed get.
EndPops_StaysJammed ==
  /\ err_stack = 0
  /\ LET depth == Len(stack.indexes)
         fp == stack.indexes[depth]
     IN /\ stack' = [stack EXCEPT !.indexes = SubSeq(@, 1, depth - 1)]
        /\ IF fp < used THEN BN_POOL_release(used - fp) ELSE UNCHANGED pool
        /\ used' = fp
  /\ UNCHANGED <<err_stack, too_many>>

EndPops ==
  /\ err_stack = 0
  /\ LET depth == Len(stack.indexes)
         fp == stack.indexes[depth]
     IN /\ stack' = [stack EXCEPT !.indexes = SubSeq(@, 1, depth - 1)]
        /\ IF fp < used THEN BN_POOL_release(used - fp) ELSE UNCHANGED pool
        /\ used' = fp
  /\ too_many' = FALSE
  /\ UNCHANGED err_stack

EndCounts == /\ err_stack > 0
             /\ err_stack' = err_stack - 1
             /\ UNCHANGED <<stack, pool, used, too_many>>

BN_CTX_end == /\ marks # <<>>
              /\ EndCounts \/ EndPops
              /\ given' = SubSeq(given, 1, marks[Len(marks)])
              /\ marks' = SubSeq(marks, 1, Len(marks) - 1)

\* Mutant: a new bundle is not counted in the pool's size.
BN_POOL_get_NotCounted ==
  pool' = [used |-> pool.used + 1, size |-> pool.size,
           current |-> IF pool.used = pool.size THEN pool.size \div PoolSize + 1
                       ELSE pool.current]

\* BN_POOL_get when there is a number: a new bundle's first, or the next one
BN_POOL_get ==
  pool' = [used |-> pool.used + 1,
           size |-> IF pool.used = pool.size THEN pool.size + PoolSize ELSE pool.size,
           current |-> IF pool.used = pool.size THEN pool.size \div PoolSize + 1
                       ELSE IF pool.used = 0 THEN 1
                       ELSE IF pool.used % PoolSize = 0 THEN pool.current + 1
                       ELSE pool.current]

Slot == IF pool.used = pool.size THEN 0 ELSE pool.used % PoolSize

GetGives == /\ err_stack = 0 /\ ~too_many
            /\ Len(given) < MaxUsed
            /\ BN_POOL_get
            /\ used' = used + 1
            /\ given' = Append(given, <<pool'.current, Slot>>)
            /\ UNCHANGED too_many

\* No memory for another bundle
GetFails == /\ err_stack = 0 /\ ~too_many /\ pool.used = pool.size
            /\ too_many' = TRUE
            /\ UNCHANGED <<pool, used, given>>

GetBlocked == /\ err_stack > 0 \/ too_many
              /\ UNCHANGED <<pool, used, given, too_many>>

BN_CTX_get == /\ marks # <<>>
              /\ GetGives \/ GetFails \/ GetBlocked
              /\ UNCHANGED <<stack, err_stack, marks>>

\* BN_CTX_init: the bundles and the stack's room stay
BN_CTX_init == /\ pool' = [pool EXCEPT !.used = 0,
                                       !.current = IF pool.size = 0 THEN 0 ELSE 1]
               /\ stack' = [stack EXCEPT !.indexes = <<>>]
               /\ used' = 0 /\ err_stack' = 0 /\ too_many' = FALSE
               /\ given' = <<>> /\ marks' = <<>>

CtxNext == BN_CTX_start \/ BN_CTX_end \/ BN_CTX_get \/ BN_CTX_init

CtxSpec == CtxInit /\ [][CtxNext]_ctxVars

\* ec_wNAF_precompute_mult, given this context by a caller with a number in its open
\* frame, of a group without a generator: it ends a frame before it has started one
PrecomputeMultFails == /\ marks # <<>> /\ marks[Len(marks)] < Len(given)
                       /\ EndCounts \/ EndPops
                       /\ UNCHANGED <<given, marks>>

PrecomputeSpec == CtxInit /\ [][CtxNext \/ PrecomputeMultFails]_ctxVars
===============================================================================
