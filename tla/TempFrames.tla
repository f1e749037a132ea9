------------------------------ MODULE TempFrames ------------------------------
(* What a BN_CTX promises: a stack of frames of temporary numbers. A number  *)
(* that is handed out is not in use; once a frame has failed, it and those   *)
(* opened inside it get none, and it is the frame's end, no other, that      *)
(* makes the frames below it work again.                                     *)
EXTENDS Naturals, Sequences

CONSTANT Numbers

VARIABLES
  given,  \* the numbers in use, in the order they were handed out
  marks,  \* per open frame: how many were in use when it was opened
  bad     \* the outermost open frame that has failed, 0 for none

frameVars == <<given, marks, bad>>

InUse == {given[i] : i \in DOMAIN given}

FramesInit == given = <<>> /\ marks = <<>> /\ bad = 0

Open == /\ marks' = Append(marks, Len(given))
        /\ \/ bad' = bad
           \/ bad = 0 /\ bad' = Len(marks) + 1
        /\ UNCHANGED given

Take == /\ marks # <<>> /\ bad = 0
        /\ LET n == given'[Len(given) + 1]
           IN /\ n \in Numbers \ InUse
              /\ given' = Append(given, n)
        /\ UNCHANGED <<marks, bad>>

Refuse == /\ marks # <<>>
          /\ bad' = IF bad = 0 THEN Len(marks) ELSE bad
          /\ UNCHANGED <<given, marks>>

Close == /\ marks # <<>>
         /\ given' = SubSeq(given, 1, marks[Len(marks)])
         /\ marks' = SubSeq(marks, 1, Len(marks) - 1)
         /\ bad' = IF bad = Len(marks) THEN 0 ELSE bad

Forget == given' = <<>> /\ marks' = <<>> /\ bad' = 0

FramesNext == Open \/ Refuse \/ Close \/ Forget \/ Take

FramesSpec == FramesInit /\ [][FramesNext]_frameVars
===============================================================================
