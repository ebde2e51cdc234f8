--------------------------- MODULE LinearHistory ---------------------------
(***************************************************************************)
(* What the undo history of a document promises its user: a present, a     *)
(* bounded past to step back to and a future to step forward to.  A new    *)
(* edit gives up the future and at most the oldest of the past; a          *)
(* correction takes the place of the present only.  Revision identifiers   *)
(* in view are never used again.                                           *)
(***************************************************************************)
EXTENDS Integers, Sequences

CONSTANT Limit                     \* how many steps back are kept

VARIABLES past, present, future

hvars == <<past, present, future>>

Ids == {past[i].id : i \in DOMAIN past} \cup {present.id}
         \cup {future[i].id : i \in DOMAIN future}

\* A revision nobody has seen becomes the present.
Fresh == \A id \in Ids : present'.id > id

Recent(s) == IF Len(s) > Limit THEN SubSeq(s, Len(s) - Limit + 1, Len(s)) ELSE s

New ==
    /\ Fresh
    /\ past' = Recent(Append(past, present))
    /\ future' = <<>>

Correct ==
    /\ Fresh
    /\ past # <<>> /\ future = <<>>
    /\ UNCHANGED <<past, future>>

StepBack ==
    /\ past # <<>>
    /\ present' = past[Len(past)]
    /\ past' = SubSeq(past, 1, Len(past) - 1)
    /\ future' = <<present>> \o future

StepForward ==
    /\ future # <<>>
    /\ present' = future[1]
    /\ past' = Append(past, present)
    /\ future' = Tail(future)

\* A name or derived evidence is attached; identity and content stay.
Annotate ==
    /\ present'.id = present.id
    /\ present'.product = present.product
    /\ present'.program = present.program
    /\ UNCHANGED <<past, future>>

Forget ==
    /\ past' = <<>>
    /\ future' = <<>>
    /\ UNCHANGED present

HInit == past = <<>> /\ future = <<>>

HNext == New \/ Correct \/ StepBack \/ StepForward \/ Annotate \/ Forget

HSpec == HInit /\ [][HNext]_hvars

=============================================================================
