-------------------------- MODULE MCPublishingQueue --------------------------
(* Instances of PublishingQueue for TLC. *)
EXTENDS PublishingQueue, TLC

CONSTANTS c1, c2

\* One post: a photo followed by a separate text message.
OnePost == {1}
TwoParts == {1, 2}
PhotoThenText == (1 :> 1) @@ (2 :> 1)

\* One post of one text message.
OnePart == {1}
TextOnly == 1 :> 1

\* Two versions with different dates.
TwoSlots == (c1 :> 1) @@ (c2 :> 2)

WorkerSymmetry == Permutations(Workers)
=============================================================================
