---- MODULE MCPhoneDispatch ----
(***************************************************************************)
(* Small instances of PhoneDispatch.                                       *)
(***************************************************************************)
EXTENDS PhoneDispatch, TLC

\* All jobs call about the same conversation.
OneConversation == [j \in Jobs |-> CHOOSE c \in Conversations : TRUE]

\* Dispatchers and tasks are interchangeable.
Interchangeable == Permutations(Dispatchers) \cup Permutations(Attempts)

\* Jobs of one conversation are too.
AllInterchangeable == Interchangeable \cup Permutations(Jobs)

====
