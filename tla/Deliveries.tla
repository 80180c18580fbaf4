------------------------------ MODULE Deliveries ------------------------------
(***************************************************************************)
(* What the session-end hook promises about conversations, without its     *)
(* registry, its log and its lock: a conversation may be delivered any     *)
(* number of times; the first delivery that succeeds keeps it at one place *)
(* of its own, where it stays for ever; who asks is told so only then.     *)
(***************************************************************************)
CONSTANTS Conversations, PlacesOf(_)

VARIABLES
  kept,   \* where each conversation is kept
  told    \* the conversations whose delivery was reported

Init == kept = [c \in Conversations |-> {}] /\ told = {}

Keep(c) ==
  /\ kept[c] = {}
  /\ \E place \in PlacesOf(c) : kept' = [kept EXCEPT ![c] = {place}]
  /\ told' = told \union {c}

\* A delivery of what is kept changes nothing.
Repeat(c) ==
  /\ kept[c] # {}
  /\ told' = told \union {c} /\ UNCHANGED kept

Next == \E c \in Conversations : Keep(c) \/ Repeat(c)

Spec == Init /\ [][Next]_<<kept, told>>
===============================================================================
