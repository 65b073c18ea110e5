---------------------------- MODULE AtLeastOnce ----------------------------
(***************************************************************************)
(* What the queue promises its clients, whatever the backend: a published  *)
(* message is owed until a consumer it was handed to settles it; it may be *)
(* handed out any number of times, to any consumers, before that and never *)
(* after; while it is buried in the dead-letter queue it is not handed     *)
(* out.  Nothing else makes an owed message disappear.                     *)
(***************************************************************************)
CONSTANTS Messages, Takers

VARIABLES
  owed,     \* published and not yet settled
  buried,   \* the owed messages that are dead-lettered
  handed,   \* <<taker, message>>: the taker was given the message
  settled   \* settled messages

contractVars == <<owed, buried, handed, settled>>

ContractInit == owed = {} /\ buried = {} /\ handed = {} /\ settled = {}

Publish(m) ==
  /\ m \notin owed \cup settled
  /\ owed' = owed \cup {m}
  /\ UNCHANGED <<buried, handed, settled>>

Hand(t, m) ==
  /\ m \in owed \ buried
  /\ handed' = handed \cup {<<t, m>>}
  /\ UNCHANGED <<owed, buried, settled>>

Bury(m) ==
  /\ m \in owed
  /\ buried' = buried \cup {m}
  /\ UNCHANGED <<owed, handed, settled>>

Unearth(m) ==
  /\ buried' = buried \ {m}
  /\ UNCHANGED <<owed, handed, settled>>

Settle(m) ==
  /\ m \in owed
  /\ \E t \in Takers : <<t, m>> \in handed
  /\ owed' = owed \ {m}
  /\ buried' = buried \ {m}
  /\ settled' = settled \cup {m}
  /\ UNCHANGED handed

ContractNext == \E m \in Messages :
  \/ Publish(m) \/ Bury(m) \/ Unearth(m) \/ Settle(m)
  \/ \E t \in Takers : Hand(t, m)

Contract == ContractInit /\ [][ContractNext]_contractVars
============================================================================
