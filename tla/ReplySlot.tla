----------------------------- MODULE ReplySlot -----------------------------
(***************************************************************************)
(* What a conversation promises about replies, with nothing of how: there  *)
(* is one slot, a turn takes it when it begins and gives it back when it   *)
(* ends, a turn runs at most once, and every turn that began ends.         *)
(* ChatTurn implements this (the registry of src/lib/turn-stream.ts).      *)
(***************************************************************************)
CONSTANTS Turns, None

VARIABLES current,  \* the turn holding the slot, or None
          finished  \* the turns that have ended

slotVars == <<current, finished>>

SlotInit == current = None /\ finished \subseteq Turns

Begin(t) ==
  /\ current = None
  /\ t \notin finished
  /\ current' = t
  /\ UNCHANGED finished

End(t) ==
  /\ current = t
  /\ current' = None
  /\ finished' = finished \cup {t}

SlotNext == \E t \in Turns : Begin(t) \/ End(t)

SlotSafety == SlotInit /\ [][SlotNext]_slotVars

SlotSpec == SlotSafety /\ \A t \in Turns : WF_slotVars(End(t))
=============================================================================
