----------------------------- MODULE MCSendLock -----------------------------
(* Instance of SendLock: five calls, two peers, three call sites.  The     *)
(* first three share a key, so that a caller can arrive while one runs and *)
(* another waits; the fifth never settles.                                 *)
EXTENDS SendLock

CONSTANTS c1, c2, c3, c4, c5, alice, bob

MCCalls == {c1, c2, c3, c4, c5}
MCDests == {alice, bob}
MCDestOf == [c \in MCCalls |-> IF c \in {c1, c2, c3} THEN alice ELSE bob]
MCKindOf == [c \in MCCalls |-> "stream"]
MCHanging == {c5}

(* Two peers of a group: a message send and a group key send to alice, a   *)
(* file and two messages to bob.                                           *)
MixedKindOf ==
  [c \in MCCalls |-> CASE c = c2 -> "groupKey" [] c = c4 -> "file"
                       [] OTHER -> "stream"]
=============================================================================
