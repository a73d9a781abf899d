-------------------------------- MODULE MCParts --------------------------------
(***************************************************************************)
(* Small instances of the parts that share no state with each other, for   *)
(* one run of TLC: a behaviour is one of one part, chosen at the beginning,*)
(* while the others stay where they start.                                 *)
(***************************************************************************)
EXTENDS Groups, Conversation, Files, Transfer, Relay, Federation, Tunnels, TLC

CONSTANTS m1, m2, t1, t2

VARIABLE part

Parts == {"groups", "conversation", "files", "transfer", "relay", "federation", "tunnels"}

MCPeerOf == [t \in Transfers |-> "p"]
MCClientOf == [t \in Tokens |-> IF t = "k3" THEN "d" ELSE "c"]

(* The members of a group are interchangeable.                             *)
MCSymmetry == Permutations(Members)

(* A bound of the exploration: of a reaction, a new session and a setback, *)
(* a conversation sees two.                                                *)
ConvBound == counted.react + session + counted.setback <= 2

vars == <<part, groupVars, convVars, fileVars, transferVars, relayVars, fedVars, tunnelVars>>

Init ==
  /\ part \in Parts
  /\ GroupsInit /\ ConvInit /\ FilesInit /\ TransferInit /\ RelayInit /\ FedInit /\ TunnelsInit
  /\ part # "groups" => \A g \in KeyIds : todo[g] = {}
  /\ part # "conversation" => caps = CHOOSE build \in Builds : TRUE
  /\ part # "federation" => home = CHOOSE r \in Relays : TRUE

(* One part moves, the others stay.                                        *)
Next ==
  \/ /\ part = "groups" /\ GroupsNext
     /\ UNCHANGED <<part, convVars, fileVars, transferVars, relayVars, fedVars, tunnelVars>>
  \/ /\ part = "conversation" /\ ConvNext
     /\ UNCHANGED <<part, groupVars, fileVars, transferVars, relayVars, fedVars, tunnelVars>>
  \/ /\ part = "files" /\ FilesNext
     /\ UNCHANGED <<part, groupVars, convVars, transferVars, relayVars, fedVars, tunnelVars>>
  \/ /\ part = "transfer" /\ TransferNext
     /\ UNCHANGED <<part, groupVars, convVars, fileVars, relayVars, fedVars, tunnelVars>>
  \/ /\ part = "relay" /\ RelayNext
     /\ UNCHANGED <<part, groupVars, convVars, fileVars, transferVars, fedVars, tunnelVars>>
  \/ /\ part = "federation" /\ FedNext
     /\ UNCHANGED <<part, groupVars, convVars, fileVars, transferVars, relayVars, tunnelVars>>
  \/ /\ part = "tunnels" /\ TunnelsNext
     /\ UNCHANGED <<part, groupVars, convVars, fileVars, transferVars, relayVars, fedVars>>

Spec == Init /\ [][Next]_vars

(* Every part keeps its types.                                             *)
TypeOK ==
  CASE part = "groups" -> GroupsTypeOK
    [] part = "conversation" -> ConvTypeOK
    [] part = "files" -> FilesTypeOK
    [] part = "transfer" -> TransferTypeOK
    [] part = "relay" -> RelayTypeOK
    [] part = "federation" -> FedTypeOK
    [] part = "tunnels" -> TunnelsTypeOK
=============================================================================
