-------------------------------- MODULE Tunnels --------------------------------
(***************************************************************************)
(* The tunnels a relay opens towards a federated peer for its clients      *)
(* (Federation.handleUpgrade in packages/relay/src/federationRuntime.ts,   *)
(* spliceTunnel in federation.ts).  A request carries a token, whose       *)
(* signature is verified asynchronously between the first checks and the   *)
(* last; then the two sockets are spliced, and the first of the many       *)
(* events that end either socket closes the tunnel.  A nonce is looked up  *)
(* before the signature is verified and noted after, so two requests may   *)
(* carry one token: requests are told apart here, not tokens.              *)
(***************************************************************************)
EXTENDS Integers, FiniteSets

CONSTANTS
  Tokens,         \* tunnel requests
  ClientOf,       \* the client that signed the token of a request
  MaxTunnels,
  MaxTunnelsPerClient

ASSUME TunnelsAssumption ==
  /\ MaxTunnels \in Nat /\ MaxTunnelsPerClient \in Nat
  /\ DOMAIN ClientOf = Tokens

VARIABLES
  tunnel,    \* where a request is
  activeTunnels,    \* Federation.active
  perClient  \* tunnelsByClient

tunnelVars == <<tunnel, activeTunnels, perClient>>

Clients == {ClientOf[t] : t \in Tokens}

TunnelsTypeOK ==
  /\ tunnel \in [Tokens -> {"new", "verifying", "open", "closed", "rejected", "broken"}]
  /\ activeTunnels \in Nat /\ perClient \in [Clients -> Nat]

TunnelsInit ==
  /\ tunnel = [t \in Tokens |-> "new"]
  /\ activeTunnels = 0 /\ perClient = [c \in Clients |-> 0]

-----------------------------------------------------------------------------
(* Path, peer and token are fine; the signature is verified next.          *)
AskTunnel(t) ==
  /\ tunnel[t] = "new"
  /\ tunnel' = [tunnel EXCEPT ![t] = "verifying"]
  /\ UNCHANGED <<activeTunnels, perClient>>

HasRoom(t) ==
  activeTunnels < MaxTunnels /\ perClient[ClientOf[t]] < MaxTunnelsPerClient

(* A plausible bug: there was room before the signature was verified.      *)
OpenTunnelUnchecked(t) ==
  /\ tunnel[t] = "verifying"
  /\ tunnel' = [tunnel EXCEPT ![t] = "open"]
  /\ activeTunnels' = activeTunnels + 1
  /\ perClient' = [perClient EXCEPT ![ClientOf[t]] = @ + 1]

(* The signer is a connected client and there is room for one more.  An    *)
(* error in splicing the sockets comes after the counting.                 *)
OpenTunnel(t) ==
  /\ tunnel[t] = "verifying" /\ HasRoom(t)
  /\ \E outcome \in {"open", "broken"} : tunnel' = [tunnel EXCEPT ![t] = outcome]
  /\ activeTunnels' = activeTunnels + 1
  /\ perClient' = [perClient EXCEPT ![ClientOf[t]] = @ + 1]

(* The signature or the client is not, or there is no room.                *)
RejectTunnel(t) ==
  /\ tunnel[t] = "verifying"
  /\ tunnel' = [tunnel EXCEPT ![t] = "rejected"]
  /\ UNCHANGED <<activeTunnels, perClient>>

(* Either socket errs, ends or closes, or the handshake takes too long:    *)
(* the first of these closes the tunnel, the others find it closed.        *)
CloseTunnel(t) ==
  /\ tunnel[t] = "open"
  /\ tunnel' = [tunnel EXCEPT ![t] = "closed"]
  /\ activeTunnels' = activeTunnels - 1
  /\ perClient' = [perClient EXCEPT ![ClientOf[t]] = IF @ > 0 THEN @ - 1 ELSE 0]

TunnelsNext ==
  \E t \in Tokens : AskTunnel(t) \/ OpenTunnel(t) \/ RejectTunnel(t) \/ CloseTunnel(t)

TunnelsSpec == TunnelsInit /\ [][TunnelsNext]_tunnelVars

-----------------------------------------------------------------------------
(* The counters of open tunnels are right and within both limits, although *)
(* a signature is verified between the first checks and the last: they     *)
(* count each tunnel once and give it back once, except one that broke     *)
(* while it was set up, which they count for good.                         *)
TunnelsCounted ==
  LET up == {t \in Tokens : tunnel[t] \in {"open", "broken"}} IN
    /\ activeTunnels = Cardinality(up) /\ activeTunnels <= MaxTunnels
    /\ \A c \in Clients :
         /\ perClient[c] = Cardinality({t \in up : ClientOf[t] = c})
         /\ perClient[c] <= MaxTunnelsPerClient
=============================================================================
