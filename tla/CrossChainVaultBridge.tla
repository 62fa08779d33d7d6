------------------------ MODULE CrossChainVaultBridge ------------------------
(***************************************************************************)
(* Bridge contracts on several chains, among them redeployments on one     *)
(* chain, relaying attestations and vault positions to each other through  *)
(* the CCIP router.  The router delivers what it was given at any time, in *)
(* any order, and again when a delivery is executed by hand.               *)
(***************************************************************************)
EXTENDS Naturals, Sequences, FiniteSets

CONSTANTS
  Chains, Bridges, NoBridge,
  Home,              \* the chain each bridge is deployed on
  Lanes,             \* bound: the pairs of a bridge and a remote one configured
  Attestations, Positions,          \* keys: wallet and recipient; user and vault
  Decisions, Shares, Blank,
  DefaultInterval, Intervals,       \* of minMessageInterval
  Tuned,             \* bound: the bridges whose interval is ever changed
  MaxMessages        \* bound on the messages sent

Keys == Attestations \union Positions
Values == Decisions \union Shares
Nonces == Bridges \X Nat
Longest == CHOOSE i \in Intervals : \A j \in Intervals : j <= i

ASSUME BridgeAssumption ==
  /\ Home \in [Bridges -> Chains] /\ Lanes \subseteq Bridges \X Bridges /\ Tuned \subseteq Bridges
  /\ NoBridge \notin Bridges
  /\ DefaultInterval \in Intervals /\ Intervals \subseteq Nat
  /\ Longest \in Intervals /\ \A i \in Intervals : i <= Longest
  /\ MaxMessages \in Nat

VARIABLES
  remoteChains,      \* bridge, allowed, age of lastMessageTime, per chain
  supportedChains, minMessageInterval,
  outgoingNonce, processedNonces,
  board,             \* relayedAttestations and syncedPositions
  network            \* what the router was given; nothing leaves it

config == <<supportedChains, minMessageInterval>>
bridgeVars == <<remoteChains, config, outgoingNonce, processedNonces, board, network>>

RemoteChain == [bridge : Bridges \union {NoBridge}, allowed : BOOLEAN, age : 0 .. Longest]
Message == [from : Bridges, to : Bridges, nonce : Nonces, key : Keys, value : Values]

Unconfigured == [bridge |-> NoBridge, allowed |-> FALSE, age |-> Longest]

BridgeInit ==
  /\ remoteChains = [b \in Bridges |-> [c \in Chains |-> Unconfigured]]
  /\ supportedChains = [b \in Bridges |-> <<>>]
  /\ minMessageInterval = [b \in Bridges |-> DefaultInterval]
  /\ outgoingNonce = [b \in Bridges |-> 0]
  /\ processedNonces = [b \in Bridges |-> {}]
  /\ board = [b \in Bridges |-> [k \in Keys |-> Blank]]
  /\ network = {}

-----------------------------------------------------------------------------
WasAllowed(b, c) == remoteChains[b][c].allowed

(* Swap and pop: the last chain takes the place of the removed one. *)
Without_NoSwap(s, c) == [i \in 1 .. Len(s) - 1 |-> s[i]]
Without(s, c) ==
  LET n == Len(s)
  IN [i \in 1 .. n - 1 |-> IF s[i] = c THEN s[n] ELSE s[i]]

Supported(b, c, allowed) ==
  CASE allowed /\ ~WasAllowed(b, c) -> Append(supportedChains[b], c)
    [] ~allowed /\ WasAllowed(b, c) -> Without(supportedChains[b], c)
    [] OTHER -> supportedChains[b]

(* A remote bridge is configured under the chain it is on, where another one *)
(* may stand.  It restarts the rate limit (lastMessageTime: 0).              *)
ConfigureRemoteChain(b, remote, allowed) ==
  LET c == Home[remote]
  IN /\ supportedChains' = [supportedChains EXCEPT ![b] = Supported(b, c, allowed)]
     /\ remoteChains' = [remoteChains EXCEPT ![b][c] =
                           [bridge |-> remote, allowed |-> allowed, age |-> Longest]]
     /\ UNCHANGED <<minMessageInterval, outgoingNonce, processedNonces, board, network>>

SetMinMessageInterval(b, interval) ==
  /\ minMessageInterval' = [minMessageInterval EXCEPT ![b] = interval]
  /\ UNCHANGED <<remoteChains, supportedChains, outgoingNonce, processedNonces, board, network>>

(* The hash of chain, contract, deployment time and counter. *)
Nonce_OfChain(b, n) == <<CHOOSE x \in Bridges : Home[x] = Home[b], n>>
Nonce(b, n) == <<b, n>>

Send(b, c, key, value) ==
  /\ Cardinality(network) < MaxMessages
  /\ remoteChains[b][c].allowed
  /\ remoteChains[b][c].age >= minMessageInterval[b]
  /\ remoteChains' = [remoteChains EXCEPT ![b][c].age = 0]
  /\ outgoingNonce' = [outgoingNonce EXCEPT ![b] = @ + 1]
  /\ network' = network \union
       {[from |-> b, to |-> remoteChains[b][c].bridge,
         nonce |-> Nonce(b, outgoingNonce[b] + 1), key |-> key, value |-> value]}
  /\ UNCHANGED <<config, processedNonces, board>>

RelayAttestation(b, c) == \E k \in Attestations, d \in Decisions : Send(b, c, k, d)
(* The shares are the holder's balance at the moment of the call. *)
SyncPosition(b, c) == \E k \in Positions, s \in Shares : Send(b, c, k, s)

(* A revert leaves the message with the router, to be executed again. *)
CcipReceive(m) ==
  LET source == remoteChains[m.to][Home[m.from]]
  IN /\ source.allowed /\ source.bridge = m.from
     /\ m.nonce \notin processedNonces[m.to]
     /\ processedNonces' = [processedNonces EXCEPT ![m.to] = @ \union {m.nonce}]
     /\ board' = [board EXCEPT ![m.to][m.key] = m.value]
     /\ UNCHANGED <<remoteChains, config, outgoingNonce, network>>

BridgeTick ==
  /\ remoteChains' = [b \in Bridges |-> [c \in Chains |->
       [remoteChains[b][c] EXCEPT !.age = IF @ < Longest THEN @ + 1 ELSE @]]]
  /\ UNCHANGED <<config, outgoingNonce, processedNonces, board, network>>

BridgeNext ==
  \/ \E lane \in Lanes, a \in BOOLEAN : ConfigureRemoteChain(lane[1], lane[2], a)
  \/ \E b \in Tuned, i \in Intervals : SetMinMessageInterval(b, i)
  \/ \E b \in Bridges, c \in Chains : RelayAttestation(b, c) \/ SyncPosition(b, c)
  \/ \E m \in network : CcipReceive(m)
  \/ BridgeTick

BridgeSpec == BridgeInit /\ [][BridgeNext]_bridgeVars

-----------------------------------------------------------------------------
BridgeTypeOK ==
  /\ remoteChains \in [Bridges -> [Chains -> RemoteChain]]
  /\ supportedChains \in [Bridges -> Seq(Chains)]
  /\ minMessageInterval \in [Bridges -> Intervals]
  /\ outgoingNonce \in [Bridges -> Nat]
  /\ processedNonces \in [Bridges -> SUBSET Nonces]
  /\ board \in [Bridges -> [Keys -> Values \union {Blank}]]
  /\ network \subseteq Message

(* The list that callers iterate over holds every allowed chain, once, and   *)
(* no other, whatever configurations, repeated or reversed, came before      *)
(* (configureRemoteChain keeps mapping and list in step by hand).            *)
SupportedMatchesAllowed ==
  \A b \in Bridges :
    /\ {supportedChains[b][i] : i \in DOMAIN supportedChains[b]} =
         {c \in Chains : remoteChains[b][c].allowed}
    /\ \A i, j \in DOMAIN supportedChains[b] :
         supportedChains[b][i] = supportedChains[b][j] => i = j

(* The bridges implement a board on which each message sent goes up at most  *)
(* once, and no message is shut out by the nonce of another one, also when a *)
(* bridge is redeployed or reconfigured, and messages arrive late or again.  *)
Relay == INSTANCE RelayBoard WITH
  Letters <- Message, sent <- network,
  applied <- {m \in network : m.nonce \in processedNonces[m.to]}
ImplementsRelay == Relay!Spec
=============================================================================
