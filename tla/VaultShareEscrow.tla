-------------------------- MODULE VaultShareEscrow --------------------------
(***************************************************************************)
(* contracts/src/VaultShareEscrow.sol over the attestation slots: vault    *)
(* shares held per path, claimed once the path is RELEASE, reclaimable by  *)
(* the plan's owner until then.  The vault appears as the share balances   *)
(* it keeps; redeeming burns shares.  A reverted transaction changes       *)
(* nothing, so every revert is a guard.                                    *)
(***************************************************************************)
EXTENDS ReleaseAttestation, Functions

CONSTANTS
  Escrow,         \* the address of this contract
  Exemptible,     \* the addresses the vault's owner ever exempts
  InitialShares,  \* vault shares every account starts with
  MaxUint         \* the largest amount a book entry holds (2^256 - 1)

ASSUME EscrowAssumption == Escrow \in Contracts /\ Escrow \notin Accounts
ASSUME ExemptibleAssumption == Exemptible \subseteq Address
ASSUME SharesAssumption == InitialShares \in Nat /\ MaxUint \in Nat

VARIABLES
  walletOwner,       \* the registered owner of each plan
  totalDeposited,    \* shares on the books of each plan
  allocatedShares,   \* shares allocated to each path
  claimedShares,     \* shares of each path already claimed
  adminFactorVault,  \* the address allowed to call reclaimFor
  sharesOf,          \* the vault's share balances
  transferExempt     \* the addresses exempt from the vault's transfer ban

bookVars == <<totalDeposited, allocatedShares, claimedShares>>
vaultVars == <<sharesOf, transferExempt>>
escrowVars == <<walletOwner, bookVars, adminFactorVault, vaultVars>>

EscrowTypeOK ==
  /\ walletOwner \in [Wallets -> Accounts \union {NoAddress}]
  /\ totalDeposited \in [Wallets -> Nat]
  /\ allocatedShares \in [Path -> Nat]
  /\ claimedShares \in [Path -> Nat]
  /\ adminFactorVault \in Address \union {NoAddress}
  /\ sharesOf \in [Address -> Nat]
  /\ transferExempt \subseteq Address

EscrowInit ==
  /\ walletOwner = [w \in Wallets |-> NoAddress]
  /\ totalDeposited = [w \in Wallets |-> 0]
  /\ allocatedShares = [p \in Path |-> 0]
  /\ claimedShares = [p \in Path |-> 0]
  /\ adminFactorVault = NoAddress
  /\ sharesOf = [a \in Address |-> IF a \in Accounts THEN InitialShares ELSE 0]
  /\ transferExempt = {}

(* Solidity's checked subtraction: the guards below keep it from reverting *)
(* as long as no path has claimed more than it was allocated.              *)
Remaining(p) == allocatedShares[p] - claimedShares[p]

(* The vault refuses a transfer between two addresses that are not exempt.  *)
TransferShares(from, to, amount) ==
  /\ from \in transferExempt \/ to \in transferExempt
  /\ sharesOf[from] >= amount
  /\ sharesOf' = IF from = to THEN sharesOf
                 ELSE [sharesOf EXCEPT ![from] = @ - amount, ![to] = @ + amount]
  /\ UNCHANGED transferExempt

(* The vault's owner grants an exemption, or takes it back.                *)
SetTransferExempt(a, exempt) ==
  /\ transferExempt' = IF exempt THEN transferExempt \union {a} ELSE transferExempt \ {a}
  /\ UNCHANGED <<walletOwner, bookVars, adminFactorVault, sharesOf>>

RegisterWallet(w, owner) ==
  /\ owner # NoAddress
  /\ walletOwner[w] = NoAddress
  /\ walletOwner' = [walletOwner EXCEPT ![w] = owner]
  /\ UNCHANGED <<bookVars, adminFactorVault, vaultVars>>

SetAdminFactorVault(a) ==
  /\ adminFactorVault' = a
  /\ UNCHANGED <<walletOwner, bookVars, vaultVars>>

(* allot[i] is the sum of the amounts listed for index i: the loop adds    *)
(* each of them, so neither their order nor a repeated index matters.  The *)
(* additions are checked: one that overflows reverts the deposit.          *)
Deposit(sender, w, shares, allot) ==
  /\ walletOwner[w] = sender
  /\ shares > 0
  /\ SumFunction(allot) = shares
  /\ allocatedShares' = [p \in Path |->
       IF p[1] = w THEN allocatedShares[p] + allot[p[2]] ELSE allocatedShares[p]]
  /\ \A p \in Path : allocatedShares'[p] <= MaxUint
  /\ totalDeposited' = [totalDeposited EXCEPT ![w] = @ + shares]
  /\ TransferShares(sender, Escrow, shares)
  /\ UNCHANGED <<walletOwner, claimedShares, adminFactorVault>>

(* Faulty variant: the plan's total is left as it was (the M-04 fix undone). *)
Claim_KeepsTotal(sender, p, to, amount, redeemToAsset) ==
  /\ amount > 0 /\ to # NoAddress
  /\ walletOwner[p[1]] = sender
  /\ Released(p)
  /\ amount <= Remaining(p)
  /\ claimedShares' = [claimedShares EXCEPT ![p] = @ + amount]
  /\ TransferShares(Escrow, to, amount)
  /\ UNCHANGED <<walletOwner, totalDeposited, allocatedShares, adminFactorVault>>

(* Faulty variant: a claim is not bounded by what its path has left, and   *)
(* the subtraction from the total is unchecked.                            *)
Claim_Unbounded(sender, p, to, amount, redeemToAsset) ==
  /\ amount > 0 /\ to # NoAddress
  /\ walletOwner[p[1]] = sender
  /\ Released(p)
  /\ claimedShares' = [claimedShares EXCEPT ![p] = @ + amount]
  /\ totalDeposited' = [totalDeposited EXCEPT ![p[1]] = @ - amount]
  /\ TransferShares(Escrow, to, amount)
  /\ UNCHANGED <<walletOwner, allocatedShares, adminFactorVault>>

(* The recipient signs as the wallet owner, hence sender = walletOwner;    *)
(* the receiver is any address, this contract included.                    *)
Claim(sender, p, to, amount, redeemToAsset) ==
  /\ amount > 0
  /\ to # NoAddress
  /\ walletOwner[p[1]] = sender
  /\ Released(p)
  /\ amount <= Remaining(p)
  /\ claimedShares' = [claimedShares EXCEPT ![p] = @ + amount]
  /\ totalDeposited[p[1]] >= amount
  /\ totalDeposited' = [totalDeposited EXCEPT ![p[1]] = @ - amount]
  /\ \/ redeemToAsset /\ sharesOf[Escrow] >= amount
                      /\ sharesOf' = [sharesOf EXCEPT ![Escrow] = @ - amount]
                      /\ UNCHANGED transferExempt
     \/ ~redeemToAsset /\ TransferShares(Escrow, to, amount)
  /\ UNCHANGED <<walletOwner, allocatedShares, adminFactorVault>>

(* Faulty variants of GiveBack: no RELEASE check, the plan's total kept, or *)
(* the path's allocation kept.                                             *)
GiveBack_Variant(p, amount, owner, checksRelease, keepsTotal, keepsAllocation) ==
  /\ amount > 0 /\ amount <= Remaining(p)
  /\ checksRelease => ~Released(p)
  /\ allocatedShares' = IF keepsAllocation THEN allocatedShares
                        ELSE [allocatedShares EXCEPT ![p] = @ - amount]
  /\ totalDeposited[p[1]] >= amount
  /\ totalDeposited' = IF keepsTotal THEN totalDeposited
                       ELSE [totalDeposited EXCEPT ![p[1]] = @ - amount]
  /\ TransferShares(Escrow, owner, amount)
  /\ UNCHANGED <<walletOwner, claimedShares, adminFactorVault>>

GiveBack_IgnoresRelease(p, amount, owner) ==
  GiveBack_Variant(p, amount, owner, FALSE, FALSE, FALSE)
GiveBack_KeepsTotal(p, amount, owner) ==
  GiveBack_Variant(p, amount, owner, TRUE, TRUE, FALSE)
GiveBack_KeepsAllocation(p, amount, owner) ==
  GiveBack_Variant(p, amount, owner, TRUE, FALSE, TRUE)

(* What reclaim and reclaimFor have in common.                             *)
GiveBack(p, amount, owner) ==
  /\ amount > 0
  /\ ~Released(p)
  /\ amount <= Remaining(p)
  /\ allocatedShares' = [allocatedShares EXCEPT ![p] = @ - amount]
  /\ totalDeposited[p[1]] >= amount
  /\ totalDeposited' = [totalDeposited EXCEPT ![p[1]] = @ - amount]
  /\ TransferShares(Escrow, owner, amount)
  /\ UNCHANGED <<walletOwner, claimedShares, adminFactorVault>>

Reclaim(sender, p, amount) ==
  /\ walletOwner[p[1]] = sender
  /\ GiveBack(p, amount, sender)

ReclaimFor(sender, p, amount, owner) ==
  /\ sender = adminFactorVault
  /\ walletOwner[p[1]] = owner
  /\ GiveBack(p, amount, owner)

(* While the escrow is exempt from the transfer ban, any holder may send   *)
(* it shares directly, outside its books.                                  *)
SendShares(sender, amount) ==
  /\ amount > 0
  /\ TransferShares(sender, Escrow, amount)
  /\ UNCHANGED <<walletOwner, bookVars, adminFactorVault>>
=============================================================================
