----------------------------- MODULE EncryptedERC ------------------------------
(***************************************************************************)
(* The confidential token: eerc/EncryptedERC.sol with the contracts it     *)
(* inherits or calls (EncryptedUserBalances, TokenTracker, AuditorManager, *)
(* Registrar), the ERC20s it converts, and its clients.                    *)
(*                                                                         *)
(* A call is one atomic step.  What is not atomic is a spend: the client   *)
(* reads the chain, proves off-chain for as long as it takes, and its      *)
(* transaction lands later, after any calls of other accounts, or of the   *)
(* same account, have changed the state it proved against.  BuildProof is  *)
(* that read, Transfer, Withdraw and PrivateBurn are the landings.  Built  *)
(* proofs stay in `proofs` and may be submitted again.                     *)
(*                                                                         *)
(* A step is a call that succeeds; a call that reverts changes nothing.    *)
(* The verifiers are sound: a proof states what the circuits constrain.    *)
(***************************************************************************)
EXTENDS EncryptedUserBalances, FiniteSetsExt

CONSTANTS
  Users,          \* accounts that may register
  Depositors,     \* contracts the owner may authorize for depositFor
  Tokens,         \* ERC20 contracts
  FeeTokens,      \* those of them that keep a fee of 1 on a transfer
  Listable,       \* bound: tokens the owner may put on the blacklist
  NoToken,        \* tokenAddresses[id] before the id is assigned
  NoAuditor,      \* the auditor before the owner sets one
  Modes,          \* values isConverter may be deployed with
  ScaleDown,      \* per token, 10^(its decimals - decimals) when it has more, else 1
  ScaleUp,        \* per token, 10^(decimals - its decimals) when it has fewer, else 1
  Amounts,        \* amounts a client names in a call or a proof
  Randoms,        \* encryption randomness a prover may draw
  PctDrift,       \* error a depositFor caller may make in amountPCT
  ProofIds,       \* slots for built proofs
  NoProof,        \* an unused slot
  InitialErc,     \* public ERC20 balance of every holder at the start
  MaxTokens,      \* bound: largest token id
  MaxIndex,       \* bound: transactionIndex from which an account gets no more history
  MaxUses         \* bound: times one proof is executed

Holders  == Users \cup Depositors
TokenIds == 0 .. MaxTokens
Kinds    == {"transfer", "withdraw", "burn", "mint"}

Proof ==
  [kind : Kinds, from : Users, to : Users, id : TokenIds, ct : Ciphertext,
   amount : Nat, r : Int, auditor : Users, balancePCT : Nat]

ASSUME ModeAssumption == Modes \subseteq BOOLEAN
ASSUME UserAssumption == IsFiniteSet(Users)
ASSUME ScaleAssumption ==
  /\ ScaleDown \in [Tokens -> Nat \ {0}]
  /\ ScaleUp \in [Tokens -> Nat \ {0}]
  /\ \A t \in Tokens : ScaleDown[t] = 1 \/ ScaleUp[t] = 1
ASSUME DataAssumption ==
  /\ Amounts \subseteq Nat
  /\ Randoms \subseteq Int
  /\ PctDrift \subseteq Nat
  /\ InitialErc \in Nat
ASSUME NameAssumption ==
  /\ NoAuditor \notin Users
  /\ NoToken \notin Tokens
  /\ NoProof \notin Proof
  /\ FeeTokens \subseteq Tokens
ASSUME BoundAssumption ==
  /\ Listable \subseteq Tokens
  /\ MaxTokens \in Nat
  /\ MaxIndex \in Nat
  /\ MaxUses \in Nat

VARIABLES
  isConverter,    \* TRUE: wraps ERC20s; FALSE: mints its own token
  registered,     \* Registrar.userPublicKeys, as the set of its users
  auditor,        \* AuditorManager.auditor and auditorPublicKey
  blacklisted,    \* TokenTracker.blacklistedTokens
  authorized,     \* authorizedDepositors
  tokenIds,       \* TokenTracker.tokenIds, 0 when unknown
  tokenAddresses, \* TokenTracker.tokenAddresses
  nextTokenId,    \* TokenTracker.nextTokenId
  balances,       \* EncryptedUserBalances.balances[user][tokenId]
  erc,            \* public ERC20 balance of every holder
  reserve,        \* ERC20 balance of the EncryptedERC contract
  proofs,         \* proofs clients have built
  alreadyMinted,  \* used mint nullifiers; each proof has one of its own
  uses            \* history variable: executions of every proof

tracker == <<tokenIds, tokenAddresses, nextTokenId>>
admin   == <<isConverter, registered, auditor, blacklisted, authorized>>
cash    == <<erc, reserve>>
vars    == <<admin, tracker, balances, cash, proofs, alreadyMinted, uses>>

TypeOK ==
  /\ isConverter \in Modes
  /\ registered \subseteq Users
  /\ auditor \in Users \cup {NoAuditor}
  /\ blacklisted \subseteq Tokens
  /\ authorized \subseteq Depositors
  /\ tokenIds \in [Tokens -> TokenIds]
  /\ tokenAddresses \in [TokenIds -> Tokens \cup {NoToken}]
  /\ nextTokenId \in Nat
  /\ balances \in [Users -> [TokenIds -> EncryptedBalance]]
  /\ erc \in [Holders -> [Tokens -> Int]]
  /\ reserve \in [Tokens -> Int]
  /\ proofs \in [ProofIds -> Proof \cup {NoProof}]
  /\ alreadyMinted \subseteq ProofIds
  /\ uses \in [ProofIds -> Nat]

Init ==
  /\ isConverter \in Modes
  /\ registered = {}
  /\ auditor = NoAuditor
  /\ blacklisted = {}
  /\ authorized = {}
  /\ tokenIds = [t \in Tokens |-> 0]
  /\ tokenAddresses = [i \in TokenIds |-> NoToken]
  /\ nextTokenId = 1
  /\ balances = [u \in Users |-> [i \in TokenIds |-> EmptyBalance]]
  /\ erc = [h \in Holders |-> [t \in Tokens |-> InitialErc]]
  /\ reserve = [t \in Tokens |-> 0]
  /\ proofs = [p \in ProofIds |-> NoProof]
  /\ alreadyMinted = {}
  /\ uses = [p \in ProofIds |-> 0]

-------------------------------------------------------------------------------
(* Registrar and the owner's settings.                                     *)

Register(u) ==
  /\ u \notin registered
  /\ registered' = registered \cup {u}
  /\ UNCHANGED <<isConverter, auditor, blacklisted, authorized,
                 tracker, balances, cash, proofs, alreadyMinted, uses>>

SetAuditorPublicKey(u) ==
  /\ u \in registered
  /\ auditor' = u
  /\ UNCHANGED <<isConverter, registered, blacklisted, authorized,
                 tracker, balances, cash, proofs, alreadyMinted, uses>>

SetTokenBlacklist(t, flag) ==
  /\ blacklisted' = IF flag THEN blacklisted \cup {t} ELSE blacklisted \ {t}
  /\ UNCHANGED <<isConverter, registered, auditor, authorized,
                 tracker, balances, cash, proofs, alreadyMinted, uses>>

SetAuthorizedDepositor(d, flag) ==
  /\ authorized' = IF flag THEN authorized \cup {d} ELSE authorized \ {d}
  /\ UNCHANGED <<isConverter, registered, auditor, blacklisted,
                 tracker, balances, cash, proofs, alreadyMinted, uses>>

-------------------------------------------------------------------------------
(* Deposits.                                                               *)

OnlyIfAuditorSet == auditor # NoAuditor

(* Mutant: scaling down rounds up.                                         *)
PrivateValue_RoundedUp(t, amount) ==
  ((amount + ScaleDown[t] - 1) \div ScaleDown[t]) * ScaleUp[t]

PrivateValue(t, amount) == (amount \div ScaleDown[t]) * ScaleUp[t]

Dust(t, amount) == amount % ScaleDown[t]

(* Mutant: scaling a withdrawal rounds up.                                 *)
PublicValue_RoundedUp(t, amount) ==
  (amount * ScaleDown[t] + ScaleUp[t] - 1) \div ScaleUp[t]

PublicValue(t, amount) == (amount * ScaleDown[t]) \div ScaleUp[t]

HasRoom(u, i) == balances[u][i].transactionIndex < MaxIndex

(* Mutant: the next token gets the same id.                                *)
AddToken_SameId(t) ==
  IF tokenIds[t] = 0
    THEN /\ nextTokenId \in TokenIds
         /\ tokenIds' = [tokenIds EXCEPT ![t] = nextTokenId]
         /\ tokenAddresses' = [tokenAddresses EXCEPT ![nextTokenId] = t]
         /\ UNCHANGED nextTokenId
    ELSE UNCHANGED tracker

AddToken(t) ==
  IF tokenIds[t] = 0
    THEN /\ nextTokenId \in TokenIds
         /\ tokenIds' = [tokenIds EXCEPT ![t] = nextTokenId]
         /\ tokenAddresses' = [tokenAddresses EXCEPT ![nextTokenId] = t]
         /\ nextTokenId' = nextTokenId + 1
    ELSE UNCHANGED tracker

(* _convertFrom: a value that scales to zero registers the token and does  *)
(* nothing else.                                                           *)
ConvertFrom(to, amount, t, pct) ==
  LET value == PrivateValue(t, amount)
      i     == tokenIds'[t]
  IN  /\ AddToken(t)
      /\ IF value = 0
           THEN UNCHANGED balances
           ELSE /\ HasRoom(to, i)
                /\ balances' = [balances EXCEPT ![to][i] =
                                  ConvertCredit(@, Encrypt(value, 1), pct)]

Received(t, amount) ==
  IF t \in FeeTokens /\ amount > 0 THEN amount - 1 ELSE amount

(* Mutant: the balance-delta check (TransferFailed) is missing.            *)
TransferredInFull_Unchecked(t, amount) == TRUE

TransferredInFull(t, amount) == Received(t, amount) = amount

(* The contract's part of a deposit; the payer gets the dust back.         *)
CollectFrom(payer, to, amount, t, pct) ==
  /\ OnlyIfAuditorSet
  /\ isConverter
  /\ t \notin blacklisted
  /\ to \in registered
  /\ erc[payer][t] >= amount
  /\ TransferredInFull(t, amount)
  /\ ConvertFrom(to, amount, t, pct)
  /\ reserve' = [reserve EXCEPT ![t] = @ + Received(t, amount) - Dust(t, amount)]
  /\ UNCHANGED <<admin, proofs, alreadyMinted, uses>>

ExecuteDepositFrom(payer, to, amount, t, pct) ==
  /\ CollectFrom(payer, to, amount, t, pct)
  /\ erc' = [erc EXCEPT ![payer][t] = @ - amount + Dust(t, amount)]

Deposit(u, amount, t) ==
  ExecuteDepositFrom(u, u, amount, t, PrivateValue(t, amount))

(* The caller supplies amountPCT and nothing checks it.                    *)
DepositFor(d, to, amount, t, drift) ==
  /\ d \in authorized
  /\ ExecuteDepositFrom(d, to, amount, t, PrivateValue(t, amount) + drift)

-------------------------------------------------------------------------------
(* What a client does before it spends: read the balance, check that the   *)
(* PCTs it can decrypt add up to the ciphertext, prove.                    *)

Balance(u, i) == balances[u][i].eGCT.m

PctTotal(b) == b.balancePCT + MapThenSumSet(LAMBDA a : a.amount, b.amountPCTs)

Decryptable(u, i) == PctTotal(balances[u][i]) = Balance(u, i)

StoreProof(p, proof) ==
  /\ proofs[p] = NoProof
  /\ auditor # NoAuditor
  /\ {proof.from, proof.to} \subseteq registered
  /\ proofs' = [proofs EXCEPT ![p] = proof]
  /\ UNCHANGED <<admin, tracker, balances, cash, alreadyMinted, uses>>

SpendKinds == IF isConverter THEN {"transfer", "withdraw"}
                             ELSE {"transfer", "burn"}

(* Mutant: buildTransferProofInput does not compare amount and balance.    *)
BuildSpend_Overdrawn(p, kind, from, to, i, amount, r) ==
  /\ kind \in SpendKinds
  /\ kind # "transfer" => to = from
  /\ kind = "withdraw" => r = 1
  /\ Decryptable(from, i)
  /\ StoreProof(p, [kind |-> kind, from |-> from, to |-> to, id |-> i,
                    ct |-> balances[from][i].eGCT, amount |-> amount, r |-> r,
                    auditor |-> auditor,
                    balancePCT |-> Balance(from, i) - amount])

(* buildTransferProofInput and the circuit: the amount is at most the      *)
(* balance in the ciphertext the proof names.                              *)
BuildSpend(p, kind, from, to, i, amount, r) ==
  /\ kind \in SpendKinds
  /\ kind # "transfer" => to = from
  /\ kind = "withdraw" => r = 1
  /\ Decryptable(from, i)
  /\ amount <= Balance(from, i)
  /\ StoreProof(p, [kind |-> kind, from |-> from, to |-> to, id |-> i,
                    ct |-> balances[from][i].eGCT, amount |-> amount, r |-> r,
                    auditor |-> auditor,
                    balancePCT |-> Balance(from, i) - amount])

BuildMint(p, u, amount, r) ==
  /\ ~isConverter
  /\ StoreProof(p, [kind |-> "mint", from |-> u, to |-> u, id |-> 0,
                    ct |-> Encrypt(0, 0), amount |-> amount, r |-> r,
                    auditor |-> auditor, balancePCT |-> 0])

-------------------------------------------------------------------------------
(* The landing of a proof.                                                 *)

Execute(p) ==
  /\ uses[p] < MaxUses
  /\ uses' = [uses EXCEPT ![p] = @ + 1]
  /\ UNCHANGED <<admin, tracker, proofs>>

Submittable(p, kind) ==
  /\ proofs[p] # NoProof
  /\ proofs[p].kind = kind
  /\ OnlyIfAuditorSet
  /\ {proofs[p].from, proofs[p].to} \subseteq registered
  /\ proofs[p].auditor = auditor

SpendableEntries(q) == VerifyUserBalance(balances[q.from][q.id], q.ct)

Debited(q, e, r) ==
  [balances EXCEPT ![q.from][q.id] =
     SubtractFromUserBalance(@, Encrypt(q.amount, r), q.balancePCT, e.index)]

Transfer(p) ==
  LET q == proofs[p]
  IN  /\ Submittable(p, "transfer")
      /\ HasRoom(q.from, q.id) /\ HasRoom(q.to, q.id)
      /\ \E e \in SpendableEntries(q) :
           balances' = [Debited(q, e, q.r) EXCEPT ![q.to][q.id] =
                          AddToUserBalance(@, Encrypt(q.amount, q.r), q.amount)]
      /\ Execute(p)
      /\ UNCHANGED <<cash, alreadyMinted>>

PrivateBurn(p) ==
  LET q == proofs[p]
  IN  /\ Submittable(p, "burn")
      /\ ~isConverter
      /\ HasRoom(q.from, q.id)
      /\ \E e \in SpendableEntries(q) : balances' = Debited(q, e, q.r)
      /\ Execute(p)
      /\ UNCHANGED <<cash, alreadyMinted>>

(* _withdraw encrypts the public amount itself, with randomness 1.         *)
Withdraw(p) ==
  LET q == proofs[p]
      t == tokenAddresses[q.id]
  IN  /\ Submittable(p, "withdraw")
      /\ isConverter
      /\ t # NoToken
      /\ HasRoom(q.from, q.id)
      /\ \E e \in SpendableEntries(q) : balances' = Debited(q, e, 1)
      /\ PublicValue(t, q.amount) <= reserve[t]
      /\ reserve' = [reserve EXCEPT ![t] = @ - PublicValue(t, q.amount)]
      /\ erc' = [erc EXCEPT ![q.from][t] = @ + Received(t, PublicValue(t, q.amount))]
      /\ Execute(p)
      /\ UNCHANGED alreadyMinted

(* Mutant: the nullifier is checked but never marked as used.              *)
PrivateMint_NotMarked(p) ==
  LET q == proofs[p]
  IN  /\ Submittable(p, "mint")
      /\ ~isConverter
      /\ p \notin alreadyMinted
      /\ HasRoom(q.to, q.id)
      /\ balances' = [balances EXCEPT ![q.to][q.id] =
                        AddToUserBalance(@, Encrypt(q.amount, q.r), q.amount)]
      /\ Execute(p)
      /\ UNCHANGED <<cash, alreadyMinted>>

PrivateMint(p) ==
  LET q == proofs[p]
  IN  /\ Submittable(p, "mint")
      /\ ~isConverter
      /\ p \notin alreadyMinted
      /\ HasRoom(q.to, q.id)
      /\ balances' = [balances EXCEPT ![q.to][q.id] =
                        AddToUserBalance(@, Encrypt(q.amount, q.r), q.amount)]
      /\ alreadyMinted' = alreadyMinted \cup {p}
      /\ Execute(p)
      /\ UNCHANGED cash

-------------------------------------------------------------------------------
Administer ==
  \/ \E u \in Users : Register(u) \/ SetAuditorPublicKey(u)
  \/ \E t \in Listable, flag \in BOOLEAN : SetTokenBlacklist(t, flag)
  \/ \E d \in Depositors, flag \in BOOLEAN : SetAuthorizedDepositor(d, flag)

MakeDeposit ==
  \E u \in Users, amount \in Amounts, t \in Tokens :
    \/ Deposit(u, amount, t)
    \/ \E d \in Depositors, drift \in PctDrift : DepositFor(d, u, amount, t, drift)

BuildProof ==
  \E p \in ProofIds, from \in Users, amount \in Amounts, r \in Randoms :
    \/ BuildMint(p, from, amount, r)
    \/ \E kind \in SpendKinds, to \in Users, i \in TokenIds :
         BuildSpend(p, kind, from, to, i, amount, r)

SubmitProof ==
  \E p \in ProofIds : Transfer(p) \/ Withdraw(p) \/ PrivateBurn(p) \/ PrivateMint(p)

Next == Administer \/ MakeDeposit \/ BuildProof \/ SubmitProof

Spec == Init /\ [][Next]_vars

-------------------------------------------------------------------------------
(* Every ciphertext an account may still spend from encrypts at most what  *)
(* the account holds, and no account holds less than nothing: a proof made *)
(* against an old balance can only be landed while that balance is still   *)
(* there, whatever credits and spends were ordered between the two         *)
(* (EncryptedUserBalances: the nonce bump of _deleteUserHistory).          *)
Covered(b) ==
  /\ b.eGCT.m >= 0
  /\ \A e \in b.balanceList :
       e.nonce = b.nonce => 0 <= e.ct.m /\ e.ct.m <= b.eGCT.m

SnapshotsCovered == \A u \in Users, i \in TokenIds : Covered(balances[u][i])

(* The owner can always account for the ciphertext from the PCTs: a spend  *)
(* from a snapshot drops exactly the amounts that snapshot had counted and *)
(* keeps those credited while the proof was in flight.  Without it         *)
(* getDecryptedBalance (payroll/eerc.ts) throws and the funds are stuck.   *)
AlwaysDecryptable ==
  \A u \in Users, i \in TokenIds : Decryptable(u, i)

(* The ERC20s held by the contract redeem every private balance of the     *)
(* token: what a deposit loses in scaling goes back as dust, what a        *)
(* withdrawal loses stays, a token that keeps a fee is refused, and no     *)
(* token's withdrawals are paid out of another's deposits (_convertFrom,   *)
(* _convertTo, _addToken).                                                 *)
Solvent ==
  \A t \in Tokens :
    tokenIds[t] # 0 =>
      reserve[t] * ScaleUp[t] >=
        ScaleDown[t] * MapThenSumSet(LAMBDA u : Balance(u, tokenIds[t]), Users)

(* A mint proof is worth its amount once, however often the owner submits  *)
(* it (alreadyMinted in _executePrivateMint).                              *)
MintedOnce ==
  \A p \in ProofIds :
    proofs[p] # NoProof /\ proofs[p].kind = "mint" => uses[p] <= 1

(* The contract's checks on a spend, apart from the bounds of the model.   *)
Accepts(p) ==
  LET q == proofs[p]
      t == tokenAddresses[q.id]
  IN  /\ \E kind \in SpendKinds : Submittable(p, kind)
      /\ SpendableEntries(q) # {}
      /\ q.kind = "withdraw" => t # NoToken /\ PublicValue(t, q.amount) <= reserve[t]

(* Only its own sender and an auditor rotation can invalidate a spend in   *)
(* flight: no credit, no other account's spend or withdrawal, no blacklist *)
(* or depositor change makes an accepted proof fail (balanceList keeps     *)
(* every balance of the current nonce spendable).                          *)
OthersKeepProofsValid ==
  [][\A p \in ProofIds :
       LET q == proofs[p]
       IN  /\ Accepts(p)
           /\ auditor' = auditor
           /\ balances'[q.from][q.id].nonce = balances[q.from][q.id].nonce
           => Accepts(p)']_vars

===============================================================================
