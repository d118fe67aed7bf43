--------------------------- MODULE PrivateGiftEscrow ---------------------------
(***************************************************************************)
(* benzo/PrivateGiftEscrow.sol composed with the EncryptedERC it credits:  *)
(* gifts of public ERC20 held by one contract, claimed into a private      *)
(* balance before they expire or refunded afterwards. The escrow is one of *)
(* the depositors the owner of the EncryptedERC may authorize; its ERC20s  *)
(* are erc[Escrow], shared by all gifts.                                   *)
(*                                                                         *)
(* Whoever has the link signs a claim for a recipient of their choice. As  *)
(* the wallet does, the amountPCT is that of the amount of the gift, not   *)
(* scaled to the decimals of the EncryptedERC.                             *)
(***************************************************************************)
EXTENDS EncryptedERC

CONSTANTS
  Escrow,      \* the contract, a depositor
  GiftIds,     \* ids 1, 2, ... that can be given out
  NoGift,      \* an id that was not
  MaxTime      \* bound: block.timestamp

Gift == [sender : Users, token : Tokens, amount : Nat \ {0}, expiry : 1 .. MaxTime,
         status : {"created", "claimed", "refunded"}]

(* The contract makes none of the calls of an account.                     *)
ASSUME EscrowAssumption ==
  /\ Escrow \in Depositors \ Users
  /\ GiftIds \subseteq Nat \ {0} /\ MaxTime \in Nat /\ NoGift \notin Gift

VARIABLES
  gifts,       \* _gifts
  nextGiftId,  \* _nextGiftId
  now          \* block.timestamp

giftVars == <<gifts, nextGiftId, now>>
allVars  == <<vars, giftVars>>

GiftsTypeOK ==
  /\ gifts \in [GiftIds -> Gift \cup {NoGift}]
  /\ nextGiftId \in Nat \ {0}
  /\ now \in 0 .. MaxTime
  /\ \A g \in GiftIds : gifts[g] # NoGift <=> g < nextGiftId

GiftsInit ==
  /\ Init
  /\ gifts = [g \in GiftIds |-> NoGift] /\ nextGiftId = 1 /\ now = 0

-------------------------------------------------------------------------------
(* Mutant: the requested amount is recorded, not the received one.         *)
EscrowedAmount_Requested(t, amount) == amount

(* The balance delta of the escrow.                                        *)
EscrowedAmount(t, amount) == Received(t, amount)

(* Mutant: the id is not used up, and the next gift overwrites this one.   *)
createGift_SameId(sender, t, amount, expiry) ==
  /\ tokenIds[t] # 0 /\ amount > 0 /\ expiry > now
  /\ erc[sender][t] >= amount /\ Received(t, amount) # 0
  /\ nextGiftId \in GiftIds
  /\ gifts' = [gifts EXCEPT ![nextGiftId] =
                 [sender |-> sender, token |-> t, amount |-> EscrowedAmount(t, amount),
                  expiry |-> expiry, status |-> "created"]]
  /\ erc' = [erc EXCEPT ![sender][t] = @ - amount, ![Escrow][t] = @ + Received(t, amount)]
  /\ UNCHANGED <<admin, tracker, balances, reserve, proofs, alreadyMinted, uses, now,
                 nextGiftId>>

createGift(sender, t, amount, expiry) ==
  /\ tokenIds[t] # 0 /\ amount > 0 /\ expiry > now
  /\ erc[sender][t] >= amount /\ Received(t, amount) # 0
  /\ nextGiftId \in GiftIds
  /\ gifts' = [gifts EXCEPT ![nextGiftId] =
                 [sender |-> sender, token |-> t, amount |-> EscrowedAmount(t, amount),
                  expiry |-> expiry, status |-> "created"]]
  /\ nextGiftId' = nextGiftId + 1
  /\ erc' = [erc EXCEPT ![sender][t] = @ - amount, ![Escrow][t] = @ + Received(t, amount)]
  /\ UNCHANGED <<admin, tracker, balances, reserve, proofs, alreadyMinted, uses, now>>

IsCreated(g) == gifts[g] # NoGift /\ gifts[g].status = "created"

(* What depositFor took of the amount: all but the dust.                   *)
Consumed(gift) == gift.amount - Dust(gift.token, gift.amount)

(* Mutant: a claim that credits nothing is not refused.                    *)
Credits_Anything(gift) == TRUE

Credits(gift) == Consumed(gift) # 0

(* Mutant: the dust stays where depositFor left it.                        *)
Settle_KeepsDust(gift) ==
  erc' = [erc EXCEPT ![Escrow][gift.token] = @ - Consumed(gift)]

(* The dust goes on to the sender.                                         *)
Settle(gift) ==
  erc' = [erc EXCEPT ![Escrow][gift.token] = @ - gift.amount,
                     ![gift.sender][gift.token] =
                        @ + Received(gift.token, Dust(gift.token, gift.amount))]

claim(g, recipient) ==
  LET gift == gifts[g]
  IN  /\ IsCreated(g) /\ now < gift.expiry
      /\ recipient \in registered
      /\ Escrow \in authorized
      /\ CollectFrom(Escrow, recipient, gift.amount, gift.token, gift.amount)
      /\ Credits(gift)
      /\ Settle(gift)
      /\ gifts' = [gifts EXCEPT ![g].status = "claimed"]
      /\ UNCHANGED <<nextGiftId, now>>

(* Mutant: only a refunded gift is refused.                                *)
refund_AfterClaim(g) ==
  LET gift == gifts[g]
  IN  /\ gift # NoGift /\ gift.status # "refunded" /\ now >= gift.expiry
      /\ gifts' = [gifts EXCEPT ![g].status = "refunded"]
      /\ erc[Escrow][gift.token] >= gift.amount
      /\ erc' = [erc EXCEPT ![Escrow][gift.token] = @ - gift.amount,
                            ![gift.sender][gift.token] = @ + Received(gift.token, gift.amount)]
      /\ UNCHANGED <<admin, tracker, balances, reserve, proofs, alreadyMinted, uses,
                     nextGiftId, now>>

(* Called by the sender.                                                   *)
refund(g) ==
  LET gift == gifts[g]
  IN  /\ IsCreated(g) /\ now >= gift.expiry
      /\ gifts' = [gifts EXCEPT ![g].status = "refunded"]
      /\ erc[Escrow][gift.token] >= gift.amount
      /\ erc' = [erc EXCEPT ![Escrow][gift.token] = @ - gift.amount,
                            ![gift.sender][gift.token] = @ + Received(gift.token, gift.amount)]
      /\ UNCHANGED <<admin, tracker, balances, reserve, proofs, alreadyMinted, uses,
                     nextGiftId, now>>

TimePasses ==
  /\ now < MaxTime /\ now' = now + 1
  /\ UNCHANGED <<vars, gifts, nextGiftId>>

(* The other callers of the EncryptedERC. The escrow calls it in claim.    *)
OthersDeposit ==
  \E u \in Users, amount \in Amounts, t \in Tokens :
    \/ Deposit(u, amount, t)
    \/ \E d \in Depositors \ {Escrow}, drift \in PctDrift : DepositFor(d, u, amount, t, drift)

GiftsNext ==
  \/ (Administer \/ OthersDeposit \/ BuildProof \/ SubmitProof) /\ UNCHANGED giftVars
  \/ \E sender \in Users, t \in Tokens, amount \in Amounts, expiry \in 1 .. MaxTime :
       createGift(sender, t, amount, expiry)
  \/ \E g \in GiftIds : refund(g) \/ \E recipient \in Users : claim(g, recipient)
  \/ TimePasses

GiftsSpec == GiftsInit /\ [][GiftsNext]_allVars

-------------------------------------------------------------------------------
(* The escrow holds of every token what its open gifts add up to: each can *)
(* be paid, none at the expense of another, and nothing is left behind by  *)
(* dust, fees, claims and refunds (createGift: "escrow exactly what landed *)
(* here").                                                                 *)
EscrowIsExact ==
  \A t \in Tokens :
    LET open == {g \in GiftIds : IsCreated(g) /\ gifts[g].token = t}
    IN  erc[Escrow][t] = InitialErc + MapThenSumSet(LAMBDA g : gifts[g].amount, open)

HeldBy(i) == MapThenSumSet(LAMBDA u : Balance(u, i), Users)

(* A claim pays the gift once, to two parties: the recipient's private     *)
(* balance is worth what the sender does not get back, and that is not     *)
(* nothing (NoEncryptedValueCredited).                                     *)
ClaimsPayOut ==
  [][\A g \in GiftIds :
       LET gift == gifts[g]
           i    == tokenIds[gift.token]
           back == erc'[gift.sender][gift.token] - erc[gift.sender][gift.token]
           gain == HeldBy(i)' - HeldBy(i)
       IN  IsCreated(g) /\ gifts'[g].status = "claimed" =>
             gain > 0 /\ PublicValue(gift.token, gain) + back = gift.amount]_allVars
===============================================================================
