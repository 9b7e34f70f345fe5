------------------------------ MODULE Marketplace ------------------------------
(***************************************************************************)
(* The sale of an agent: AgentMarketplaceV2 on Arc, the certificates,      *)
(* intents and listings kept by ArenaApiService, and the HTTP handlers     *)
(* that join them.  One API process; it can end at any await and start     *)
(* again on the same rows, and a step is what the code does between two    *)
(* awaits.  There is one agent, with one ERC-8004 token.                   *)
(*                                                                         *)
(* A certificate is consumed by the listing made with it, so a certificate *)
(* also names its intent, its row and its listing on Arc.  Every user acts *)
(* through the managed wallet: Circle runs an idempotency key once, at any *)
(* time after it was asked to.  Circle, the USDC token and the identity    *)
(* registry are external.                                                  *)
(***************************************************************************)
EXTENDS Integers, Sequences, FiniteSets, Functions

CONSTANTS Users, FirstOwner, Platform, Market,
          Certificates,  \* also the agent versions they certify
          VersionOf,     \* [Certificates -> versions]
          Price, Fee,    \* of a listing; the fee is price * 100 / 10_000
          FundsOf,       \* [Users -> Nat]: the USDC they start with
          MaxPurchases,  \* bound: purchases begun
          MaxReads,      \* bound: snapshots being read at a time
          Withdrawing,   \* bound: the accounts that withdraw their credit
          MaxSaleRestarts,  \* bound: restarts of the process
          NoUser

ASSUME MarketplaceAssumption ==
    /\ FirstOwner \in Users /\ NoUser \notin Users
    /\ Platform \notin Users /\ Market \notin Users \cup {Platform}
    /\ Price \in Nat /\ Fee \in 0..Price /\ FundsOf \in [Users -> Nat] /\ MaxPurchases \in Nat
    /\ MaxReads \in Nat /\ Withdrawing \subseteq Users \cup {Platform} /\ MaxSaleRestarts \in Nat
    /\ IsFiniteSet(Users) /\ IsFiniteSet(Certificates)

VARIABLES certificate,  \* 'marketplace-certificates': owner and state
          intent,       \* 'marketplace-listing-intents'
          saleRow,      \* 'marketplace-listings'
          agentOwner,   \* 'api-agents': owner and erc8004Identity.ownerAddress
          purchases,    \* the keys of each purchase begun, and who still awaits them
          reading,      \* the snapshots being read, each of a listing
          graceOver,    \* rows whose purchase began a grace period ago
          wallet,       \* external: the seller's approve and createListing transactions
          cancelling,   \* external: the seller's cancel transaction
          eligibility, listing, payer, nftOwner, nftApproved, creditOf, usdc, \* Arc
          expired,      \* listings whose expiresAt has passed
          saleRestarts

service == <<certificate, intent, saleRow, agentOwner, graceOver>>
traffic == <<purchases, reading, wallet, cancelling, saleRestarts>>
arc == <<eligibility, listing, payer, nftOwner, nftApproved, creditOf, usdc, expired>>
marketplaceVars == <<service, traffic, arc>>

-----------------------------------------------------------------------------

ListingState == {"NONE", "ACTIVE", "SOLD", "CANCELLED"}
RowState == {"NONE", "SUBMITTED", "ACTIVE", "BUY_SUBMITTED", "CANCEL_SUBMITTED",
             "SOLD", "CANCELLED", "EXPIRED"}
OpenRow == {"SUBMITTED", "ACTIVE", "BUY_SUBMITTED", "CANCEL_SUBMITTED"}
\* purchase is the place in purchases of the keys the row holds, 0 for none.
ListingRow == [state : RowState, buyer : Users \cup {NoUser}, purchase : 0..MaxPurchases]
\* awaited says that a request of the process still waits for the transaction.
Purchase == [buyer : Users, awaited : BOOLEAN, tx : {"none", "sent", "mined", "reverted"}]
Readers == 1..MaxReads
Snapshot == [of : Certificates \cup {NoUser}, state : {"none", "EXPIRED"} \cup ListingState,
             owner : Users \cup {NoUser}]
NoRead == [of |-> NoUser, state |-> "none", owner |-> NoUser]

Seller(c) == certificate[c].owner
Begun == Cardinality({p \in Certificates \X (1..MaxPurchases) : p[2] \in DOMAIN purchases[p[1]]})
Accounts == Users \cup {Platform, Market}

MarketplaceInit ==
    /\ certificate = [c \in Certificates |-> [owner |-> NoUser, state |-> "NONE"]]
    /\ intent = [c \in Certificates |-> "none"]
    /\ saleRow = [c \in Certificates |-> [state |-> "NONE", buyer |-> NoUser, purchase |-> 0]]
    /\ agentOwner = FirstOwner
    /\ purchases = [c \in Certificates |-> << >>]
    /\ reading = [r \in Readers |-> NoRead]
    /\ graceOver = {}
    /\ wallet = [c \in Certificates |-> "idle"]
    /\ cancelling = [c \in Certificates |-> "idle"]
    /\ eligibility = [c \in Certificates |-> "none"]
    /\ listing = [c \in Certificates |-> "NONE"]
    /\ payer = [c \in Certificates |-> NoUser]
    /\ nftOwner = FirstOwner /\ nftApproved = FALSE
    /\ creditOf = [a \in Users \cup {Platform} |-> 0]
    /\ usdc = [a \in Accounts |-> IF a \in Users THEN FundsOf[a] ELSE 0]
    /\ expired = {}
    /\ saleRestarts = 0

-----------------------------------------------------------------------------
(* Certificates.                                                           *)

\* The eligibility route reuses a certificate of the version whose intent has
\* no listing yet; a new one needs every row of the version to be closed.
CreateEligibility(u, c) ==
    /\ agentOwner = u /\ certificate[c].state = "NONE"
    /\ \A d \in Certificates : VersionOf[d] = VersionOf[c] =>
          /\ saleRow[d].state \notin OpenRow
          /\ certificate[d].owner = u => intent[d] = "listed"
    /\ certificate' = [certificate EXCEPT ![c] = [owner |-> u, state |-> "ELIGIBLE"]]
    /\ UNCHANGED <<intent, saleRow, agentOwner, graceOver, traffic, arc>>

\* The operator's transaction; a digest found on Arc is not sent again.
ApproveOnArc(c) ==
    /\ certificate[c].state # "NONE" /\ eligibility[c] = "none"
    /\ eligibility' = [eligibility EXCEPT ![c] = "approved"]
    /\ UNCHANGED <<service, traffic, listing, payer, nftOwner, nftApproved, creditOf, usdc, expired>>

ApproveEligibility(c) ==
    /\ certificate[c].state = "ELIGIBLE" /\ eligibility[c] # "none"
    /\ certificate' = [certificate EXCEPT ![c].state = "APPROVED"]
    /\ UNCHANGED <<intent, saleRow, agentOwner, graceOver, traffic, arc>>

-----------------------------------------------------------------------------
(* Listing.                                                                *)

BeginListing(c) ==
    /\ certificate[c].state = "APPROVED" /\ agentOwner = Seller(c)
    /\ intent[c] = "none" /\ c \notin expired
    /\ intent' = [intent EXCEPT ![c] = "prepared"]
    /\ UNCHANGED <<certificate, saleRow, agentOwner, graceOver, traffic, arc>>

\* The wallet's two transactions of the intent, each sent once: the approval of
\* the token, and createListing when the approval has succeeded.
ApproveToken(c) ==
    /\ intent[c] = "prepared" /\ eligibility[c] # "none" /\ wallet[c] = "idle"
    /\ LET owns == nftOwner = Seller(c) IN
         /\ nftApproved' = (nftApproved \/ owns)
         /\ wallet' = [wallet EXCEPT ![c] = IF owns THEN "approved" ELSE "reverted"]
    /\ UNCHANGED <<service, purchases, reading, cancelling, saleRestarts, eligibility, listing, payer, nftOwner,
                   creditOf, usdc, expired>>

MayList(c) == /\ nftOwner = Seller(c) /\ nftApproved
              /\ c \notin expired /\ eligibility[c] = "approved"

CreateListing(c) ==
    /\ wallet[c] = "approved"
    /\ IF MayList(c)
       THEN /\ eligibility' = [eligibility EXCEPT ![c] = "consumed"]
            /\ listing' = [listing EXCEPT ![c] = "ACTIVE"]
            /\ wallet' = [wallet EXCEPT ![c] = "listed"]
       ELSE /\ wallet' = [wallet EXCEPT ![c] = "reverted"]
            /\ UNCHANGED <<eligibility, listing>>
    /\ UNCHANGED <<service, purchases, reading, cancelling, saleRestarts, payer, nftOwner, nftApproved,
                   creditOf, usdc, expired>>

RecordListingTransaction(c) ==
    /\ wallet[c] = "listed" /\ intent[c] = "prepared"
    /\ intent' = [intent EXCEPT ![c] = "sent"]
    /\ UNCHANGED <<certificate, saleRow, agentOwner, graceOver, traffic, arc>>

\* After resolveCreatedListingId: the row is created by the agent's owner only.
FinishListing(c) ==
    /\ intent[c] = "sent" /\ agentOwner = Seller(c)
    /\ intent' = [intent EXCEPT ![c] = "listed"]
    /\ saleRow' = [saleRow EXCEPT ![c].state = "SUBMITTED"]
    /\ UNCHANGED <<certificate, agentOwner, graceOver, traffic, arc>>

-----------------------------------------------------------------------------
(* Purchase.                                                               *)

\* A first request writes the buyer and his keys; the buyer's next one joins it.
BeginPurchase(u, c) ==
    /\ u # Seller(c)
    /\ \/ /\ saleRow[c].state = "ACTIVE" /\ Begun < MaxPurchases
          /\ purchases' = [purchases EXCEPT ![c] =
                              Append(@, [buyer |-> u, awaited |-> TRUE, tx |-> "none"])]
          /\ saleRow' = [saleRow EXCEPT ![c] = [state |-> "BUY_SUBMITTED", buyer |-> u,
                                        purchase |-> Len(purchases[c]) + 1]]
          /\ graceOver' = graceOver \ {c}
       \/ /\ saleRow[c].state = "BUY_SUBMITTED" /\ saleRow[c].buyer = u
          /\ purchases' = [purchases EXCEPT ![c][saleRow[c].purchase].awaited = TRUE]
          /\ UNCHANGED <<saleRow, graceOver>>
    /\ UNCHANGED <<certificate, intent, agentOwner, reading, wallet, cancelling, saleRestarts, arc>>

\* The wallet refuses a price above its balance, and then the request fails.
SendPurchase(c, i) ==
    /\ purchases[c][i].awaited /\ purchases[c][i].tx = "none"
    /\ purchases' = [purchases EXCEPT ![c][i] =
                        IF usdc[@.buyer] >= Price THEN [@ EXCEPT !.tx = "sent"]
                        ELSE [@ EXCEPT !.awaited = FALSE]]
    /\ UNCHANGED <<service, reading, wallet, cancelling, saleRestarts, arc>>

MayBuy(u, c) == /\ listing[c] = "ACTIVE" /\ c \notin expired /\ u # Seller(c)
                /\ usdc[u] >= Price
TokenMoves(c) == nftOwner = Seller(c) /\ nftApproved

Sold(u, c) ==
    /\ listing' = [listing EXCEPT ![c] = "SOLD"]
    /\ payer' = [payer EXCEPT ![c] = u]
    /\ creditOf' = [creditOf EXCEPT ![Seller(c)] = @ + Price - Fee, ![Platform] = @ + Fee]
    /\ usdc' = [usdc EXCEPT ![u] = @ - Price, ![Market] = @ + Price]
    /\ nftOwner' = u /\ nftApproved' = FALSE

\* buy succeeds as a whole or changes nothing.
Buy(c, i) ==
    LET u == purchases[c][i].buyer
        succeeds == MayBuy(u, c) /\ TokenMoves(c) IN
    /\ purchases[c][i].tx = "sent"
    /\ purchases' = [purchases EXCEPT ![c][i].tx = IF succeeds THEN "mined" ELSE "reverted"]
    /\ IF succeeds THEN Sold(u, c)
       ELSE UNCHANGED <<listing, payer, creditOf, usdc, nftOwner, nftApproved>>
    /\ UNCHANGED <<service, reading, wallet, cancelling, saleRestarts, eligibility, expired>>

\* The request ends: submitMarketplacePurchase keeps the transaction for display.
PurchaseAnswered(c, i) ==
    /\ purchases[c][i].awaited /\ purchases[c][i].tx \in {"mined", "reverted"}
    /\ purchases' = [purchases EXCEPT ![c][i].awaited = FALSE]
    /\ UNCHANGED <<service, reading, wallet, cancelling, saleRestarts, arc>>

-----------------------------------------------------------------------------
(* Cancellation and credit.                                                *)

BeginCancellation(c) ==
    /\ saleRow[c].state = "ACTIVE"
    /\ saleRow' = [saleRow EXCEPT ![c].state = "CANCEL_SUBMITTED"]
    /\ cancelling' = [cancelling EXCEPT ![c] = "sent"]
    /\ UNCHANGED <<certificate, intent, agentOwner, graceOver, purchases, reading, wallet, saleRestarts, arc>>

Cancel(c) ==
    /\ cancelling[c] = "sent"
    /\ cancelling' = [cancelling EXCEPT ![c] = IF listing[c] = "ACTIVE" THEN "mined" ELSE "reverted"]
    /\ listing' = [listing EXCEPT ![c] = IF @ = "ACTIVE" THEN "CANCELLED" ELSE @]
    /\ UNCHANGED <<service, purchases, reading, wallet, saleRestarts, eligibility, payer, nftOwner, nftApproved,
                   creditOf, usdc, expired>>

\* Mutant of Withdraw: the credit is not reset before the transfer.
WithdrawAgain(a) ==
    /\ creditOf[a] > 0
    /\ usdc' = [usdc EXCEPT ![a] = @ + creditOf[a], ![Market] = @ - creditOf[a]]
    /\ UNCHANGED <<service, traffic, eligibility, listing, payer, nftOwner, nftApproved, creditOf, expired>>

Withdraw(a) ==
    /\ creditOf[a] > 0
    /\ creditOf' = [creditOf EXCEPT ![a] = 0]
    /\ usdc' = [usdc EXCEPT ![a] = @ + creditOf[a], ![Market] = @ - creditOf[a]]
    /\ UNCHANGED <<service, traffic, eligibility, listing, payer, nftOwner, nftApproved, expired>>

-----------------------------------------------------------------------------
(* Reconciliation.  A snapshot is two reads of Arc, and then the row.      *)

\* The listing: of the rows the reconciliation asks for, which are those that wait
\* and the sold ones the agent's owner is not the buyer of, and, on the delivery and
\* cancel routes, of any row.
ReadListing(r, c) ==
    /\ saleRow[c].state # "NONE" /\ reading[r] = NoRead
    /\ LET seen == IF listing[c] = "ACTIVE" /\ c \in expired THEN "EXPIRED" ELSE listing[c]
       IN  reading' = [reading EXCEPT ![r] = [of |-> c, state |-> seen, owner |-> NoUser]]
    /\ UNCHANGED <<service, purchases, wallet, cancelling, saleRestarts, arc>>

ReadOwner(r) ==
    /\ reading[r] # NoRead /\ reading[r].owner = NoUser
    /\ reading' = [reading EXCEPT ![r].owner = nftOwner]
    /\ UNCHANGED <<service, purchases, wallet, cancelling, saleRestarts, arc>>

\* The buyer of a sold listing must be the one the row names, the owner of an
\* active one the seller; a sold row stays sold.
MayPublish(c, snapshot) ==
    /\ snapshot.state = "SOLD" => saleRow[c].buyer = snapshot.owner
    /\ snapshot.state = "ACTIVE" => snapshot.owner = Seller(c)
    /\ saleRow[c].state = "SOLD" => snapshot.state = "SOLD"

\* A purchase that left the listing active gives the row back after the grace.
Abandoned(c) == saleRow[c].state = "BUY_SUBMITTED" /\ c \in graceOver
Release(c) ==
    /\ saleRow' = [saleRow EXCEPT ![c] = [state |-> "ACTIVE", buyer |-> NoUser, purchase |-> 0]]
    /\ UNCHANGED agentOwner

\* The row is written first: a transfer that is refused leaves it sold.
Follow(c, state) ==
    /\ saleRow' = [saleRow EXCEPT ![c].state = state]
    /\ agentOwner' = IF state = "SOLD" /\ agentOwner \in {Seller(c), saleRow[c].buyer}
                     THEN saleRow[c].buyer ELSE agentOwner

Publish(r) ==
    LET snapshot == reading[r]
        c == snapshot.of
        waits == snapshot.state = "ACTIVE" /\ saleRow[c].state \in {"BUY_SUBMITTED", "CANCEL_SUBMITTED"} IN
    /\ snapshot.owner # NoUser
    /\ reading' = [reading EXCEPT ![r] = NoRead]
    /\ \/ MayPublish(c, snapshot) /\ ~waits /\ Follow(c, snapshot.state)
       \/ MayPublish(c, snapshot) /\ waits /\ Abandoned(c) /\ Release(c)
       \/ /\ MayPublish(c, snapshot) => waits /\ ~Abandoned(c)
          /\ UNCHANGED <<saleRow, agentOwner>>
    /\ UNCHANGED <<certificate, intent, graceOver, purchases, wallet, cancelling, saleRestarts, arc>>

-----------------------------------------------------------------------------
(* Time and failure.                                                       *)

GraceEnds(c) ==
    /\ saleRow[c].state = "BUY_SUBMITTED" /\ c \notin graceOver
    /\ graceOver' = graceOver \cup {c}
    /\ UNCHANGED <<certificate, intent, saleRow, agentOwner, traffic, arc>>

Expires(c) ==
    /\ intent[c] # "none" /\ c \notin expired
    /\ expired' = expired \cup {c}
    /\ UNCHANGED <<service, traffic, eligibility, listing, payer, nftOwner, nftApproved, creditOf, usdc>>

\* The process ends and starts again: what its requests awaited is lost.
SaleRestart ==
    /\ saleRestarts < MaxSaleRestarts /\ saleRestarts' = saleRestarts + 1
    /\ \/ \E r \in Readers : reading[r] # NoRead
       \/ \E c \in Certificates : \E i \in DOMAIN purchases[c] : purchases[c][i].awaited
    /\ reading' = [r \in Readers |-> NoRead]
    /\ purchases' = [c \in Certificates |->
                        [i \in DOMAIN purchases[c] |-> [purchases[c][i] EXCEPT !.awaited = FALSE]]]
    /\ UNCHANGED <<service, wallet, cancelling, arc>>

Certify(c) == (\E u \in Users : CreateEligibility(u, c)) \/ ApproveOnArc(c) \/ ApproveEligibility(c)
List(c) == \/ BeginListing(c) \/ ApproveToken(c) \/ CreateListing(c)
           \/ RecordListingTransaction(c) \/ FinishListing(c)
Sell(c) ==
    \/ \E u \in Users : BeginPurchase(u, c)
    \/ \E i \in DOMAIN purchases[c] : SendPurchase(c, i) \/ Buy(c, i) \/ PurchaseAnswered(c, i)
    \/ BeginCancellation(c) \/ Cancel(c)
Reconcile(r) == (\E c \in Certificates : ReadListing(r, c)) \/ ReadOwner(r) \/ Publish(r)

MarketplaceNext ==
    \/ \E c \in Certificates : Certify(c) \/ List(c) \/ Sell(c) \/ GraceEnds(c) \/ Expires(c)
    \/ \E r \in Readers : Reconcile(r)
    \/ \E a \in Withdrawing : Withdraw(a)
    \/ SaleRestart

MarketplaceSpec == MarketplaceInit /\ [][MarketplaceNext]_marketplaceVars

-----------------------------------------------------------------------------

MarketplaceTypeOK ==
    /\ certificate \in [Certificates -> [owner : Users \cup {NoUser},
                                         state : {"NONE", "ELIGIBLE", "APPROVED"}]]
    /\ intent \in [Certificates -> {"none", "prepared", "sent", "listed"}]
    /\ saleRow \in [Certificates -> ListingRow]
    /\ agentOwner \in Users
    /\ \A c \in Certificates : \A i \in DOMAIN purchases[c] : purchases[c][i] \in Purchase
    /\ reading \in [Readers -> Snapshot]
    /\ graceOver \subseteq Certificates
    /\ wallet \in [Certificates -> {"idle", "approved", "listed", "reverted"}]
    /\ cancelling \in [Certificates -> {"idle", "sent", "mined", "reverted"}]
    /\ eligibility \in [Certificates -> {"none", "approved", "consumed"}]
    /\ listing \in [Certificates -> ListingState]
    /\ payer \in [Certificates -> Users \cup {NoUser}]
    /\ nftOwner \in Users /\ nftApproved \in BOOLEAN
    /\ creditOf \in [Users \cup {Platform} -> Nat] /\ usdc \in [Accounts -> Nat]
    /\ expired \subseteq Certificates
    /\ saleRestarts \in 0..MaxSaleRestarts

SoldBy(u) == Cardinality({c \in Certificates : listing[c] = "SOLD" /\ Seller(c) = u})
BoughtBy(u) == Cardinality({c \in Certificates : listing[c] = "SOLD" /\ payer[c] = u})
Owned(u, owner) == IF u = owner THEN 1 ELSE 0

\* Every sold listing moved one price and the token, both from the seller's side
\* to the buyer's and once, and no other listing moved anything, although a token
\* may be on sale twice and a listing may outlive its seller's ownership; and the
\* market holds what it owes (AgentMarketplaceV2.buy, withdraw).
SalesWhole ==
    /\ \A u \in Users :
         /\ usdc[u] + creditOf[u] = FundsOf[u] - Price * BoughtBy(u) + (Price - Fee) * SoldBy(u)
         /\ Owned(u, nftOwner) = Owned(u, FirstOwner) + BoughtBy(u) - SoldBy(u)
    /\ usdc[Platform] + creditOf[Platform]
         = Fee * Cardinality({c \in Certificates : listing[c] = "SOLD"})
    /\ usdc[Market] = SumFunctionOnSet(creditOf, Users \cup {Platform})

\* A row says SOLD, and delivers the private AGENTS.md, only when the listing is
\* sold on Arc, and to the buyer who paid for it, whatever purchases were given up
\* and begun again and however old the snapshot.  When a purchase that was given up
\* is mined after all, a later buyer of the row may stand in for the one who paid,
\* and then only if he bought the token himself, through another listing
\* (publishMarketplaceListing, getMarketplaceDelivery).
DeliveredToBuyer ==
    \A c \in Certificates : saleRow[c].state = "SOLD" =>
        /\ listing[c] = "SOLD" /\ payer[c] # NoUser
        /\ \/ saleRow[c].buyer = payer[c]
           \/ /\ \E i \in 1..(saleRow[c].purchase - 1) :
                    purchases[c][i].buyer = payer[c] /\ purchases[c][i].tx = "mined"
              /\ \E d \in Certificates \ {c} : listing[d] = "SOLD" /\ payer[d] = saleRow[c].buyer

\* The sale of an agent, as its two ends see it: Arc and the private delivery.
SoldAndDelivered == MarketplaceTypeOK /\ SalesWhole /\ DeliveredToBuyer
=============================================================================
