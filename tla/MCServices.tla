------------------------------ MODULE MCServices ------------------------------
(* Small instances, in one run, of the services that need no other: what an     *)
(* account does, the attempts at a match, the numbers of rooms.  A behaviour is *)
(* one scenario of one module; the others stay as they begin.                   *)
(*   Accounts: two logins at once, a restart                                    *)
(*     signing   of an address                                                  *)
(*     mailed    of an email                                                    *)
(*   Transfers                                                                  *)
(*     sends     two withdrawals, a restart                                     *)
(*     legacy    a bridge an older version left, a restart                      *)
(*     bridging  a bridge, a restart                                            *)
(*     crossing  two bridges of one wallet at once                              *)
(*   AgentIdentity: two requests at once                                        *)
(*     agents    two agents                                                     *)
(*     entering  one agent and a tournament                                     *)
(*     feedback  a finished evaluation, a restart                               *)
(*   InferencePairs: two workers, one of which may end                          *)
(*     paired    one attempt asked with two payloads, a lease that lapses early *)
(*     budgeted  two attempts of one tournament at once                         *)
(*   JudgeTracker: two workers, one mishap                                      *)
(*     tracked   two attempts at one match                                      *)
(*   RoomNumbers: rows an older version left, two requests at once              *)
(*     numbered  two rooms                                                      *)
(*   Marketplace: two purchases                                                 *)
(*     sale      one listing, three users, a restart                            *)
(*     resale    two versions of the agent, so two listings of its token, in    *)
(*               time                                                           *)
(*   PublicRecord                                                               *)
(*     record    one match of each bracket revision, rows an older build left   *)
EXTENDS Accounts, Transfers, AgentIdentity, InferencePairs, RoomNumbers, JudgeTracker,
        PublicRecord, Marketplace, TLC

CONSTANTS address, email, none, r1, r2, w1, w2, pay1, pay2, b0, b1, b2, g1, g2, text, campaign,
          i1, i2, f1, f2, u1, u2, u3, c1, c2, v1, v2, platform, market

VARIABLE instance

OneAddress == {address}
OneEmail == {email}
TwoRequests == {r1, r2}
TwoWithdrawals == {w1, w2}
TwoPayments == {pay1, pay2}
ThreeBridges == {b0, b1, b2}
OldBridge == {b0}
OneEach == [b \in ThreeBridges |-> 1]
FeeQuotes == {0, 1}
TwoAgents == {g1, g2}
OneText == {text}
OneCampaign == {campaign}
TwoRunners == {i1, i2}
TwoAttempts == {r1, r2}
TwoPayloads == {f1, f2}
TwoRooms == {1, 2}
TwoCreators == {r1, r2}
TwoTrials == {r1, r2}
OneMatch == [t \in TwoTrials |-> 1]

ThreeUsers == {u1, u2, u3}
TwoCertificates == {c1, c2}
VersionEach == (c1 :> v1 @@ c2 :> v2)
\* The last can pay one price only.
SomeFunds == (u1 :> 200 @@ u2 :> 200 @@ u3 :> 100)
TwoWithdraw == {u1, platform}

RecordMatches == {"first", "second"}
RecordBracket == <<<<"first">>, <<"second">>>>
NoFacts == {}

\* One winner for the second match, one state between for the first.
FewRows ==
    /\ public["second"] # none => public["second"].winner # "B"
    /\ public["first"] # none => public["first"].state # "RETRYABLE"
    /\ verdicts["second"] = none

SigningIn ==
    \/ instance = "signing" /\ AddressStep(address)
    \/ instance = "mailed" /\ (EmailStep(email) \/ MailStep)
    \/ /\ instance \in {"signing", "mailed"}
       /\ \/ \E r \in Logins : LoginStep(r)
          \/ \E i \in Identities : WalletStep(i)
          \/ \E s \in sessions : EndSession(s)
          \/ Restart

Bridging(some) == (\E b \in some : BridgeStep(b)) \/ (\E x \in burns : ExecuteBurn(x))

Moving ==
    \/ instance = "sends" /\ ((\E w \in Withdrawals : WithdrawalStep(w)) \/ Restarted)
    \/ instance = "legacy" /\ (Bridging({b0}) \/ Restarted)
    \/ instance = "bridging" /\ (Bridging({b1}) \/ Restarted)
    \/ instance = "crossing" /\ Bridging({b1, b2})

Owning ==
    \/ instance = "agents" /\ OwnerStep /\ <<entry, open>>' = <<entry, open>>
    \/ instance = "entering" /\ OwnerStep /\ agent'[g2] = agent[g2]
    \/ instance = "feedback" /\ FeedbackStep(campaign)
    \/ instance = "feedback" /\ ProcessCrashes

Paired ==
    \/ \E w \in Runners : RunnerEnds(w)
    \/ /\ instance = "paired"
       /\ (\E w \in Runners : PairStep(w, r1)) \/ ClaimLapses(r1)
    \/ /\ instance = "budgeted"
       /\ \/ \E w \in Runners, a \in Attempts, f \in {f1} : AnswerStored(w, a, f) \/ Generate(w, a, f)
          \/ \E w \in Runners, a \in Attempts, s \in PairSides : Answered(w, a, s) \/ Unanswered(w, a, s)
          \/ \E w \in Runners, a \in Attempts : Finish(w, a)
       /\ overrun' = overrun
    \/ instance = "budgeted" /\ (\E a \in Attempts : ClaimLapses(a)) /\ overrun' = overrun

\* The third user buys in the sale only.
Selling ==
    \/ instance = "sale" /\ MarketplaceNext /\ certificate'[c2] = certificate[c2]
    \/ /\ instance = "resale"
       /\ \/ \E c \in Certificates : Certify(c) \/ List(c) \/ GraceEnds(c)
          \/ \E c \in Certificates, u \in {u1, u2} : BeginPurchase(u, c)
          \/ \E c \in Certificates : \E i \in DOMAIN purchases[c] :
                SendPurchase(c, i) \/ Buy(c, i) \/ PurchaseAnswered(c, i)
          \/ \E c \in Certificates : BeginCancellation(c) \/ Cancel(c)
          \/ \E r \in Readers : Reconcile(r)

MCInit ==
    /\ instance \in {"signing", "mailed", "sends", "legacy", "bridging", "crossing",
                     "agents", "entering", "feedback", "paired", "budgeted", "numbered", "tracked", "sale", "resale",
                     "record"}
    /\ AccountsInit /\ TransfersInit /\ AgentIdentityInit /\ InferencePairsInit /\ RoomNumbersInit
    /\ JudgeTrackerInit
    /\ RecordInit /\ FewRows
    /\ instance # "record" => public["first"] = none
    /\ MarketplaceInit
    /\ instance # "signing" => wallets[address] = NoWallet
    /\ instance # "mailed" => wallets[email] = NoWallet
    /\ instance # "legacy" => bridge[b0].state = "PENDING" /\ bridge[b0].approvalKey
    /\ instance # "agents" => ~registry
    /\ instance # "numbered" => listed = {} /\ sequence = 0

OthersRest(own) ==
    /\ own # "accounts" => UNCHANGED accountVars
    /\ own # "transfers" => UNCHANGED transferVars
    /\ own # "identity" => UNCHANGED identityVars
    /\ own # "inference" => UNCHANGED inferenceVars
    /\ own # "rooms" => UNCHANGED roomVars
    /\ own # "tracker" => UNCHANGED trackerVars
    /\ own # "sale" => UNCHANGED marketplaceVars
    /\ own # "record" => UNCHANGED recordVars
    /\ UNCHANGED instance

MCNext ==
    \/ SigningIn /\ OthersRest("accounts")
    \/ Moving /\ OthersRest("transfers")
    \/ Owning /\ OthersRest("identity")
    \/ instance \in {"paired", "budgeted"} /\ Paired /\ OthersRest("inference")
    \/ instance = "numbered" /\ RoomNumbersNext /\ OthersRest("rooms")
    \/ instance = "tracked" /\ JudgeTrackerNext /\ OthersRest("tracker")
    \/ Selling /\ OthersRest("sale")
    \/ instance = "record" /\ RecordNext /\ FewRows' /\ OthersRest("record")

MCSpec == MCInit /\ [][MCNext]_<<instance, accountVars, transferVars, identityVars, inferenceVars, roomVars,
                               trackerVars, marketplaceVars, recordVars>>
=============================================================================
