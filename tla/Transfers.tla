------------------------------- MODULE Transfers -------------------------------
(***************************************************************************)
(* The money an account moves through its managed wallet: withdrawals of   *)
(* USDC on Arc and bridges of USDC from another chain (managed-identity.ts *)
(* and circle-managed-wallet.ts).  Circle executes transactions, one per   *)
(* idempotency key, and answers late, with an error, or never.  The API    *)
(* process runs each operation at most once at a time, may end between any *)
(* two awaits, and takes the unfinished ones up again when it starts.      *)
(* The operations are those of one account: nothing is shared by two.      *)
(***************************************************************************)
EXTENDS Integers, FiniteSets

CONSTANTS Withdrawals,    \* operations of startUsdcTransfer
          Payments,       \* a destination with an amount
          Bridges,        \* operations of startBridgeUsdcToArc
          Legacy,         \* those of them an earlier version of the program left
          BridgeAmount,   \* the amount of a bridge
          Fees,           \* what forwarding may be quoted at
          SourceBalance,  \* USDC of the wallet on the source chain
          MaxEnds,        \* bound: ends of the process
          Nothing         \* no operation, no payment

ASSUME TransfersAssumption ==
    /\ Nothing \notin Withdrawals \cup Payments
    /\ Legacy \subseteq Bridges
    /\ BridgeAmount \in [Bridges -> Nat \ {0}]
    /\ Fees \subseteq Nat /\ SourceBalance \in Nat /\ MaxEnds \in Nat

VARIABLES withdrawal,  \* circle-usdc-transfers
          unresolved,  \* circle-usdc-active of the account
          send,        \* the run of performUsdcTransfer, if any
          moved,       \* Circle's transaction of a withdrawal
          answers,     \* answers of getTransfer a reader has not applied yet
          bridge,      \* circle-cctp-transfers
          run,         \* the run of performCctpTransfer, if any
          approval,    \* Circle's approval transaction of a bridge
          burns,       \* Circle's burn transactions, by the key each was asked with
          drawn,       \* burn keys drawn for a bridge so far
          allowance,   \* what the wallet lets the token messenger take
          source,      \* the wallet's USDC on the source chain
          minted,      \* burns that were minted on Arc
          ends         \* ends of the process so far

usdcVars == <<withdrawal, unresolved, send, moved, answers>>
cctpVars == <<bridge, run, approval, burns, drawn, allowance, source, minted>>
transferVars == <<usdcVars, cctpVars, ends>>

Executions == {"none", "created", "confirmed", "failed"}
Answer == {"created", "confirmed", "failed", "replaced"}
NoWithdrawal == [state |-> "ABSENT", payment |-> Nothing]
NoBridge == [state |-> "ABSENT", approvalKey |-> FALSE, burnKey |-> 0, approvalId |-> FALSE,
             burnId |-> FALSE, hash |-> "none", plan |-> 0]
Resumable == {"PENDING", "APPROVING", "BURNING", "SUBMITTED"}
RunPc == {"idle", "checked", "quoting", "approve", "approved", "approval",
          "burn", "burned", "burning", "mint"}

TransfersTypeOK ==
    /\ withdrawal \in [Withdrawals ->
          [state : {"ABSENT", "PENDING", "SUBMITTED", "CONFIRMED", "FAILED", "RECOVERY_REQUIRED"},
           payment : Payments \cup {Nothing}]]
    /\ unresolved \in Withdrawals \cup {Nothing}
    /\ send \in [Withdrawals -> {"idle", "sending", "answered"}]
    /\ moved \in [Withdrawals -> Executions]
    /\ answers \in [Withdrawals -> SUBSET Answer]
    /\ \A b \in Bridges :
          /\ bridge[b].state \in Resumable \cup {"ABSENT", "COMPLETE", "FAILED", "RECOVERY_REQUIRED"}
          /\ bridge[b].hash \in {"none", "approval", "burn"}
          /\ bridge[b].burnKey \in 0..drawn[b]
    /\ run \in [Bridges -> RunPc]
    /\ approval \in [Bridges -> Executions]
    /\ \A x \in burns : x.bridge \in Bridges /\ x.state \in Executions \ {"none"}
    /\ allowance \in Nat /\ source \in Nat /\ ends \in 0..MaxEnds
    /\ minted \subseteq Bridges

-----------------------------------------------------------------------------
(* Withdrawals. *)

Settled(w) == withdrawal[w].state \in {"CONFIRMED", "FAILED"}

\* updateUsdcTransfer: a finished record stays, and a settled one frees the account.
UpdateUsdc(w, state) ==
    IF withdrawal[w].state \in {"CONFIRMED", "FAILED", "RECOVERY_REQUIRED"}
    THEN UNCHANGED <<withdrawal, unresolved>>
    ELSE /\ withdrawal' = [withdrawal EXCEPT ![w].state = state]
         /\ unresolved' = IF state \in {"CONFIRMED", "FAILED"} /\ unresolved = w
                          THEN Nothing ELSE unresolved

\* startUsdcTransfer of payment p: an unresolved withdrawal is taken up again if it is
\* of the same payment and still PENDING, and refused if of another; otherwise w begins.
StartWithdrawal(w, p) ==
    LET a == unresolved
    IN  /\ IF a # Nothing /\ ~Settled(a)
           THEN /\ withdrawal[a].payment = p /\ withdrawal[a].state = "PENDING" /\ send[a] = "idle"
                /\ send' = [send EXCEPT ![a] = "sending"]
                /\ UNCHANGED <<withdrawal, unresolved>>
           ELSE /\ withdrawal[w] = NoWithdrawal
                /\ withdrawal' = [withdrawal EXCEPT ![w] = [state |-> "PENDING", payment |-> p]]
                /\ unresolved' = w
                /\ send' = [send EXCEPT ![w] = "sending"]
        /\ UNCHANGED <<moved, answers, cctpVars, ends>>

\* Circle accepts the transaction: a repeated key names the one it already has.
TransferUsdc(w) ==
    /\ send[w] = "sending"
    /\ send' = [send EXCEPT ![w] = "answered"]
    /\ moved' = [moved EXCEPT ![w] = IF @ = "none" THEN "created" ELSE @]
    /\ UNCHANGED <<withdrawal, unresolved, answers, cctpVars, ends>>

Submitted(w) ==
    /\ send[w] = "answered"
    /\ send' = [send EXCEPT ![w] = "idle"]
    /\ UpdateUsdc(w, "SUBMITTED")
    /\ UNCHANGED <<moved, answers, cctpVars, ends>>

\* Mutant of Uncertain: a failed call is taken for a failed transfer.
UncertainFailed == "FAILED"
\* What is known after a call that failed, before or after Circle took it.
Uncertain == "RECOVERY_REQUIRED"

SendFails(w) ==
    /\ send[w] \in {"sending", "answered"}
    /\ send' = [send EXCEPT ![w] = "idle"]
    /\ UpdateUsdc(w, Uncertain)
    /\ UNCHANGED <<moved, answers, cctpVars, ends>>

\* getUsdcTransfer up to its await, with what Circle answers at that moment; a
\* transaction sent again on chain has another hash than the one recorded.
ReadTransfer(w) ==
    /\ withdrawal[w].state = "SUBMITTED"
    /\ \E a \in {moved[w], "replaced"} : answers' = [answers EXCEPT ![w] = @ \cup {a}]
    /\ UNCHANGED <<withdrawal, unresolved, send, moved, cctpVars, ends>>

Applied == [created |-> "SUBMITTED", confirmed |-> "CONFIRMED", failed |-> "FAILED",
            replaced |-> "RECOVERY_REQUIRED"]

\* ... and after it, in whatever order the answers come.
ApplyAnswer(w) ==
    \E a \in answers[w] :
        /\ answers' = [answers EXCEPT ![w] = @ \ {a}]
        /\ UpdateUsdc(w, Applied[a])
        /\ UNCHANGED <<send, moved, cctpVars, ends>>

ExecuteWithdrawal(w) ==
    /\ moved[w] = "created"
    /\ \E s \in {"confirmed", "failed"} : moved' = [moved EXCEPT ![w] = s]
    /\ UNCHANGED <<withdrawal, unresolved, send, answers, cctpVars, ends>>

-----------------------------------------------------------------------------
(* Bridges. *)

Rank == [PENDING |-> 0, APPROVING |-> 1, BURNING |-> 2, SUBMITTED |-> 3,
         COMPLETE |-> 4, FAILED |-> 4, RECOVERY_REQUIRED |-> 4]

\* updateCctpTransfer: a finished record stays, and the state never goes back.
Patched(b, patch) ==
    LET old == bridge[b]
    IN  IF Rank[old.state] = 4 THEN old
        ELSE IF Rank[patch.state] < Rank[old.state] THEN [patch EXCEPT !.state = old.state]
        ELSE patch

UpdateCctp(b, patch) == bridge' = [bridge EXCEPT ![b] = Patched(b, patch)]
RunsAt(b, pc) == run' = [run EXCEPT ![b] = pc]

\* requireSourceBalance, read before the record is made.
CheckSource(b) ==
    /\ bridge[b] = NoBridge /\ run[b] = "idle" /\ source >= BridgeAmount[b]
    /\ RunsAt(b, "checked")
    /\ UNCHANGED <<usdcVars, bridge, approval, burns, drawn, allowance, source, minted, ends>>

\* The rest of startBridgeUsdcToArc, up to the first await of its run.
StartBridge(b) ==
    /\ run[b] = "checked"
    /\ bridge' = [bridge EXCEPT ![b] =
          [NoBridge EXCEPT !.state = "PENDING", !.approvalKey = TRUE, !.burnKey = 1]]
    /\ drawn' = [drawn EXCEPT ![b] = 1]
    /\ RunsAt(b, "quoting")
    /\ UNCHANGED <<usdcVars, approval, burns, allowance, source, minted, ends>>

\* A record whose transactions cannot be asked for again under their own keys.
Irreconcilable(b) ==
    \/ ~bridge[b].approvalKey
    \/ bridge[b].state = "BURNING" /\ bridge[b].burnKey = 0

\* performCctpTransfer up to its first await, from a read of the operation or at the
\* start of the process.
ResumeBridge(b) ==
    LET fresh == bridge[b].burnKey = 0
    IN  /\ run[b] = "idle" /\ bridge[b].state \in Resumable
        /\ IF bridge[b].state = "SUBMITTED"
           THEN RunsAt(b, "mint") /\ UNCHANGED <<bridge, drawn>>
           ELSE IF Irreconcilable(b)
           THEN UpdateCctp(b, [bridge[b] EXCEPT !.state = "RECOVERY_REQUIRED"]) /\ UNCHANGED <<run, drawn>>
           ELSE /\ RunsAt(b, "quoting")
                /\ drawn' = [drawn EXCEPT ![b] = IF fresh THEN @ + 1 ELSE @]
                /\ UpdateCctp(b, IF fresh THEN [bridge[b] EXCEPT !.burnKey = drawn[b] + 1] ELSE bridge[b])
        /\ UNCHANGED <<usdcVars, approval, burns, allowance, source, minted, ends>>

\* The state after the balance turned out too small for the fees.
Refused(b) == IF bridge[b].state = "PENDING" THEN "FAILED" ELSE "RECOVERY_REQUIRED"

\* A fee is quoted and checked against the balance once, then the plan is kept.
Quote(b) ==
    /\ run[b] = "quoting"
    /\ \E fee \in Fees :
          LET total == IF bridge[b].plan > 0 THEN bridge[b].plan ELSE BridgeAmount[b] + fee
          IN  IF bridge[b].plan = 0 /\ source < total
              THEN UpdateCctp(b, [bridge[b] EXCEPT !.state = Refused(b)]) /\ RunsAt(b, "idle")
              ELSE /\ UpdateCctp(b, [bridge[b] EXCEPT !.state = "APPROVING", !.plan = total])
                   /\ RunsAt(b, IF bridge[b].approvalId THEN "approval" ELSE "approve")
    /\ UNCHANGED <<usdcVars, approval, burns, drawn, allowance, source, minted, ends>>

CreateApproval(b) ==
    /\ run[b] = "approve"
    /\ approval' = [approval EXCEPT ![b] = IF @ = "none" THEN "created" ELSE @]
    /\ RunsAt(b, "approved")
    /\ UNCHANGED <<usdcVars, bridge, burns, drawn, allowance, source, minted, ends>>

ApprovalKnown(b) ==
    /\ run[b] = "approved"
    /\ UpdateCctp(b, [bridge[b] EXCEPT !.approvalId = TRUE])
    /\ RunsAt(b, "approval")
    /\ UNCHANGED <<usdcVars, approval, burns, drawn, allowance, source, minted, ends>>

ApprovalConfirmed(b) ==
    /\ run[b] = "approval" /\ approval[b] = "confirmed"
    /\ UpdateCctp(b, [bridge[b] EXCEPT !.state = "BURNING", !.hash = "approval"])
    /\ RunsAt(b, IF bridge[b].burnId THEN "burning" ELSE "burn")
    /\ UNCHANGED <<usdcVars, approval, burns, drawn, allowance, source, minted, ends>>

BurnOf(b) == {x \in burns : x.bridge = b /\ x.key = bridge[b].burnKey}

CreateBurn(b) ==
    /\ run[b] = "burn"
    /\ burns' = IF BurnOf(b) # {} THEN burns
                ELSE burns \cup {[bridge |-> b, key |-> bridge[b].burnKey,
                                  total |-> bridge[b].plan, state |-> "created"]}
    /\ RunsAt(b, "burned")
    /\ UNCHANGED <<usdcVars, bridge, approval, drawn, allowance, source, minted, ends>>

BurnKnown(b) ==
    /\ run[b] = "burned"
    /\ UpdateCctp(b, [bridge[b] EXCEPT !.burnId = TRUE])
    /\ RunsAt(b, "burning")
    /\ UNCHANGED <<usdcVars, approval, burns, drawn, allowance, source, minted, ends>>

BurnConfirmed(b) ==
    /\ run[b] = "burning" /\ \E x \in BurnOf(b) : x.state = "confirmed"
    /\ UpdateCctp(b, [bridge[b] EXCEPT !.state = "SUBMITTED", !.hash = "burn"])
    /\ RunsAt(b, "idle")
    /\ UNCHANGED <<usdcVars, approval, burns, drawn, allowance, source, minted, ends>>

\* CctpTransactionPendingError: Circle has not confirmed within two minutes.
NotYet(b) ==
    /\ run[b] \in {"approval", "burning"}
    /\ RunsAt(b, "idle")
    /\ UNCHANGED <<usdcVars, bridge, approval, burns, drawn, allowance, source, minted, ends>>

\* Any other error: a call that fails or an execution that did.
BridgeFails(b) ==
    /\ run[b] \notin {"idle", "checked", "mint"}
    /\ UpdateCctp(b, [bridge[b] EXCEPT !.state = "RECOVERY_REQUIRED"])
    /\ RunsAt(b, "idle")
    /\ UNCHANGED <<usdcVars, approval, burns, drawn, allowance, source, minted, ends>>

\* getCctpMintStatus: the message of this burn's hash, minted by a receipt read on Arc.
MintSeen(b) == bridge[b].hash = "burn" /\ b \in minted

ReadMint(b) ==
    /\ run[b] = "mint"
    /\ UpdateCctp(b, IF MintSeen(b) THEN [bridge[b] EXCEPT !.state = "COMPLETE"] ELSE bridge[b])
    /\ RunsAt(b, "idle")
    /\ UNCHANGED <<usdcVars, approval, burns, drawn, allowance, source, minted, ends>>

\* The chains.  An approval replaces the allowance, of another bridge too.
ExecuteApproval(b) ==
    /\ approval[b] = "created"
    /\ \/ /\ approval' = [approval EXCEPT ![b] = "confirmed"]
          /\ allowance' = bridge[b].plan
       \/ approval' = [approval EXCEPT ![b] = "failed"] /\ UNCHANGED allowance
    /\ UNCHANGED <<usdcVars, bridge, run, burns, drawn, source, minted, ends>>

ExecuteBurn(x) ==
    LET to(s) == (burns \ {x}) \cup {[x EXCEPT !.state = s]}
    IN  /\ x.state = "created"
        /\ \/ /\ allowance >= x.total /\ source >= x.total
              /\ burns' = to("confirmed")
              /\ allowance' = allowance - x.total /\ source' = source - x.total
           \/ burns' = to("failed") /\ UNCHANGED <<allowance, source>>
        /\ UNCHANGED <<usdcVars, bridge, run, approval, drawn, minted, ends>>

Forward(b) ==
    /\ b \notin minted /\ \E x \in burns : x.bridge = b /\ x.state = "confirmed"
    /\ minted' = minted \cup {b}
    /\ UNCHANGED <<usdcVars, bridge, run, approval, burns, drawn, allowance, source, ends>>

-----------------------------------------------------------------------------
\* The process ends, and starts by taking up every PENDING withdrawal; a bridge is
\* taken up by ResumeBridge.
Restarted ==
    /\ ends < MaxEnds /\ ends' = ends + 1
    /\ send' = [w \in Withdrawals |-> IF withdrawal[w].state = "PENDING" THEN "sending" ELSE "idle"]
    /\ answers' = [w \in Withdrawals |-> {}]
    /\ run' = [b \in Bridges |-> "idle"]
    /\ UNCHANGED <<withdrawal, unresolved, moved, bridge, approval, burns, drawn,
                   allowance, source, minted>>

\* What an earlier version may have left of a bridge: no burn key, and a burn that may
\* have been sent under a key that is not recorded.
LegacyBridge == {[NoBridge EXCEPT !.state = s, !.approvalKey = TRUE] : s \in {"PENDING", "APPROVING", "BURNING"}}
                \cup {[NoBridge EXCEPT !.state = "PENDING"]}
OldBurn(b) == [bridge |-> b, key |-> 0, total |-> BridgeAmount[b], state |-> "created"]

TransfersInit ==
    /\ withdrawal = [w \in Withdrawals |-> NoWithdrawal]
    /\ unresolved = Nothing
    /\ send = [w \in Withdrawals |-> "idle"]
    /\ moved = [w \in Withdrawals |-> "none"]
    /\ answers = [w \in Withdrawals |-> {}]
    /\ bridge \in [Bridges -> LegacyBridge \cup {NoBridge}]
    /\ \A b \in Bridges : bridge[b] = NoBridge <=> b \notin Legacy
    /\ run = [b \in Bridges |-> "idle"]
    /\ approval = [b \in Bridges |-> "none"]
    /\ burns \in SUBSET {OldBurn(b) : b \in {b \in Legacy : bridge[b].state = "BURNING"}}
    /\ drawn = [b \in Bridges |-> 0]
    /\ allowance = IF burns = {} THEN 0 ELSE SourceBalance
    /\ source = SourceBalance
    /\ minted = {} /\ ends = 0

WithdrawalStep(w) ==
    \/ \E p \in Payments : StartWithdrawal(w, p)
    \/ TransferUsdc(w) \/ Submitted(w) \/ SendFails(w)
    \/ ReadTransfer(w) \/ ApplyAnswer(w) \/ ExecuteWithdrawal(w)

BridgeStep(b) ==
    \/ CheckSource(b) \/ StartBridge(b) \/ ResumeBridge(b) \/ Quote(b)
    \/ CreateApproval(b) \/ ApprovalKnown(b) \/ ApprovalConfirmed(b)
    \/ CreateBurn(b) \/ BurnKnown(b) \/ BurnConfirmed(b)
    \/ NotYet(b) \/ BridgeFails(b) \/ ReadMint(b)
    \/ ExecuteApproval(b) \/ Forward(b)

TransfersNext ==
    \/ \E w \in Withdrawals : WithdrawalStep(w)
    \/ \E b \in Bridges : BridgeStep(b)
    \/ \E x \in burns : ExecuteBurn(x)
    \/ Restarted

TransfersSpec == TransfersInit /\ [][TransfersNext]_transferVars

-----------------------------------------------------------------------------
(* Properties. *)

\* A withdrawal said to be CONFIRMED moved the money and one said to have FAILED never
\* will, and as long as the outcome of one is unknown no other begins: an account that
\* asks again after an error, a restart or a late answer does not pay twice.
WithdrawnOnce ==
    \A w \in Withdrawals :
        /\ withdrawal[w].state = "CONFIRMED" => moved[w] = "confirmed"
        /\ withdrawal[w].state = "FAILED" => moved[w] = "failed"
        /\ withdrawal[w].state \in {"PENDING", "SUBMITTED", "RECOVERY_REQUIRED"} => unresolved = w

\* A bridge burns once, whatever was repeated after a restart or a timeout; what it
\* burns is what its plan says; FAILED means that nothing was or will be burned, and
\* COMPLETE that the very burn it recorded was minted on Arc.
BurnedOnce ==
    \A b \in Bridges :
        LET mine == {x \in burns : x.bridge = b}
        IN  /\ Cardinality(mine) <= 1
            /\ bridge[b].state = "FAILED" => mine = {}
            /\ bridge[b].state \in {"SUBMITTED", "COMPLETE"} =>
                  \E x \in mine : x.state = "confirmed" /\ x.total = bridge[b].plan
            /\ bridge[b].state = "COMPLETE" => b \in minted

\* Money leaves a wallet once for each thing the account asked for.
MovedOnce == TransfersTypeOK /\ WithdrawnOnce /\ BurnedOnce
=============================================================================
